---------------------------- MODULE MemoryProofs ----------------------------
(***************************************************************************)
(* Proofs about MemorySystem, for every number of SMs, every set of        *)
(* requests and instructions, all configurations and latencies.            *)
(***************************************************************************)
EXTENDS MemorySystem, CommonLemmas

-----------------------------------------------------------------------------
(* The end of the kernel and the writes to DRAM.  As long as the loop runs *)
(* each countdown is what its write still needs, from the cycle it was     *)
(* made in to the cycle it is now: the slice counts down first and adds    *)
(* the write of the cycle afterwards, once in every cycle.  The set of     *)
(* writes only grows, and it stays finite, so that its largest countdown   *)
(* is there when the loop has ended.                                       *)

WritesOK ==
    /\ gpu_sim_cycles \in Nat
    /\ IsFiniteSet(l2_to_dram)
    /\ \A e \in l2_to_dram : /\ e = [mf |-> e.mf, at |-> e.at, left |-> e.left]
                             /\ e.at \in Nat /\ e.left \in Int

CountedRight ==
    turn # <<"end", 0>> =>
        \A e \in l2_to_dram : e.left = e.at + dram_latency - gpu_sim_cycles

DramInv == WritesOK /\ CountedRight /\ DramDone

LEMMA InitDram == Init => DramInv
<1> SUFFICES ASSUME Init PROVE DramInv
  OBVIOUS
<1>1. l2_to_dram = {} /\ gpu_sim_cycles = 0
  BY DEF Init, InitL2
<1>2. IsFiniteSet(l2_to_dram)
  BY <1>1, FS_EmptySet
<1> QED BY <1>1, <1>2 DEF DramInv, WritesOK, CountedRight, DramDone

\* A cycle of the slice counts all writes down and adds at most one.
LEMMA WriteAdded ==
    ASSUME NEW now \in Nat, NEW popped, l2_cache_cycle(now, popped)
    PROVE  \/ l2_to_dram' = CountedDown(l2_to_dram)
           \/ \E mf : l2_to_dram' = CountedDown(l2_to_dram) \cup {DramWrite(now, mf)}
<1>1. CASE NoLookup(now)
  BY <1>1 DEF NoLookup
<1>2. CASE StoreHit(now, popped)
  BY <1>2 DEF StoreHit
<1>3. CASE StoreIdle(now, popped)
  BY <1>3 DEF StoreIdle, Written
<1>4. CASE StoreMiss(now, popped)
  BY <1>4 DEF StoreMiss
<1>5. CASE LoadHit(now, popped)
  BY <1>5 DEF LoadHit
<1>6. CASE LoadMiss(now, popped)
  BY <1>6 DEF LoadMiss
<1>7. CASE LookupFails(now, popped)
  BY <1>7 DEF LookupFails
<1>8. NoLookup(now) \/ Lookup(now, popped)
  BY Zenon DEF l2_cache_cycle
<1> QED BY <1>1, <1>2, <1>3, <1>4, <1>5, <1>6, <1>7, <1>8 DEF Lookup

\* Every element of a counted down set was there with one more to go.
LEMMA CountedIs ==
    ASSUME WritesOK
    PROVE  /\ IsFiniteSet(CountedDown(l2_to_dram))
           /\ \A e \in CountedDown(l2_to_dram) :
                 /\ e = [mf |-> e.mf, at |-> e.at, left |-> e.left]
                 /\ e.at \in Nat /\ e.left \in Int
                 /\ \E d \in l2_to_dram : e.at = d.at /\ e.left = d.left - 1
<1> DEFINE f == [e \in l2_to_dram |-> [e EXCEPT !.left = @ - 1]]
<1>1. f \in Surjection(l2_to_dram, CountedDown(l2_to_dram))
  BY DEF CountedDown, Surjection
<1>2. IsFiniteSet(CountedDown(l2_to_dram))
  <2> HIDE DEF f
  <2> QED BY <1>1, FS_Surjection DEF WritesOK
<1>3. ASSUME NEW e \in CountedDown(l2_to_dram)
      PROVE  /\ e = [mf |-> e.mf, at |-> e.at, left |-> e.left]
             /\ e.at \in Nat /\ e.left \in Int
             /\ \E d \in l2_to_dram : e.at = d.at /\ e.left = d.left - 1
  <2>1. PICK d \in l2_to_dram : e = [d EXCEPT !.left = @ - 1]
    BY <1>3 DEF CountedDown
  <2>2. d = [mf |-> d.mf, at |-> d.at, left |-> d.left] /\ d.at \in Nat /\ d.left \in Int
    BY DEF WritesOK
  <2>3. e = [mf |-> d.mf, at |-> d.at, left |-> d.left - 1]
    BY <2>1, <2>2
  <2>4. e.mf = d.mf /\ e.at = d.at /\ e.left = d.left - 1
    BY <2>3
  <2> QED BY <2>2, <2>3, <2>4
<1> QED BY <1>2, <1>3

\* The cycles added at the end are at least what is left of every write.
LEMMA WritesCovered ==
    ASSUME WritesOK
    PROVE  stg_cycles \in Nat /\ \A e \in l2_to_dram : e.left <= stg_cycles
<1> DEFINE left == {e.left : e \in l2_to_dram}
           all  == {0} \cup left
           f    == [e \in l2_to_dram |-> e.left]
<1>1. IsFiniteSet(left)
  <2>1. f \in Surjection(l2_to_dram, left)
    BY DEF Surjection
  <2> HIDE DEF f, left
  <2> QED BY <2>1, FS_Surjection DEF WritesOK
<1>2. IsFiniteSet(all)
  <2> HIDE DEF left
  <2> QED BY <1>1, FS_AddElement
<1>3. all \subseteq Int /\ 0 \in all /\ \A e \in l2_to_dram : e.left \in all
  BY DEF WritesOK
<1>4. stg_cycles = Max(all)
  BY DEF stg_cycles
<1> HIDE DEF all
<1>5. Max(all) \in all /\ \A v \in all : v <= Max(all)
  BY <1>2, <1>3, MaxGreatest
<1>6. Max(all) \in Int /\ 0 <= Max(all)
  BY <1>3, <1>5
<1>7. Max(all) \in Nat
  BY <1>6
<1>8. \A e \in l2_to_dram : e.left <= Max(all)
  BY <1>3, <1>5
<1> QED BY <1>4, <1>7, <1>8

LEMMA DramStep == DramInv /\ [Next]_vars => DramInv'
<1> SUFFICES ASSUME DramInv, [Next]_vars PROVE DramInv'
  OBVIOUS
<1> USE DEF DramInv
<1>1. ASSUME UNCHANGED <<l2Vars, gpu_sim_cycles>>, turn # <<"end", 0>>, turn' # <<"end", 0>>
      PROVE  DramInv'
  BY <1>1 DEF WritesOK, CountedRight, DramDone, l2Vars
<1>2. CASE SliceCycle
  <2> DEFINE now == gpu_sim_cycles + 1
  <2>1. /\ gpu_sim_cycles' = now /\ now \in Nat /\ gpu_sim_cycles \in Nat
        /\ turn # <<"end", 0>> /\ turn' # <<"end", 0>>
        /\ l2_cache_cycle(now, PoppedBy(Slice))
    BY <1>2 DEF SliceCycle, WritesOK
  <2>2. IsFiniteSet(CountedDown(l2_to_dram))
    BY CountedIs
  <2>3. \A e \in CountedDown(l2_to_dram) :
           /\ e = [mf |-> e.mf, at |-> e.at, left |-> e.left]
           /\ e.at \in Nat /\ e.left \in Int /\ e.left = e.at + dram_latency - now
    <3> TAKE e \in CountedDown(l2_to_dram)
    <3>0. /\ e = [mf |-> e.mf, at |-> e.at, left |-> e.left]
          /\ e.at \in Nat /\ e.left \in Int
      BY CountedIs
    <3>1. PICK d \in l2_to_dram : e.at = d.at /\ e.left = d.left - 1
      BY CountedIs
    <3>2. d.at \in Nat /\ d.left = d.at + dram_latency - gpu_sim_cycles /\ dram_latency \in Nat
      BY <2>1, L2Assumption DEF CountedRight, WritesOK
    <3> QED BY <2>1, <3>0, <3>1, <3>2
  <2> HIDE DEF now
  <2>4. CASE l2_to_dram' = CountedDown(l2_to_dram)
    BY <2>1, <2>2, <2>3, <2>4 DEF WritesOK, CountedRight, DramDone
  <2>5. ASSUME NEW mf, l2_to_dram' = CountedDown(l2_to_dram) \cup {DramWrite(now, mf)}
        PROVE  DramInv'
    <3>1. IsFiniteSet(l2_to_dram')
      BY <2>2, <2>5, FS_AddElement
    <3>2. \A e \in l2_to_dram' :
             /\ e = [mf |-> e.mf, at |-> e.at, left |-> e.left]
             /\ e.at \in Nat /\ e.left \in Int /\ e.left = e.at + dram_latency - now
      <4>1. ASSUME NEW e, e = DramWrite(now, mf)
            PROVE  /\ e = [mf |-> e.mf, at |-> e.at, left |-> e.left]
                   /\ e.at \in Nat /\ e.left \in Int /\ e.left = e.at + dram_latency - now
        BY <2>1, <4>1, L2Assumption DEF DramWrite
      <4> QED BY <2>3, <2>5, <4>1
    <3> QED BY <2>1, <3>1, <3>2 DEF WritesOK, CountedRight, DramDone
  <2> QED BY <2>1, <2>4, <2>5, WriteAdded
<1>3. CASE IcntCycle
  BY <1>1, <1>3 DEF IcntCycle
<1>4. ASSUME NEW s \in Sm, SmPops(s)
      PROVE  DramInv'
  BY <1>1, <1>4 DEF SmPops
<1>5. ASSUME NEW s \in Sm, SmPushes(s)
      PROVE  DramInv'
  BY <1>1, <1>5 DEF SmPushes
<1>6. ASSUME NEW s \in Sm, SmRuns(s)
      PROVE  DramInv'
  BY <1>1, <1>6 DEF SmRuns
<1>7. ASSUME NEW s \in Sm, SmReturns(s)
      PROVE  DramInv'
  BY <1>1, <1>7 DEF SmReturns
<1>8. CASE EndKernel
  <2>1. /\ gpu_sim_cycles' = gpu_sim_cycles + stg_cycles
        /\ l2_to_dram' = l2_to_dram
        /\ turn # <<"end", 0>> /\ turn' = <<"end", 0>>
    BY <1>8 DEF EndKernel, l2Vars
  <2>2. stg_cycles \in Nat /\ gpu_sim_cycles \in Nat /\ dram_latency \in Nat
    BY WritesCovered, L2Assumption DEF WritesOK
  <2>3. ASSUME NEW e \in l2_to_dram PROVE e.at + dram_latency <= gpu_sim_cycles'
    <3>1. e.left = e.at + dram_latency - gpu_sim_cycles /\ e.left <= stg_cycles /\ e.at \in Nat
      BY <2>1, WritesCovered DEF CountedRight, WritesOK
    <3> QED BY <2>1, <2>2, <3>1
  <2>4. gpu_sim_cycles' \in Nat
    BY <2>1, <2>2
  <2> QED BY <2>1, <2>3, <2>4 DEF WritesOK, CountedRight, DramDone
<1>9. CASE UNCHANGED vars
  BY <1>9 DEF vars, l2Vars, WritesOK, CountedRight, DramDone
<1> QED BY <1>2, <1>3, <1>4, <1>5, <1>6, <1>7, <1>8, <1>9 DEF Next

\* The cycles the simulator reports for a kernel last until every write to
\* DRAM has had its latency (the countdown in l2_cache_cycle, cache.cpp, and
\* stg_cycles at the end of gpu_cycle, gpu.cpp).
THEOREM WritesDone == Spec => []DramDone
<1>1. DramInv => DramDone
  BY DEF DramInv
<1> QED BY <1>1, InitDram, DramStep, PTL DEF Spec

-----------------------------------------------------------------------------
(* Where requests are, and the invariant from the miss queues of the SMs   *)
(* to the slice and back.                                                  *)

\* The places that Below counts, in the order a request passes them.
Missed(mf)    == Times(m_miss_queue[m_sm_id[mf]], mf)
Sent(mf)      == Times(Carried(in_buffers[Icnt!REQ_NET][m_sm_id[mf]]), mf)
Arriving(mf)  == Times(Carried(out_buffers[Icnt!REQ_NET][Slice]), mf)
Looking(mf)   == Times(m_l1_to_l2, mf)
Answering(mf) == Cardinality({e \in l2_to_sm : e.mf = mf})
Answered(mf)  == Times(Carried(in_buffers[Icnt!REPLY_NET][Slice]), mf)
Returning(mf) == Times(Carried(out_buffers[Icnt!REPLY_NET][m_sm_id[mf]]), mf)
Popping(mf)   == Cardinality(reply \cap {mf})

\* Above them, in its SM: in its bank, a hit on its way back, in the MSHR
\* entry of its sector.
Hits(q)     == [k \in DOMAIN q |-> q[k].mf]
Entry(mf)   == l1_mshrs[m_sm_id[mf]][m_sector_address(mf)]
Banked(mf)  == Times(m_queue_sm_to_l1[m_sm_id[mf]][m_sector_mask[mf]], mf)
Hitting(mf) == Times(Hits(l1_to_sm[m_sm_id[mf]]), mf)
Merged(mf)  == Times(Entry(mf), mf)

\* How often the instruction of mf is to be told that it is back.
Out(mf) == Banked(mf) + Hitting(mf) + (IF is_write[mf] THEN Below(mf) ELSE Merged(mf))

HitSet == [mf : MemFetch, m_l1_ready_time : Nat]
UnitSet == [inst : Inst \cup {None}, mem_fetch_point : Nat \ {0}, unit_latency : Nat]

Typed ==
    /\ cycles \in [Sm -> Nat]
    /\ l1_mshrs \in [Sm -> [SectorAddr -> Seq(MemFetch)]]
    /\ m_queue_sm_to_l1 \in [Sm -> [Sector -> Seq(MemFetch)]]
    /\ m_miss_queue \in [Sm -> Seq(MemFetch)]
    /\ l1_to_sm \in [Sm -> Seq(HitSet)]
    /\ reply \in SUBSET MemFetch
    /\ unit \in [Sm -> [Unit -> UnitSet]]
    /\ pending_request \in [Inst -> Nat]
    /\ completed \in [Inst -> BOOLEAN]
    /\ unissued \in SUBSET Inst
    /\ Icnt!IcntTypeOK
    /\ m_l1_to_l2 \in Seq(MemFetch)
    /\ l2_mshrs \in [SectorAddr -> Seq(MemFetch)]
    /\ m_status \in [MemFetch -> {INIT, L2_HIT, L2_MISS}]
    /\ gpu_sim_cycles \in Nat

\* What is kept for an SM, a bank or a sector is of that SM, bank or sector.
HomedSm ==
    \A s \in Sm :
        /\ \A mf \in Within(m_miss_queue[s]) : m_sm_id[mf] = s
        /\ \A h \in Within(l1_to_sm[s]) : m_sm_id[h.mf] = s
        /\ \A b \in Sector : \A mf \in Within(m_queue_sm_to_l1[s][b]) :
              m_sm_id[mf] = s /\ m_sector_mask[mf] = b
        /\ \A x \in SectorAddr : \A mf \in Within(l1_mshrs[s][x]) :
              m_sm_id[mf] = s /\ m_sector_address(mf) = x /\ ~is_write[mf]

HomedIcnt ==
    /\ \A s \in Sm :
        /\ \A p \in Within(in_buffers[Icnt!REQ_NET][s]) :
              m_sm_id[p.data] = s /\ p.output_deviceID = Slice
        /\ in_buffers[Icnt!REPLY_NET][s] = <<>>
        /\ \A p \in Within(out_buffers[Icnt!REPLY_NET][s]) : m_sm_id[p.data] = s
    /\ in_buffers[Icnt!REQ_NET][Slice] = <<>>
    /\ \A p \in Within(in_buffers[Icnt!REPLY_NET][Slice]) : p.output_deviceID = m_sm_id[p.data]

\* The reply that was popped, while its SM has it.
ReplyHere ==
    reply # {} =>
        /\ step \in {<<"write_back", 0>>, <<"write_back_request_l2", 0>>}
        /\ \E mf \in reply : reply = {mf} /\ turn = <<"sm", m_sm_id[mf]>>

\* Answers on the way: at most one lookup per cycle.
Flying ==
    /\ IsFiniteSet(l2_to_sm)
    /\ \A e \in l2_to_sm : e.mf \in MemFetch /\ e.at \in Nat /\ e.at <= gpu_sim_cycles
    /\ \A e, f \in l2_to_sm : e.at = f.at => e = f

\* The load that opened the entry of its sector is below, no other.
LoadsBelow ==
    \A mf \in MemFetch : ~is_write[mf] =>
        Below(mf) = IF Entry(mf) # <<>> /\ Head(Entry(mf)) = mf THEN 1 ELSE 0

\* Not yet made by unit_cycle.
Unmade(mf) ==
    \/ \E i \in unissued : mf \in RequestsOf(i)
    \/ \E s \in Sm : \E u \in Unit : unit[s][u].inst # None /\
          \E k \in DOMAIN m_coalesced_address[unit[s][u].inst] :
              k >= unit[s][u].mem_fetch_point /\ m_coalesced_address[unit[s][u].inst][k] = mf

OutOnce == \A mf \in MemFetch : Out(mf) <= 1 /\ (Unmade(mf) => Out(mf) = 0)

OutOf(i) == {mf \in RequestsOf(i) : Out(mf) = 1}
Counted == \A i \in Inst : pending_request[i] = Cardinality(OutOf(i))

\* An instruction is in one unit, of its SM, once issued.
InUnits ==
    \A s \in Sm : \A u \in Unit : unit[s][u].inst # None =>
        /\ unit[s][u].inst \notin unissued /\ SmOfInst(unit[s][u].inst) = s
        /\ unit[s][u].mem_fetch_point <= Len(m_coalesced_address[unit[s][u].inst])
        /\ \A v \in Unit : unit[s][v].inst = unit[s][u].inst => v = u

\* Issued, some request made, none under way: completed.
Fresh(i) == \E s \in Sm : \E u \in Unit : unit[s][u].inst = i /\ unit[s][u].mem_fetch_point = 1
Completes ==
    \A i \in Inst : i \notin unissued /\ ~Fresh(i) /\ pending_request[i] = 0 => completed[i]

\* An MSHR entry of the slice has an answer on the way that will release it.
EntryAnswered ==
    \A x \in SectorAddr : l2_mshrs[x] # <<>> =>
        \E e \in l2_to_sm : m_sector_address(e.mf) = x /\ m_status[e.mf] # L2_HIT

EndsIdle == turn = <<"end", 0>> => ~Running

MInv ==
    /\ Typed /\ HomedSm /\ HomedIcnt /\ ReplyHere /\ Flying
    /\ LoadsBelow /\ OutOnce /\ Counted /\ InUnits /\ Completes
    /\ EntryAnswered /\ EndsIdle

-----------------------------------------------------------------------------
(* Counting in sequences.                                                  *)

LEMMA TimesFacts ==
    ASSUME NEW S, NEW q \in Seq(S), NEW x
    PROVE  /\ Times(q, x) \in Nat
           /\ IsFiniteSet({k \in DOMAIN q : q[k] = x})
           /\ Times(q, x) = 0 <=> x \notin Within(q)
<1> DEFINE P == {k \in DOMAIN q : q[k] = x}
<1>1. IsFiniteSet(P)
  <2>1. P \subseteq 1 .. Len(q) /\ Len(q) \in Nat
    OBVIOUS
  <2>2. IsFiniteSet(1 .. Len(q))
    BY <2>1, FS_Interval
  <2> HIDE DEF P
  <2> QED BY <2>1, <2>2, FS_Subset
<1>2. P = {} <=> x \notin Within(q)
  BY DEF Within
<1>3. Times(q, x) = Cardinality(P)
  BY DEF Times
<1> HIDE DEF P
<1>4. Cardinality(P) \in Nat /\ (Cardinality(P) = 0 <=> P = {})
  BY <1>1, FS_CardinalityType, FS_EmptySet
<1> QED BY <1>1, <1>2, <1>3, <1>4 DEF P

LEMMA TimesEmpty == ASSUME NEW x PROVE Times(<<>>, x) = 0
<1>1. {k \in DOMAIN <<>> : <<>>[k] = x} = {}
  OBVIOUS
<1> QED BY <1>1, FS_EmptySet DEF Times

\* One after the other, both are counted.
LEMMA TimesConcat ==
    ASSUME NEW S, NEW p \in Seq(S), NEW q \in Seq(S), NEW x
    PROVE  Times(p \o q, x) = Times(p, x) + Times(q, x)
<1> DEFINE P == {k \in DOMAIN p : p[k] = x}
           Q == {k \in DOMAIN q : q[k] = x}
           M == {k \in Nat : k - Len(p) \in Q}
           R == {k \in DOMAIN (p \o q) : (p \o q)[k] = x}
           f == [k \in Q |-> k + Len(p)]
<1>1. /\ IsFiniteSet(P) /\ IsFiniteSet(Q)
      /\ Cardinality(P) \in Nat /\ Cardinality(Q) \in Nat
      /\ Times(p, x) = Cardinality(P) /\ Times(q, x) = Cardinality(Q)
      /\ Times(p \o q, x) = Cardinality(R)
  BY TimesFacts DEF Times
<1>2. /\ DOMAIN p = 1 .. Len(p) /\ DOMAIN q = 1 .. Len(q) /\ Len(p) \in Nat /\ Len(q) \in Nat
      /\ DOMAIN (p \o q) = 1 .. Len(p) + Len(q)
      /\ \A k \in 1 .. Len(p) : (p \o q)[k] = p[k]
      /\ \A k \in 1 .. Len(q) : (p \o q)[k + Len(p)] = q[k]
  OBVIOUS
<1>3. \A k \in 1 .. Len(p) + Len(q) : k \in 1 .. Len(p) \/ k - Len(p) \in 1 .. Len(q)
  BY <1>2
<1>4. Q \subseteq 1 .. Len(q) /\ P \subseteq 1 .. Len(p)
  BY <1>2
<1>5. R = P \cup M /\ P \cap M = {}
  <2>1. ASSUME NEW k \in R PROVE k \in P \cup M
    <3>1. CASE k \in 1 .. Len(p)
      BY <1>2, <3>1
    <3>2. CASE k - Len(p) \in 1 .. Len(q)
      <4>1. (k - Len(p)) + Len(p) = k /\ k \in Nat
        BY <1>2
      <4> QED BY <1>2, <3>2, <4>1
    <3> QED BY <1>2, <1>3, <3>1, <3>2
  <2>2. ASSUME NEW k \in P PROVE k \in R
    BY <1>2
  <2>3. ASSUME NEW k \in M PROVE k \in R
    <3>1. k - Len(p) \in 1 .. Len(q) /\ (k - Len(p)) + Len(p) = k /\ q[k - Len(p)] = x
      BY <1>2
    <3>2. k \in 1 .. Len(p) + Len(q)
      BY <1>2, <3>1
    <3> QED BY <1>2, <3>1, <3>2
  <2>4. P \cap M = {}
    BY <1>2
  <2> QED BY <2>1, <2>2, <2>3, <2>4
<1>6. f \in [Q -> M] /\ \A a, b \in Q : f[a] = f[b] => a = b
  BY <1>2, <1>4
<1>7. \A b \in M : b - Len(p) \in Q /\ f[b - Len(p)] = b
  BY <1>2
<1> HIDE DEF P, Q, M, R, f
<1>8. f \in Injection(Q, M) /\ f \in Surjection(Q, M)
  BY <1>6, <1>7 DEF Injection, IsInjective, Surjection
<1>9. IsFiniteSet(M) /\ Cardinality(M) = Cardinality(Q)
  BY <1>1, <1>8, FS_Surjection
<1>10. Cardinality(P \cup M) = Cardinality(P) + Cardinality(M)
  <2>1. Cardinality(P \cup M) = Cardinality(P) + Cardinality(M) - Cardinality(P \cap M)
    BY <1>1, <1>9, FS_Union
  <2>2. Cardinality(P \cap M) = 0
    BY <1>5, FS_EmptySet
  <2> QED BY <1>1, <1>9, <2>1, <2>2
<1> QED BY <1>1, <1>5, <1>9, <1>10

LEMMA TimesAppend ==
    ASSUME NEW S, NEW q \in Seq(S), NEW e \in S, NEW x
    PROVE  Times(Append(q, e), x) = Times(q, x) + (IF e = x THEN 1 ELSE 0)
<1>1. Append(q, e) = q \o <<e>> /\ <<e>> \in Seq(S)
  OBVIOUS
<1>2. Times(q \o <<e>>, x) = Times(q, x) + Times(<<e>>, x)
  BY <1>1, TimesConcat
<1>3. Times(<<e>>, x) = IF e = x THEN 1 ELSE 0
  <2>1. CASE e = x
    <3>1. {k \in DOMAIN <<e>> : <<e>>[k] = x} = {1}
      BY <2>1
    <3>2. Cardinality({1}) = 1
      BY FS_Singleton
    <3> QED BY <2>1, <3>1, <3>2 DEF Times
  <2>2. CASE e # x
    <3>1. {k \in DOMAIN <<e>> : <<e>>[k] = x} = {}
      BY <2>2
    <3> QED BY <2>2, <3>1, FS_EmptySet DEF Times
  <2> QED BY <2>1, <2>2
<1> QED BY <1>1, <1>2, <1>3

LEMMA TimesTail ==
    ASSUME NEW S, NEW q \in Seq(S), q # <<>>, NEW x
    PROVE  /\ Tail(q) \in Seq(S) /\ Head(q) \in S
           /\ Times(q, x) = Times(Tail(q), x) + (IF Head(q) = x THEN 1 ELSE 0)
<1>1. q = <<Head(q)>> \o Tail(q) /\ Tail(q) \in Seq(S) /\ Head(q) \in S
      /\ <<Head(q)>> \in Seq(S) /\ <<Head(q)>> = Append(<<>>, Head(q)) /\ <<>> \in Seq(S)
  OBVIOUS
<1>2. Times(q, x) = Times(<<Head(q)>>, x) + Times(Tail(q), x)
  <2> DEFINE h == <<Head(q)>>
             t == Tail(q)
  <2>1. q = h \o t /\ h \in Seq(S) /\ t \in Seq(S)
    BY <1>1
  <2> HIDE DEF h, t
  <2>2. Times(h \o t, x) = Times(h, x) + Times(t, x)
    BY <2>1, TimesConcat
  <2>3. Times(q, x) = Times(h, x) + Times(t, x)
    BY <2>1, <2>2
  <2> QED BY <2>3 DEF h, t
<1>3. Times(<<Head(q)>>, x) = Times(<<>>, x) + (IF Head(q) = x THEN 1 ELSE 0)
  <2> DEFINE n == <<>>
             h == Head(q)
             a == Append(n, h)
  <2>1. n \in Seq(S) /\ h \in S /\ <<h>> = a
    BY <1>1
  <2> HIDE DEF n, h
  <2>2. Times(a, x) = Times(n, x) + (IF h = x THEN 1 ELSE 0)
    BY <2>1, TimesAppend
  <2> HIDE DEF a
  <2>3. Times(<<h>>, x) = Times(n, x) + (IF h = x THEN 1 ELSE 0)
    BY <2>1, <2>2
  <2> QED BY <2>3 DEF n, h
<1>4. Times(Tail(q), x) \in Nat
  BY <1>1, TimesFacts
<1> QED BY <1>1, <1>2, <1>3, <1>4, TimesEmpty

\* What the packets of a buffer carry.
LEMMA CarriedFacts ==
    ASSUME NEW q \in Seq(Icnt!PacketSet)
    PROVE  /\ Carried(q) \in Seq(MemFetch)
           /\ Carried(q) = <<>> <=> q = <<>>
           /\ \A mf : mf \in Within(Carried(q)) <=> \E p \in Within(q) : p.data = mf
<1>1. /\ DOMAIN q = 1 .. Len(q) /\ Len(q) \in Nat
      /\ \A k \in 1 .. Len(q) : q[k] \in Icnt!PacketSet
  OBVIOUS
<1>2. \A k \in 1 .. Len(q) : q[k].data \in MemFetch
  BY <1>1 DEF Icnt!PacketSet
<1>3. Carried(q) \in Seq(MemFetch) /\ DOMAIN Carried(q) = 1 .. Len(q)
  BY <1>1, <1>2 DEF Carried
<1>4. Carried(q) = <<>> <=> q = <<>>
  BY <1>1, <1>3
<1>5. \A mf : mf \in Within(Carried(q)) <=> \E p \in Within(q) : p.data = mf
  BY <1>1 DEF Within, Carried
<1> QED BY <1>3, <1>4, <1>5

LEMMA CarriedNat ==
    ASSUME NEW q \in Seq(Icnt!PacketSet), NEW mf
    PROVE  Times(Carried(q), mf) \in Nat
<1>1. Carried(q) \in Seq(MemFetch)
  BY CarriedFacts
<1> QED BY <1>1, TimesFacts

LEMMA CarriedConcat ==
    ASSUME NEW p \in Seq(Icnt!PacketSet), NEW q \in Seq(Icnt!PacketSet)
    PROVE  Carried(p \o q) = Carried(p) \o Carried(q)
<1> DEFINE w == p \o q
           c == Carried(p)
           d == Carried(q)
           a == Carried(w)
           b == c \o d
           n == Len(p) + Len(q)
<1>1. /\ DOMAIN p = 1 .. Len(p) /\ DOMAIN q = 1 .. Len(q) /\ Len(p) \in Nat /\ Len(q) \in Nat
      /\ DOMAIN w = 1 .. n
      /\ \A k \in 1 .. Len(p) : w[k] = p[k]
      /\ \A k \in 1 .. n : k > Len(p) => w[k] = q[k - Len(p)]
  OBVIOUS
<1>2. /\ c \in Seq(MemFetch) /\ d \in Seq(MemFetch)
      /\ Len(c) = Len(p) /\ Len(d) = Len(q)
  <2>1. c \in Seq(MemFetch) /\ d \in Seq(MemFetch)
    BY CarriedFacts
  <2>2. DOMAIN c = 1 .. Len(p) /\ DOMAIN d = 1 .. Len(q)
    BY <1>1 DEF Carried
  <2> HIDE DEF c, d
  <2> QED BY <1>1, <2>1, <2>2
<1> HIDE DEF w
<1>3. /\ \A k \in 1 .. Len(p) : c[k] = p[k].data
      /\ \A k \in 1 .. Len(q) : d[k] = q[k].data
      /\ \A k \in 1 .. n : a[k] = w[k].data
      /\ a = [k \in 1 .. n |-> a[k]]
  BY <1>1 DEF Carried
<1> HIDE DEF c, d, a
<1>4. /\ DOMAIN b = 1 .. n
      /\ \A k \in 1 .. Len(p) : b[k] = c[k]
      /\ \A k \in 1 .. n : k > Len(p) => b[k] = d[k - Len(p)]
  <2>1. /\ DOMAIN b = 1 .. Len(c) + Len(d)
        /\ \A k \in 1 .. Len(c) : b[k] = c[k]
        /\ \A k \in 1 .. Len(c) + Len(d) : k > Len(c) => b[k] = d[k - Len(c)]
    BY <1>2
  <2> HIDE DEF b
  <2> QED BY <1>2, <2>1
<1>5. b = [k \in 1 .. n |-> b[k]]
  <2>1. b \in Seq(MemFetch)
    BY <1>2
  <2> HIDE DEF b
  <2> QED BY <1>4, <2>1
<1> HIDE DEF b
<1>6. \A k \in 1 .. n : a[k] = b[k]
  <2> SUFFICES ASSUME NEW k \in 1 .. n PROVE a[k] = b[k]
    OBVIOUS
  <2>1. CASE k > Len(p)
    <3>1. k - Len(p) \in 1 .. Len(q)
      BY <1>1, <2>1
    <3> QED BY <1>1, <1>3, <1>4, <2>1, <3>1
  <2>2. CASE ~(k > Len(p))
    <3>1. k \in 1 .. Len(p)
      BY <1>1, <2>2
    <3> QED BY <1>1, <1>3, <1>4, <3>1
  <2> QED BY <2>1, <2>2
<1>7. a = b
  BY <1>3, <1>5, <1>6
<1> QED BY <1>7 DEF a, b, c, d, w

LEMMA CarriedAppend ==
    ASSUME NEW q \in Seq(Icnt!PacketSet), NEW p \in Icnt!PacketSet, NEW mf
    PROVE  Times(Carried(Append(q, p)), mf) = Times(Carried(q), mf) + (IF p.data = mf THEN 1 ELSE 0)
<1>1. Carried(Append(q, p)) = Append(Carried(q), p.data)
  <2> DEFINE w == Append(q, p)
             c == Carried(q)
             v == p.data
             a == Carried(w)
             b == Append(c, v)
             n == Len(q) + 1
  <2>1. /\ DOMAIN q = 1 .. Len(q) /\ Len(q) \in Nat
        /\ DOMAIN w = 1 .. n /\ w[n] = p
        /\ \A k \in 1 .. Len(q) : w[k] = q[k]
    OBVIOUS
  <2>2. c \in Seq(MemFetch) /\ DOMAIN c = 1 .. Len(q)
    BY <2>1, CarriedFacts DEF Carried
  <2> HIDE DEF w
  <2>3. /\ \A k \in 1 .. Len(q) : c[k] = q[k].data
        /\ \A k \in 1 .. n : a[k] = w[k].data
        /\ a = [k \in 1 .. n |-> a[k]]
    BY <2>1 DEF Carried
  <2> HIDE DEF c, a
  <2>4. v \in MemFetch
    BY DEF Icnt!PacketSet
  <2>5. v = p.data
    OBVIOUS
  <2> HIDE DEF v
  <2>6. DOMAIN b = 1 .. n /\ b[n] = v /\ \A k \in 1 .. Len(q) : b[k] = c[k]
    BY <2>1, <2>2, <2>4
  <2>7. b = [k \in 1 .. n |-> b[k]]
    <3>1. b \in Seq(MemFetch)
      BY <2>2, <2>4
    <3> HIDE DEF b
    <3> QED BY <2>6, <3>1
  <2>8. \A k \in 1 .. n : k \in 1 .. Len(q) \/ k = n
    BY <2>1
  <2>9. n \in 1 .. n
    BY <2>1
  <2> HIDE DEF b
  <2>10. \A k \in 1 .. Len(q) : k \in 1 .. n
    BY <2>1
  <2> HIDE DEF n
  <2>11. \A k \in 1 .. n : a[k] = b[k]
    BY <2>1, <2>3, <2>5, <2>6, <2>8, <2>9, <2>10
  <2>12. a = b
    BY <2>3, <2>7, <2>11
  <2> QED BY <2>12 DEF a, b, c, w, v
<1>2. Carried(q) \in Seq(MemFetch) /\ p.data \in MemFetch
  BY CarriedFacts DEF Icnt!PacketSet
<1>3. Times(Append(Carried(q), p.data), mf) = Times(Carried(q), mf) + (IF p.data = mf THEN 1 ELSE 0)
  BY <1>2, TimesAppend
<1> QED BY <1>1, <1>3

LEMMA CarriedTail ==
    ASSUME NEW q \in Seq(Icnt!PacketSet), q # <<>>, NEW mf
    PROVE  /\ Tail(q) \in Seq(Icnt!PacketSet) /\ Head(q) \in Icnt!PacketSet
           /\ Times(Carried(q), mf) = Times(Carried(Tail(q)), mf) + (IF Head(q).data = mf THEN 1 ELSE 0)
<1>1. /\ DOMAIN q = 1 .. Len(q) /\ Len(q) \in Nat /\ Len(q) > 0
      /\ Tail(q) \in Seq(Icnt!PacketSet) /\ Head(q) \in Icnt!PacketSet /\ Head(q) = q[1]
      /\ DOMAIN Tail(q) = 1 .. Len(q) - 1 /\ \A k \in 1 .. Len(q) - 1 : Tail(q)[k] = q[k + 1]
  OBVIOUS
<1> DEFINE c == Carried(q)
           a == Carried(Tail(q))
           b == Tail(c)
<1>2. c \in Seq(MemFetch) /\ DOMAIN c = 1 .. Len(q) /\ c # <<>> /\ Head(c) = Head(q).data
  <2>1. c \in Seq(MemFetch) /\ c # <<>>
    BY CarriedFacts
  <2>2. DOMAIN c = 1 .. Len(q) /\ c[1] = q[1].data
    BY <1>1 DEF Carried
  <2> HIDE DEF c
  <2>3. Head(c) = c[1]
    BY <2>1
  <2> QED BY <1>1, <2>1, <2>2, <2>3
<1>3. /\ \A k \in 1 .. Len(q) : c[k] = q[k].data
      /\ \A k \in 1 .. Len(q) - 1 : a[k] = Tail(q)[k].data
      /\ a = [k \in 1 .. Len(q) - 1 |-> a[k]]
  BY <1>1 DEF Carried
<1> HIDE DEF c, a
<1>4. /\ DOMAIN b = 1 .. Len(q) - 1 /\ \A k \in 1 .. Len(q) - 1 : b[k] = c[k + 1]
      /\ b = [k \in 1 .. Len(q) - 1 |-> b[k]]
  <2>1. Len(c) = Len(q)
    BY <1>1, <1>2
  <2>2. DOMAIN b = 1 .. Len(c) - 1 /\ \A k \in 1 .. Len(c) - 1 : b[k] = c[k + 1]
    BY <1>2
  <2>3. b = [k \in 1 .. Len(c) - 1 |-> b[k]]
    <3>1. b \in Seq(MemFetch) /\ Len(b) = Len(c) - 1
      BY <1>2
    <3> HIDE DEF b
    <3> QED BY <3>1
  <2> HIDE DEF b
  <2> QED BY <2>1, <2>2, <2>3
<1>5. \A k \in 1 .. Len(q) - 1 : k + 1 \in 1 .. Len(q)
  BY <1>1
<1> HIDE DEF b
<1>6. \A k \in 1 .. Len(q) - 1 : a[k] = b[k]
  BY <1>1, <1>3, <1>4, <1>5
<1>7. a = b
  BY <1>3, <1>4, <1>6
<1>8. Times(c, mf) = Times(Tail(c), mf) + (IF Head(c) = mf THEN 1 ELSE 0)
  BY <1>2, TimesTail
<1> QED BY <1>1, <1>2, <1>7, <1>8 DEF a, b, c

-----------------------------------------------------------------------------
(* Devices, and the places of a request.                                   *)

LEMMA Devices ==
    /\ n_shader \in Nat /\ Sm = 0 .. n_shader - 1
    /\ Slice \notin Sm /\ Icnt!Nodes = Sm \cup {Slice}
    /\ Icnt!Nets = {Icnt!REQ_NET, Icnt!REPLY_NET} /\ Icnt!REQ_NET # Icnt!REPLY_NET
    /\ \A s \in Sm : /\ Icnt!PushNet(s) = Icnt!REQ_NET
                     /\ Icnt!PopNet(s) = Icnt!REPLY_NET
    /\ Icnt!PushNet(Slice) = Icnt!REPLY_NET
    /\ Icnt!PopNet(Slice) = Icnt!REQ_NET
<1>1. n_shader \in Nat /\ Sm = 0 .. n_shader - 1
  BY MemorySystemAssumption, FS_CardinalityType DEF n_shader
<1>2. Icnt!Nodes = 0 .. (n_shader + 1) - 1
  BY DEF Icnt!Nodes, Icnt!total_nodes
<1> QED BY <1>1, <1>2 DEF Slice, Icnt!Nets, Icnt!REQ_NET, Icnt!REPLY_NET, Icnt!PushNet, Icnt!PopNet

LEMMA RequestHome ==
    ASSUME NEW mf \in MemFetch
    PROVE  /\ m_sm_id[mf] \in Sm /\ m_sector_mask[mf] \in Sector
           /\ m_sector_address(mf) \in SectorAddr /\ is_write[mf] \in BOOLEAN
BY RequestsAssumption, L1Assumption DEF SectorAddr, m_sector_address

\* Each place is counted by a number, and Below is their sum.
CountsNat ==
    \A mf \in MemFetch :
        /\ Missed(mf) \in Nat /\ Sent(mf) \in Nat /\ Arriving(mf) \in Nat /\ Looking(mf) \in Nat
        /\ Answering(mf) \in Nat /\ Answered(mf) \in Nat /\ Returning(mf) \in Nat
        /\ Popping(mf) \in Nat /\ Banked(mf) \in Nat /\ Hitting(mf) \in Nat /\ Merged(mf) \in Nat
        /\ Below(mf) = Missed(mf) + Sent(mf) + Arriving(mf) + Looking(mf)
                        + Answering(mf) + Answered(mf) + Returning(mf) + Popping(mf)

LEMMA HitsTyped ==
    ASSUME NEW q \in Seq(HitSet)
    PROVE  /\ Hits(q) \in Seq(MemFetch) /\ DOMAIN Hits(q) = DOMAIN q
           /\ \A mf : mf \in Within(Hits(q)) <=> \E h \in Within(q) : h.mf = mf
<1>1. /\ DOMAIN q = 1 .. Len(q) /\ Len(q) \in Nat
      /\ \A k \in 1 .. Len(q) : q[k] \in HitSet
  OBVIOUS
<1>2. \A k \in 1 .. Len(q) : q[k].mf \in MemFetch
  BY <1>1 DEF HitSet
<1> QED BY <1>1, <1>2 DEF Hits, Within

\* A table with one entry replaced.
PutAt(f, s, u, w) == [f EXCEPT ![s][u] = w]

LEMMA CountsNow == Typed /\ Flying => CountsNat
<1> SUFFICES ASSUME Typed, Flying, NEW mf \in MemFetch
             PROVE  /\ Missed(mf) \in Nat /\ Sent(mf) \in Nat /\ Arriving(mf) \in Nat /\ Looking(mf) \in Nat
                    /\ Answering(mf) \in Nat /\ Answered(mf) \in Nat /\ Returning(mf) \in Nat
                    /\ Popping(mf) \in Nat /\ Banked(mf) \in Nat /\ Hitting(mf) \in Nat /\ Merged(mf) \in Nat
                    /\ Below(mf) = Missed(mf) + Sent(mf) + Arriving(mf) + Looking(mf)
                                    + Answering(mf) + Answered(mf) + Returning(mf) + Popping(mf)
  BY DEF CountsNat
<1> DEFINE s == m_sm_id[mf]
           x == m_sector_address(mf)
           b == m_sector_mask[mf]
<1>1. s \in Sm /\ b \in Sector /\ x \in SectorAddr
  BY RequestHome
<1>2. Missed(mf) \in Nat /\ Looking(mf) \in Nat /\ Banked(mf) \in Nat /\ Merged(mf) \in Nat
  <2>1. /\ m_miss_queue[s] \in Seq(MemFetch) /\ m_l1_to_l2 \in Seq(MemFetch)
        /\ m_queue_sm_to_l1[s][b] \in Seq(MemFetch) /\ l1_mshrs[s][x] \in Seq(MemFetch)
    BY <1>1 DEF Typed
  <2> QED BY <2>1, TimesFacts DEF Missed, Looking, Banked, Merged, Entry
<1>3. Sent(mf) \in Nat /\ Arriving(mf) \in Nat /\ Answered(mf) \in Nat /\ Returning(mf) \in Nat
  <2>1. /\ in_buffers[Icnt!REQ_NET][s] \in Seq(Icnt!PacketSet)
        /\ out_buffers[Icnt!REQ_NET][Slice] \in Seq(Icnt!PacketSet)
        /\ in_buffers[Icnt!REPLY_NET][Slice] \in Seq(Icnt!PacketSet)
        /\ out_buffers[Icnt!REPLY_NET][s] \in Seq(Icnt!PacketSet)
    <3> HIDE DEF s, x, b
    <3>1. Icnt!IcntTypeOK
      BY DEF Typed
    <3>2. /\ in_buffers \in [Icnt!Nets -> [Icnt!Nodes -> Seq(Icnt!PacketSet)]]
          /\ out_buffers \in [Icnt!Nets -> [Icnt!Nodes -> Seq(Icnt!PacketSet)]]
      BY <3>1 DEF Icnt!IcntTypeOK
    <3>3. s \in Icnt!Nodes /\ Slice \in Icnt!Nodes /\ Icnt!REQ_NET \in Icnt!Nets /\ Icnt!REPLY_NET \in Icnt!Nets
      BY <1>1, Devices
    <3> QED BY <3>2, <3>3
  <2>2. /\ Carried(in_buffers[Icnt!REQ_NET][s]) \in Seq(MemFetch)
        /\ Carried(out_buffers[Icnt!REQ_NET][Slice]) \in Seq(MemFetch)
        /\ Carried(in_buffers[Icnt!REPLY_NET][Slice]) \in Seq(MemFetch)
        /\ Carried(out_buffers[Icnt!REPLY_NET][s]) \in Seq(MemFetch)
    BY <2>1, CarriedFacts
  <2> QED BY <2>2, TimesFacts DEF Sent, Arriving, Answered, Returning
<1>4. Hitting(mf) \in Nat
  <2>1. l1_to_sm[s] \in Seq(HitSet)
    BY <1>1 DEF Typed
  <2>2. Hits(l1_to_sm[s]) \in Seq(MemFetch)
    BY <2>1, HitsTyped
  <2> QED BY <2>2, TimesFacts DEF Hitting
<1>5. Answering(mf) \in Nat
  <2> DEFINE A == {e \in l2_to_sm : e.mf = mf}
  <2>1. IsFiniteSet(A)
    <3>1. A \subseteq l2_to_sm /\ IsFiniteSet(l2_to_sm)
      BY DEF Flying
    <3> HIDE DEF A
    <3> QED BY <3>1, FS_Subset
  <2> QED BY <2>1, FS_CardinalityType DEF Answering
<1>6. Popping(mf) \in Nat
  <2> DEFINE A == reply \cap {mf}
  <2>1. IsFiniteSet(A)
    <3>1. A \subseteq {mf} /\ IsFiniteSet({mf})
      BY FS_Singleton
    <3> HIDE DEF A
    <3> QED BY <3>1, FS_Subset
  <2> QED BY <2>1, FS_CardinalityType DEF Popping
<1>7. Below(mf) = Missed(mf) + Sent(mf) + Arriving(mf) + Looking(mf)
                   + Answering(mf) + Answered(mf) + Returning(mf) + Popping(mf)
  BY Zenon DEF Below, Missed, Sent, Arriving, Looking, Answering, Answered, Returning, Popping
<1> QED BY <1>2, <1>3, <1>4, <1>5, <1>6, <1>7

LEMMA CountsNext == Typed' /\ Flying' => CountsNat'
BY CountsNow, PTL

-----------------------------------------------------------------------------
(* The crossbar.                                                           *)

LEMMA ModSmall ==
    ASSUME NEW N \in Nat \ {0}, NEW x \in 0 .. 2 * N - 1
    PROVE  x % N = IF x < N THEN x ELSE x - N
<1>1. CASE x < N
  <2>1. x \in 0 .. N - 1 BY <1>1
  <2> QED BY <1>1, <2>1
<1>2. CASE ~(x < N)
  <2>1. x \in N .. 2 * N - 1 BY <1>2
  <2> QED BY <1>2, <2>1
<1> QED BY <1>1, <1>2

\* No two nodes have the same position in a scan.
LEMMA ScanApart ==
    ASSUME NEW r, NEW n \in Icnt!Nodes, NEW k \in Icnt!Nodes, next_node_id[r] \in Icnt!Nodes,
           Icnt!ScanPos(r, n) <= Icnt!ScanPos(r, k), Icnt!ScanPos(r, k) <= Icnt!ScanPos(r, n)
    PROVE  n = k
<1> DEFINE N == Icnt!total_nodes
           a == next_node_id[r]
           x == n + N - a
           y == k + N - a
<1>1. N \in Nat \ {0} /\ n \in 0 .. N - 1 /\ k \in 0 .. N - 1 /\ a \in 0 .. N - 1
  BY Devices DEF Icnt!Nodes, Icnt!total_nodes
<1>2. x \in 0 .. 2 * N - 1 /\ y \in 0 .. 2 * N - 1
  BY <1>1
<1>3. Icnt!ScanPos(r, n) = x % N /\ Icnt!ScanPos(r, k) = y % N
  BY DEF Icnt!ScanPos
<1>4. x = n + N - a /\ y = k + N - a
  OBVIOUS
<1> HIDE DEF N, a, x, y
<1>5. (x % N = IF x < N THEN x ELSE x - N) /\ (y % N = IF y < N THEN y ELSE y - N)
  BY <1>1, <1>2, ModSmall
<1> QED BY <1>1, <1>2, <1>3, <1>4, <1>5

LEMMA IssueFacts ==
    ASSUME Icnt!IcntTypeOK, NEW r \in Icnt!Nets, NEW n \in Icnt!Nodes, NEW o \in Icnt!Nodes,
           Icnt!Issues(r, n, o)
    PROVE  /\ in_buffers[r][n] \in Seq(Icnt!PacketSet) /\ in_buffers[r][n] # <<>>
           /\ Head(in_buffers[r][n]) \in Within(in_buffers[r][n])
           /\ Head(in_buffers[r][n]) \in Icnt!PacketSet
           /\ Tail(in_buffers[r][n]) \in Seq(Icnt!PacketSet)
           /\ Head(in_buffers[r][n]).output_deviceID = o
           /\ \A k \in Icnt!Nodes : Icnt!Issues(r, k, o) => k = n
<1>1. /\ in_buffers[r][n] \in Seq(Icnt!PacketSet) /\ in_buffers[r][n] # <<>>
      /\ Head(in_buffers[r][n]).output_deviceID = o
  BY DEF Icnt!IcntTypeOK, Icnt!Issues, Icnt!Wants
<1>2. ASSUME NEW k \in Icnt!Nodes, Icnt!Issues(r, k, o) PROVE k = n
  <2>1. Icnt!ScanPos(r, n) <= Icnt!ScanPos(r, k) /\ Icnt!ScanPos(r, k) <= Icnt!ScanPos(r, n)
    BY <1>2 DEF Icnt!Issues
  <2>2. next_node_id[r] \in Icnt!Nodes
    BY DEF Icnt!IcntTypeOK
  <2> QED BY <2>1, <2>2, ScanApart
<1> DEFINE q == in_buffers[r][n]
<1>3. Head(q) \in Within(q) /\ Head(q) \in Icnt!PacketSet /\ Tail(q) \in Seq(Icnt!PacketSet)
  <2> HIDE DEF q
  <2> QED BY <1>1, TailWithin DEF q
<1> QED BY <1>1, <1>2, <1>3

\* What Advance does to each buffer.
LEMMA AdvanceEffect ==
    ASSUME Icnt!IcntTypeOK, Icnt!Advance
    PROVE  /\ \A r \in Icnt!Nets, n \in Icnt!Nodes :
                 in_buffers'[r][n] = IF \E o \in Icnt!Nodes : Icnt!Issues(r, n, o)
                                     THEN Tail(in_buffers[r][n]) ELSE in_buffers[r][n]
           /\ \A r \in Icnt!Nets, n, o \in Icnt!Nodes :
                 Icnt!Issues(r, n, o)
                 => out_buffers'[r][o] = Append(out_buffers[r][o], Head(in_buffers[r][n]))
           /\ \A r \in Icnt!Nets, o \in Icnt!Nodes :
                 (\A n \in Icnt!Nodes : ~Icnt!Issues(r, n, o))
                 => out_buffers'[r][o] = out_buffers[r][o]
           /\ Icnt!IcntTypeOK'
<1>1. \A r \in Icnt!Nets, n \in Icnt!Nodes :
         in_buffers'[r][n] = IF \E o \in Icnt!Nodes : Icnt!Issues(r, n, o)
                             THEN Tail(in_buffers[r][n]) ELSE in_buffers[r][n]
  BY DEF Icnt!Advance, Icnt!AdvancedIn
<1>2. ASSUME NEW r \in Icnt!Nets, NEW n \in Icnt!Nodes, NEW o \in Icnt!Nodes,
             Icnt!Issues(r, n, o)
      PROVE  out_buffers'[r][o] = Append(out_buffers[r][o], Head(in_buffers[r][n]))
  <2> DEFINE k == CHOOSE m \in Icnt!Nodes : Icnt!Issues(r, m, o)
  <2>1. k \in Icnt!Nodes /\ Icnt!Issues(r, k, o)
    BY <1>2
  <2>2. out_buffers'[r][o] = Append(out_buffers[r][o], Head(in_buffers[r][k]))
    BY <1>2 DEF Icnt!Advance, Icnt!AdvancedOut
  <2>3. k = n
    <3> HIDE DEF k
    <3> QED BY <1>2, <2>1, IssueFacts
  <2> QED BY <2>2, <2>3
<1>3. ASSUME NEW r \in Icnt!Nets, NEW o \in Icnt!Nodes,
             \A n \in Icnt!Nodes : ~Icnt!Issues(r, n, o)
      PROVE  out_buffers'[r][o] = out_buffers[r][o]
  BY <1>3 DEF Icnt!Advance, Icnt!AdvancedOut
<1>4. ASSUME NEW r \in Icnt!Nets, NEW n \in Icnt!Nodes
      PROVE  /\ in_buffers'[r][n] \in Seq(Icnt!PacketSet)
             /\ out_buffers'[r][n] \in Seq(Icnt!PacketSet)
  <2>1. in_buffers[r][n] \in Seq(Icnt!PacketSet) /\ out_buffers[r][n] \in Seq(Icnt!PacketSet)
    BY DEF Icnt!IcntTypeOK
  <2>2. in_buffers'[r][n] \in Seq(Icnt!PacketSet)
    <3>1. ASSUME NEW o \in Icnt!Nodes, Icnt!Issues(r, n, o)
          PROVE  Tail(in_buffers[r][n]) \in Seq(Icnt!PacketSet)
      BY <3>1, IssueFacts
    <3> QED BY <1>1, <2>1, <3>1
  <2>3. out_buffers'[r][n] \in Seq(Icnt!PacketSet)
    <3>1. ASSUME NEW k \in Icnt!Nodes, Icnt!Issues(r, k, n)
          PROVE  out_buffers'[r][n] \in Seq(Icnt!PacketSet)
      <4>1. Head(in_buffers[r][k]) \in Icnt!PacketSet
        BY <3>1, IssueFacts
      <4>2. out_buffers'[r][n] = Append(out_buffers[r][n], Head(in_buffers[r][k]))
        BY <1>2, <3>1
      <4> QED BY <2>1, <4>1, <4>2
    <3> QED BY <1>3, <2>1, <3>1
  <2> QED BY <2>2, <2>3
<1>5. /\ in_buffers'  = [r \in Icnt!Nets |-> [n \in Icnt!Nodes |-> in_buffers'[r][n]]]
      /\ out_buffers' = [r \in Icnt!Nets |-> [n \in Icnt!Nodes |-> out_buffers'[r][n]]]
  BY DEF Icnt!Advance, Icnt!AdvancedIn, Icnt!AdvancedOut
<1>6. next_node_id' \in [Icnt!Nets -> Icnt!Nodes]
  <2> DEFINE N == Icnt!total_nodes
  <2>1. N \in Nat \ {0} /\ Icnt!Nodes = 0 .. N - 1
    BY Devices DEF Icnt!Nodes, Icnt!total_nodes
  <2>2. next_node_id' = [r \in Icnt!Nets |-> (next_node_id[r] + 1) % N]
    BY DEF Icnt!Advance
  <2> HIDE DEF N
  <2>3. ASSUME NEW r \in Icnt!Nets PROVE (next_node_id[r] + 1) % N \in 0 .. N - 1
    <3>1. next_node_id[r] \in 0 .. N - 1
      BY <2>1 DEF Icnt!IcntTypeOK
    <3> DEFINE x == next_node_id[r] + 1
    <3>2. x \in 0 .. 2 * N - 1
      BY <2>1, <3>1
    <3> HIDE DEF x
    <3>3. x % N = IF x < N THEN x ELSE x - N
      BY <2>1, <3>2, ModSmall
    <3>4. x % N \in 0 .. N - 1
      BY <2>1, <3>2, <3>3
    <3> QED BY <3>4 DEF x
  <2> QED BY <2>1, <2>2, <2>3
<1> QED BY <1>1, <1>2, <1>3, <1>4, <1>5, <1>6 DEF Icnt!IcntTypeOK

\* Advance moves a request from the input of its SM to the output to the
\* slice, and a reply from the input of the slice to the output of its SM.
LEMMA AdvanceHomed ==
    ASSUME Icnt!IcntTypeOK, HomedIcnt, Icnt!Advance
    PROVE  HomedIcnt'
<1> DEFINE Q == Icnt!REQ_NET
           P == Icnt!REPLY_NET
<1>1. /\ Q \in Icnt!Nets /\ P \in Icnt!Nets /\ Slice \in Icnt!Nodes
      /\ \A s \in Sm : s \in Icnt!Nodes
  BY Devices
<1>2. ASSUME NEW r \in Icnt!Nets, NEW n \in Icnt!Nodes
      PROVE  /\ Within(in_buffers'[r][n]) \subseteq Within(in_buffers[r][n])
             /\ in_buffers[r][n] = <<>> => in_buffers'[r][n] = <<>>
  <2>1. CASE \E o \in Icnt!Nodes : Icnt!Issues(r, n, o)
    <3>1. PICK o \in Icnt!Nodes : Icnt!Issues(r, n, o)
      BY <2>1
    <3>2. in_buffers[r][n] \in Seq(Icnt!PacketSet) /\ in_buffers[r][n] # <<>>
      BY <3>1, IssueFacts
    <3>3. in_buffers'[r][n] = Tail(in_buffers[r][n])
      BY <2>1, AdvanceEffect
    <3>4. Within(in_buffers[r][n]) = Within(Tail(in_buffers[r][n])) \cup {Head(in_buffers[r][n])}
      BY <3>2, TailWithin
    <3> QED BY <3>2, <3>3, <3>4
  <2>2. CASE ~\E o \in Icnt!Nodes : Icnt!Issues(r, n, o)
    <3>1. in_buffers'[r][n] = in_buffers[r][n]
      BY <2>2, AdvanceEffect
    <3> QED BY <3>1
  <2> QED BY <2>1, <2>2
<1>3. ASSUME NEW s \in Sm, NEW p \in Within(out_buffers'[P][s])
      PROVE  m_sm_id[p.data] = s
  <2>1. out_buffers[P][s] \in Seq(Icnt!PacketSet)
    BY <1>1 DEF Icnt!IcntTypeOK
  <2>2. CASE \E n \in Icnt!Nodes : Icnt!Issues(P, n, s)
    <3>1. PICK n \in Icnt!Nodes : Icnt!Issues(P, n, s)
      BY <2>2
    <3> DEFINE h == Head(in_buffers[P][n])
    <3>2. /\ in_buffers[P][n] # <<>> /\ h \in Within(in_buffers[P][n])
          /\ h \in Icnt!PacketSet /\ h.output_deviceID = s
      BY <1>1, <3>1, IssueFacts
    <3>3. n = Slice
      BY <1>1, <3>2, Devices DEF HomedIcnt
    <3>4. m_sm_id[h.data] = s
      BY <3>2, <3>3 DEF HomedIcnt
    <3>5. out_buffers'[P][s] = Append(out_buffers[P][s], h)
      BY <1>1, <3>1, AdvanceEffect
    <3> HIDE DEF h
    <3>6. Within(out_buffers'[P][s]) = Within(out_buffers[P][s]) \cup {h}
      BY <2>1, <3>2, <3>5, AppendWithin
    <3> QED BY <1>3, <3>4, <3>6 DEF HomedIcnt
  <2>3. CASE ~\E n \in Icnt!Nodes : Icnt!Issues(P, n, s)
    <3>1. out_buffers'[P][s] = out_buffers[P][s]
      BY <1>1, <2>3, AdvanceEffect
    <3> QED BY <1>3, <3>1 DEF HomedIcnt
  <2> QED BY <2>2, <2>3
<1>4. ASSUME NEW s \in Sm
      PROVE  /\ \A p \in Within(in_buffers'[Q][s]) : m_sm_id[p.data] = s /\ p.output_deviceID = Slice
             /\ in_buffers'[P][s] = <<>>
  <2>1. Within(in_buffers'[Q][s]) \subseteq Within(in_buffers[Q][s])
    BY <1>1, <1>2
  <2>2. in_buffers[P][s] = <<>> => in_buffers'[P][s] = <<>>
    BY <1>1, <1>2
  <2> QED BY <2>1, <2>2 DEF HomedIcnt
<1>5. /\ in_buffers'[Q][Slice] = <<>>
      /\ \A p \in Within(in_buffers'[P][Slice]) : p.output_deviceID = m_sm_id[p.data]
  <2>1. Within(in_buffers'[P][Slice]) \subseteq Within(in_buffers[P][Slice])
    BY <1>1, <1>2
  <2>2. in_buffers[Q][Slice] = <<>> => in_buffers'[Q][Slice] = <<>>
    BY <1>1, <1>2
  <2> QED BY <2>1, <2>2 DEF HomedIcnt
<1> QED BY <1>3, <1>4, <1>5 DEF HomedIcnt

LEMMA AdvanceCounts ==
    ASSUME Icnt!IcntTypeOK, HomedIcnt, Icnt!Advance, NEW mf \in MemFetch
    PROVE  /\ Sent(mf)' + Arriving(mf)' = Sent(mf) + Arriving(mf)
           /\ Answered(mf)' + Returning(mf)' = Answered(mf) + Returning(mf)
<1> DEFINE Q == Icnt!REQ_NET
           P == Icnt!REPLY_NET
           s == m_sm_id[mf]
<1>1. /\ Q \in Icnt!Nets /\ P \in Icnt!Nets /\ Slice \in Icnt!Nodes
      /\ s \in Sm /\ Sm \subseteq Icnt!Nodes /\ Slice \notin Sm
  BY Devices, RequestHome
<1>2. \A r \in Icnt!Nets, n \in Icnt!Nodes :
         in_buffers[r][n] \in Seq(Icnt!PacketSet) /\ out_buffers[r][n] \in Seq(Icnt!PacketSet)
  BY DEF Icnt!IcntTypeOK
<1>3. /\ Sent(mf) = Times(Carried(in_buffers[Q][s]), mf)
      /\ Sent(mf)' = Times(Carried(in_buffers'[Q][s]), mf)
      /\ Arriving(mf) = Times(Carried(out_buffers[Q][Slice]), mf)
      /\ Arriving(mf)' = Times(Carried(out_buffers'[Q][Slice]), mf)
      /\ Answered(mf) = Times(Carried(in_buffers[P][Slice]), mf)
      /\ Answered(mf)' = Times(Carried(in_buffers'[P][Slice]), mf)
      /\ Returning(mf) = Times(Carried(out_buffers[P][s]), mf)
      /\ Returning(mf)' = Times(Carried(out_buffers'[P][s]), mf)
  BY DEF Sent, Arriving, Answered, Returning
<1>4. \A r \in Icnt!Nets, n \in Icnt!Nodes :
         Times(Carried(in_buffers[r][n]), mf) \in Nat /\ Times(Carried(out_buffers[r][n]), mf) \in Nat
  BY <1>2, CarriedNat
<1>5. Sent(mf)' + Arriving(mf)' = Sent(mf) + Arriving(mf)
  <2>1. CASE \E n \in Icnt!Nodes : Icnt!Issues(Q, n, Slice)
    <3>1. PICK n \in Icnt!Nodes : Icnt!Issues(Q, n, Slice)
      BY <2>1
    <3> DEFINE h == Head(in_buffers[Q][n])
    <3>2. /\ in_buffers[Q][n] \in Seq(Icnt!PacketSet) /\ in_buffers[Q][n] # <<>>
          /\ h \in Within(in_buffers[Q][n]) /\ h \in Icnt!PacketSet
          /\ \A k \in Icnt!Nodes : Icnt!Issues(Q, k, Slice) => k = n
      BY <1>1, <3>1, IssueFacts
    <3>3. n \in Sm
      BY <3>2, Devices DEF HomedIcnt
    <3>4. m_sm_id[h.data] = n
      BY <3>2, <3>3 DEF HomedIcnt
    <3>5. out_buffers'[Q][Slice] = Append(out_buffers[Q][Slice], h)
      BY <1>1, <3>1, AdvanceEffect
    <3>6. in_buffers'[Q][n] = Tail(in_buffers[Q][n])
      BY <1>1, <3>1, AdvanceEffect
    <3>7. ASSUME NEW k \in Sm, k # n PROVE in_buffers'[Q][k] = in_buffers[Q][k]
      <4>1. k \in Icnt!Nodes
        BY <1>1
      <4>2. ASSUME NEW o \in Icnt!Nodes, Icnt!Issues(Q, k, o) PROVE FALSE
        <5>1. /\ Head(in_buffers[Q][k]) \in Within(in_buffers[Q][k])
              /\ Head(in_buffers[Q][k]).output_deviceID = o
          BY <1>1, <4>1, <4>2, IssueFacts
        <5>2. o = Slice
          BY <5>1 DEF HomedIcnt
        <5> QED BY <3>2, <3>7, <4>1, <4>2, <5>2
      <4> QED BY <1>1, <4>1, <4>2, AdvanceEffect
    <3>8. Times(Carried(out_buffers'[Q][Slice]), mf)
            = Times(Carried(out_buffers[Q][Slice]), mf) + (IF h.data = mf THEN 1 ELSE 0)
      <4> HIDE DEF h
      <4> QED BY <1>1, <1>2, <3>2, <3>5, CarriedAppend
    <3>9. Times(Carried(in_buffers[Q][n]), mf)
            = Times(Carried(in_buffers'[Q][n]), mf) + (IF h.data = mf THEN 1 ELSE 0)
      BY <3>2, <3>6, CarriedTail
    <3>10. Tail(in_buffers[Q][n]) \in Seq(Icnt!PacketSet)
      BY <3>2, CarriedTail
    <3>11. Times(Carried(in_buffers'[Q][n]), mf) \in Nat
      BY <3>6, <3>10, CarriedNat
    <3> HIDE DEF h
    <3>12. CASE s = n
      BY <1>1, <1>3, <1>4, <3>8, <3>9, <3>11, <3>12
    <3>13. CASE s # n
      <4>1. in_buffers'[Q][s] = in_buffers[Q][s] /\ h.data # mf
        BY <1>1, <3>4, <3>7, <3>13
      <4> QED BY <1>1, <1>3, <1>4, <3>8, <4>1
    <3> QED BY <3>12, <3>13
  <2>2. CASE ~\E n \in Icnt!Nodes : Icnt!Issues(Q, n, Slice)
    <3>1. out_buffers'[Q][Slice] = out_buffers[Q][Slice]
      BY <1>1, <2>2, AdvanceEffect
    <3>2. ASSUME NEW o \in Icnt!Nodes, Icnt!Issues(Q, s, o) PROVE FALSE
      <4>1. /\ Head(in_buffers[Q][s]) \in Within(in_buffers[Q][s])
            /\ Head(in_buffers[Q][s]).output_deviceID = o
        BY <1>1, <3>2, IssueFacts
      <4>2. o = Slice
        BY <1>1, <4>1 DEF HomedIcnt
      <4> QED BY <1>1, <2>2, <3>2, <4>2
    <3>3. in_buffers'[Q][s] = in_buffers[Q][s]
      BY <1>1, <3>2, AdvanceEffect
    <3> QED BY <1>3, <3>1, <3>3
  <2> QED BY <2>1, <2>2
<1>6. Answered(mf)' + Returning(mf)' = Answered(mf) + Returning(mf)
  <2>1. ASSUME NEW n \in Icnt!Nodes, NEW o \in Icnt!Nodes, Icnt!Issues(P, n, o) PROVE n = Slice
    <3>1. in_buffers[P][n] # <<>>
      BY <1>1, <2>1, IssueFacts
    <3> QED BY <3>1, Devices DEF HomedIcnt
  <2>2. CASE \E o \in Icnt!Nodes : Icnt!Issues(P, Slice, o)
    <3>1. PICK o \in Icnt!Nodes : Icnt!Issues(P, Slice, o)
      BY <2>2
    <3> DEFINE h == Head(in_buffers[P][Slice])
    <3>2. /\ in_buffers[P][Slice] \in Seq(Icnt!PacketSet) /\ in_buffers[P][Slice] # <<>>
          /\ h \in Within(in_buffers[P][Slice]) /\ h \in Icnt!PacketSet
          /\ h.output_deviceID = o
      BY <1>1, <3>1, IssueFacts
    <3>3. m_sm_id[h.data] = o
      BY <3>2 DEF HomedIcnt
    <3>4. out_buffers'[P][o] = Append(out_buffers[P][o], h)
      BY <1>1, <3>1, AdvanceEffect
    <3>5. in_buffers'[P][Slice] = Tail(in_buffers[P][Slice])
      BY <1>1, <3>1, AdvanceEffect
    <3>6. ASSUME s # o PROVE out_buffers'[P][s] = out_buffers[P][s]
      <4>1. ASSUME NEW n \in Icnt!Nodes, Icnt!Issues(P, n, s) PROVE FALSE
        <5>1. Head(in_buffers[P][n]).output_deviceID = s
          BY <1>1, <4>1, IssueFacts
        <5>2. n = Slice
          BY <1>1, <2>1, <4>1
        <5> QED BY <3>2, <3>6, <5>1, <5>2
      <4> QED BY <1>1, <4>1, AdvanceEffect
    <3>7. Times(Carried(out_buffers'[P][o]), mf)
            = Times(Carried(out_buffers[P][o]), mf) + (IF h.data = mf THEN 1 ELSE 0)
      <4> HIDE DEF h
      <4> QED BY <1>1, <1>2, <3>2, <3>4, CarriedAppend
    <3>8. Times(Carried(in_buffers[P][Slice]), mf)
            = Times(Carried(in_buffers'[P][Slice]), mf) + (IF h.data = mf THEN 1 ELSE 0)
      BY <3>2, <3>5, CarriedTail
    <3>9. Tail(in_buffers[P][Slice]) \in Seq(Icnt!PacketSet)
      BY <3>2, CarriedTail
    <3>10. Times(Carried(in_buffers'[P][Slice]), mf) \in Nat
      BY <3>5, <3>9, CarriedNat
    <3> HIDE DEF h
    <3>11. CASE s = o
      BY <1>1, <1>3, <1>4, <3>7, <3>8, <3>10, <3>11
    <3>12. CASE s # o
      <4>1. out_buffers'[P][s] = out_buffers[P][s] /\ h.data # mf
        BY <1>1, <3>3, <3>6, <3>12
      <4> QED BY <1>1, <1>3, <1>4, <3>8, <3>10, <4>1
    <3> QED BY <3>11, <3>12
  <2>3. CASE ~\E o \in Icnt!Nodes : Icnt!Issues(P, Slice, o)
    <3>1. in_buffers'[P][Slice] = in_buffers[P][Slice]
      BY <1>1, <2>3, AdvanceEffect
    <3>2. out_buffers'[P][s] = out_buffers[P][s]
      BY <1>1, <2>1, <2>3, AdvanceEffect
    <3> QED BY <1>3, <3>1, <3>2
  <2> QED BY <2>2, <2>3
<1> QED BY <1>5, <1>6

-----------------------------------------------------------------------------
(* Pop.                                                                    *)

LEMMA OneOrNone ==
    ASSUME NEW m, NEW x
    PROVE  Cardinality({m} \cap {x}) = IF m = x THEN 1 ELSE 0
<1>1. CASE m = x
  <2>1. {m} \cap {x} = {m} /\ Cardinality({m}) = 1
    BY <1>1, FS_Singleton
  <2> QED BY <1>1, <2>1
<1>2. CASE m # x
  <2>1. {m} \cap {x} = {} /\ Cardinality({}) = 0
    BY <1>2, FS_EmptySet
  <2> QED BY <1>2, <2>1
<1> QED BY <1>1, <1>2

\* What a device pops leaves its output buffer, and nothing else moves.
LEMMA PopEffect ==
    ASSUME Icnt!IcntTypeOK, NEW d \in Icnt!Nodes, Icnt!Pop(d)
    PROVE  /\ out_buffers' \in [Icnt!Nets -> [Icnt!Nodes -> Seq(Icnt!PacketSet)]]
           /\ \A r \in Icnt!Nets, n \in Icnt!Nodes :
                 Within(out_buffers'[r][n]) \subseteq Within(out_buffers[r][n])
           /\ \A r \in Icnt!Nets, n \in Icnt!Nodes :
                 r # Icnt!PopNet(d) \/ n # d => out_buffers'[r][n] = out_buffers[r][n]
           /\ \/ PoppedBy(d) = {}
              \/ \E p \in Within(out_buffers[Icnt!PopNet(d)][d]) : PoppedBy(d) = {p.data}
           /\ \A mf : Times(Carried(out_buffers[Icnt!PopNet(d)][d]), mf)
                        = Times(Carried(out_buffers'[Icnt!PopNet(d)][d]), mf)
                          + Cardinality(PoppedBy(d) \cap {mf})
<1> DEFINE r == Icnt!PopNet(d)
           q == out_buffers[r][d]
<1>1. r \in Icnt!Nets /\ q \in Seq(Icnt!PacketSet)
      /\ out_buffers \in [Icnt!Nets -> [Icnt!Nodes -> Seq(Icnt!PacketSet)]]
  BY DEF Icnt!IcntTypeOK, Icnt!PopNet, Icnt!Nets
<1>2. CASE q = <<>>
  <2>1. out_buffers' = out_buffers /\ PoppedBy(d) = {}
    BY <1>2 DEF Icnt!Pop, Icnt!HasReply, PoppedBy
  <2>2. ASSUME NEW mf PROVE Times(Carried(q), mf) = Times(Carried(q), mf) + Cardinality(PoppedBy(d) \cap {mf})
    <3>1. PoppedBy(d) \cap {mf} = {} /\ Cardinality({}) = 0
      BY <2>1, FS_EmptySet
    <3>2. Times(Carried(q), mf) \in Nat
      BY <1>1, CarriedNat
    <3> QED BY <3>1, <3>2
  <2> QED BY <1>1, <2>1, <2>2
<1>3. CASE q # <<>>
  <2>1. out_buffers' = [out_buffers EXCEPT ![r][d] = Tail(@)] /\ PoppedBy(d) = {Head(q).data}
    BY <1>3 DEF Icnt!Pop, Icnt!HasReply, PoppedBy, Icnt!Popped
  <2>2. /\ Tail(q) \in Seq(Icnt!PacketSet) /\ Head(q) \in Within(q)
        /\ Within(Tail(q)) \subseteq Within(q)
    <3> HIDE DEF q
    <3> QED BY <1>1, <1>3, TailWithin
  <2>3. out_buffers'[r][d] = Tail(q)
    BY <1>1, <2>1
  <2>4. \A k \in Icnt!Nets, n \in Icnt!Nodes :
           k # r \/ n # d => out_buffers'[k][n] = out_buffers[k][n]
    BY <1>1, <2>1
  <2>5. out_buffers' \in [Icnt!Nets -> [Icnt!Nodes -> Seq(Icnt!PacketSet)]]
    BY <1>1, <2>1, <2>2
  <2>6. ASSUME NEW mf
        PROVE  Times(Carried(q), mf) = Times(Carried(Tail(q)), mf) + Cardinality(PoppedBy(d) \cap {mf})
    <3>1. Times(Carried(q), mf) = Times(Carried(Tail(q)), mf) + (IF Head(q).data = mf THEN 1 ELSE 0)
      BY <1>1, <1>3, CarriedTail
    <3>2. Cardinality(PoppedBy(d) \cap {mf}) = IF Head(q).data = mf THEN 1 ELSE 0
      <4> DEFINE m == Head(q).data
      <4>1. PoppedBy(d) = {m}
        BY <2>1
      <4> HIDE DEF m
      <4>2. Cardinality({m} \cap {mf}) = IF m = mf THEN 1 ELSE 0
        BY OneOrNone
      <4> QED BY <4>1, <4>2 DEF m
    <3> QED BY <3>1, <3>2
  <2>7. \A k \in Icnt!Nets, n \in Icnt!Nodes : Within(out_buffers'[k][n]) \subseteq Within(out_buffers[k][n])
    BY <2>2, <2>3, <2>4
  <2> QED BY <2>1, <2>2, <2>3, <2>4, <2>5, <2>6, <2>7
<1> QED BY <1>2, <1>3

-----------------------------------------------------------------------------
(* Steps that only move requests below the miss queues: the slice, the     *)
(* crossbar, and the calls of an SM that pop and push.                     *)

\* The requests of an instruction can be counted, and are of no other one.
LEMMA RequestFacts ==
    ASSUME NEW i \in Inst
    PROVE  /\ RequestsOf(i) \subseteq MemFetch /\ IsFiniteSet(RequestsOf(i))
           /\ \A j \in Inst, mf \in RequestsOf(i) : mf \in RequestsOf(j) => j = i
           /\ \A mf \in RequestsOf(i) : m_sm_id[mf] = SmOfInst(i)
<1> DEFINE q == m_coalesced_address[i]
           R == RequestsOf(i)
<1>1. q \in Seq(MemFetch)
  BY L1Assumption
<1>2. R = {q[k] : k \in DOMAIN q}
  BY DEF RequestsOf, Range
<1> HIDE DEF q, R
<1>3. Len(q) \in Nat /\ DOMAIN q = 1 .. Len(q) /\ q = [k \in DOMAIN q |-> q[k]]
  BY <1>1
<1>4. q \in Surjection(1 .. Len(q), R)
  BY <1>2, <1>3 DEF Surjection
<1>5. IsFiniteSet(1 .. Len(q))
  <2> DEFINE n == Len(q)
  <2>1. n \in Nat
    BY <1>3
  <2> HIDE DEF n
  <2>2. IsFiniteSet(1 .. n)
    BY <2>1, FS_Interval
  <2> QED BY <2>2 DEF n
<1>6. IsFiniteSet(R)
  BY <1>4, <1>5, FS_Surjection
<1>7. R \subseteq MemFetch
  BY <1>1, <1>2, <1>3
<1>8. ASSUME NEW j \in Inst, NEW mf \in RequestsOf(i), mf \in RequestsOf(j) PROVE j = i
  <2>1. mf \in MemFetch
    BY <1>7 DEF R
  <2>2. PICK k \in Inst : {l \in Inst : mf \in RequestsOf(l)} = {k}
    BY <2>1, L1Assumption
  <2> QED BY <1>8, <2>2
<1>9. \A mf \in RequestsOf(i) : m_sm_id[mf] = SmOfInst(i)
  BY L1Assumption
<1> QED BY <1>6, <1>7, <1>8, <1>9 DEF R

Tallies == LoadsBelow /\ OutOnce /\ Counted /\ InUnits /\ Completes

LEMMA CarriedOn ==
    ASSUME Tallies, \A mf \in MemFetch : Below(mf)' = Below(mf),
           UNCHANGED <<m_queue_sm_to_l1, l1_to_sm, l1_mshrs, unit, pending_request,
                       completed, unissued>>
    PROVE  Tallies'
<1>1. LoadsBelow'
  BY DEF Tallies, LoadsBelow, Entry
<1>2. \A mf \in MemFetch : Out(mf)' = Out(mf)
  BY DEF Out, Banked, Hitting, Merged, Entry
<1>3. \A mf \in MemFetch : Unmade(mf)' <=> Unmade(mf)
  BY DEF Unmade
<1>4. OutOnce'
  BY <1>2, <1>3 DEF Tallies, OutOnce
<1>5. Counted'
  <2>1. \A i \in Inst : RequestsOf(i) \subseteq MemFetch
    BY RequestFacts
  <2>2. \A i \in Inst : OutOf(i)' = OutOf(i)
    BY <1>2, <2>1 DEF OutOf
  <2> QED BY <2>2 DEF Tallies, Counted
<1>6. InUnits' /\ Completes'
  BY DEF Tallies, InUnits, Completes, Fresh
<1> QED BY <1>1, <1>4, <1>5, <1>6 DEF Tallies

\* The crossbar moves a request along, so it is as often below as before.
LEMMA IcntStep == MInv /\ IcntCycle => MInv'
<1> SUFFICES ASSUME MInv, IcntCycle PROVE MInv'
  OBVIOUS
<1>1. /\ Icnt!IcntTypeOK /\ Icnt!Advance /\ Typed /\ HomedSm /\ HomedIcnt /\ Flying
      /\ turn = <<"icnt", 0>> /\ turn' = <<"sm", 0>>
      /\ UNCHANGED <<smVars, l2Vars, gpu_sim_cycles>>
  BY DEF MInv, Typed, IcntCycle
<1>2. Typed'
  BY <1>1, AdvanceEffect DEF Typed, smVars, l2Vars
<1>3. HomedSm'
  BY <1>1 DEF HomedSm, smVars
<1>4. HomedIcnt'
  BY <1>1, AdvanceHomed
<1>5. reply = {}
  BY <1>1 DEF MInv, ReplyHere
<1>6. ReplyHere' /\ EndsIdle'
  BY <1>1, <1>5 DEF ReplyHere, EndsIdle, smVars
<1>7. Flying' /\ EntryAnswered'
  BY <1>1 DEF MInv, Flying, EntryAnswered, l2Vars
<1>8. ASSUME NEW mf \in MemFetch PROVE Below(mf)' = Below(mf)
  <2>1. /\ Sent(mf)' + Arriving(mf)' = Sent(mf) + Arriving(mf)
        /\ Answered(mf)' + Returning(mf)' = Answered(mf) + Returning(mf)
    BY <1>1, AdvanceCounts
  <2>2. /\ Missed(mf)' = Missed(mf) /\ Popping(mf)' = Popping(mf)
        /\ Looking(mf)' = Looking(mf) /\ Answering(mf)' = Answering(mf)
    BY <1>1 DEF Missed, Popping, Looking, Answering, smVars, l2Vars
  <2>3. CountsNat /\ CountsNat'
    BY <1>1, <1>2, <1>7, CountsNow, CountsNext
  <2> QED BY <2>1, <2>2, <2>3 DEF CountsNat
<1>9. Tallies'
  BY <1>1, <1>8, CarriedOn DEF MInv, Tallies, smVars
<1> QED BY <1>2, <1>3, <1>4, <1>6, <1>7, <1>9 DEF MInv, Tallies

\* An SM pops a reply of its own.
LEMMA PopsStep == ASSUME NEW s \in Sm PROVE MInv /\ SmPops(s) => MInv'
<1> SUFFICES ASSUME MInv, SmPops(s) PROVE MInv'
  OBVIOUS
<1> DEFINE Q == Icnt!REQ_NET
           P == Icnt!REPLY_NET
<1>1. /\ Icnt!IcntTypeOK /\ Typed /\ HomedSm /\ HomedIcnt /\ Flying
      /\ turn = <<"sm", s>> /\ turn' = turn /\ step = <<"start", 0>> /\ step' = <<"write_back", 0>>
      /\ Icnt!Pop(s) /\ reply' = PoppedBy(s) /\ cycles' = [cycles EXCEPT ![s] = @ + 1]
      /\ UNCHANGED <<l1_mshrs, m_queue_sm_to_l1, m_miss_queue, l1_to_sm, unit, pending_request,
                     completed, unissued, l2Vars, in_buffers, next_node_id, gpu_sim_cycles>>
  BY DEF MInv, Typed, SmPops, Start, At, Goto
<1>2. /\ s \in Icnt!Nodes /\ Icnt!PopNet(s) = P /\ P \in Icnt!Nets /\ Q \in Icnt!Nets
      /\ Q # P /\ Slice \in Icnt!Nodes /\ Sm \subseteq Icnt!Nodes
  BY Devices
<1>3. /\ out_buffers' \in [Icnt!Nets -> [Icnt!Nodes -> Seq(Icnt!PacketSet)]]
      /\ \A r \in Icnt!Nets, n \in Icnt!Nodes :
            Within(out_buffers'[r][n]) \subseteq Within(out_buffers[r][n])
      /\ \A r \in Icnt!Nets, n \in Icnt!Nodes :
            r # P \/ n # s => out_buffers'[r][n] = out_buffers[r][n]
      /\ \/ PoppedBy(s) = {}
         \/ \E p \in Within(out_buffers[P][s]) : PoppedBy(s) = {p.data}
      /\ \A mf : Times(Carried(out_buffers[P][s]), mf)
                   = Times(Carried(out_buffers'[P][s]), mf) + Cardinality(PoppedBy(s) \cap {mf})
  <2>1. Icnt!IcntTypeOK /\ Icnt!Pop(s) /\ s \in Icnt!Nodes /\ Icnt!PopNet(s) = P
    BY <1>1, <1>2
  <2> HIDE DEF P, Q
  <2> QED BY <2>1, PopEffect
<1>4. reply = {}
  BY <1>1 DEF MInv, ReplyHere
<1>5. PoppedBy(s) = {} \/ \E mf \in MemFetch : PoppedBy(s) = {mf} /\ m_sm_id[mf] = s
  <2>1. ASSUME NEW p \in Within(out_buffers[P][s]) PROVE p.data \in MemFetch /\ m_sm_id[p.data] = s
    <3>1. out_buffers[P][s] \in Seq(Icnt!PacketSet)
      BY <1>1, <1>2 DEF Icnt!IcntTypeOK
    <3>2. p \in Icnt!PacketSet
      BY <3>1 DEF Within
    <3> QED BY <1>1, <3>2 DEF HomedIcnt, Icnt!PacketSet
  <2> QED BY <1>3, <2>1
<1>6. Typed'
  <2>1. Icnt!IcntTypeOK'
    BY <1>1, <1>3 DEF Icnt!IcntTypeOK
  <2>2. cycles' \in [Sm -> Nat] /\ reply' \in SUBSET MemFetch
    BY <1>1, <1>5 DEF Typed
  <2> QED BY <1>1, <2>1, <2>2 DEF Typed, l2Vars
<1>7. HomedSm'
  BY <1>1 DEF HomedSm
<1>8. HomedIcnt'
  <2>1. \A n \in Sm : Within(out_buffers'[P][n]) \subseteq Within(out_buffers[P][n])
    BY <1>2, <1>3
  <2> QED BY <1>1, <2>1 DEF HomedIcnt
<1>9. ReplyHere' /\ EndsIdle'
  BY <1>1, <1>5 DEF ReplyHere, EndsIdle
<1>10. Flying' /\ EntryAnswered'
  BY <1>1 DEF MInv, Flying, EntryAnswered, l2Vars
<1>11. ASSUME NEW mf \in MemFetch PROVE Below(mf)' = Below(mf)
  <2>1. CountsNat /\ CountsNat'
    BY <1>1, <1>6, <1>10, CountsNow, CountsNext
  <2>2. Returning(mf)' + Popping(mf)' = Returning(mf) + Popping(mf)
    <3>1. Popping(mf) = 0 /\ Popping(mf)' = Cardinality(PoppedBy(s) \cap {mf})
      BY <1>1, <1>4, FS_EmptySet DEF Popping
    <3>2. CASE m_sm_id[mf] = s
      <4>1. Returning(mf) = Returning(mf)' + Cardinality(PoppedBy(s) \cap {mf})
        BY <1>3, <3>2 DEF Returning
      <4> QED BY <2>1, <3>1, <4>1 DEF CountsNat
    <3>3. CASE m_sm_id[mf] # s
      <4>1. Returning(mf)' = Returning(mf)
        BY <1>2, <1>3, <3>3, RequestHome DEF Returning
      <4>2. PoppedBy(s) \cap {mf} = {}
        BY <1>5, <3>3
      <4>3. Cardinality({}) = 0
        BY FS_EmptySet
      <4> QED BY <2>1, <3>1, <4>1, <4>2, <4>3
    <3> QED BY <3>2, <3>3
  <2>3. /\ Missed(mf)' = Missed(mf) /\ Sent(mf)' = Sent(mf) /\ Answered(mf)' = Answered(mf)
        /\ Looking(mf)' = Looking(mf) /\ Answering(mf)' = Answering(mf)
    BY <1>1 DEF Missed, Sent, Answered, Looking, Answering, l2Vars
  <2>4. Arriving(mf)' = Arriving(mf)
    BY <1>2, <1>3 DEF Arriving
  <2> QED BY <2>1, <2>2, <2>3, <2>4 DEF CountsNat
<1>12. Tallies'
  BY <1>1, <1>11, CarriedOn DEF MInv, Tallies
<1> QED BY <1>6, <1>7, <1>8, <1>9, <1>10, <1>12 DEF MInv, Tallies

\* An SM pushes the request at the front of its miss queue, to the slice.
LEMMA PushesStep == ASSUME NEW s \in Sm PROVE MInv /\ SmPushes(s) => MInv'
<1> SUFFICES ASSUME MInv, SmPushes(s) PROVE MInv'
  OBVIOUS
<1> DEFINE Q == Icnt!REQ_NET
           P == Icnt!REPLY_NET
           q == m_miss_queue[s]
           pushed == Pushed(s, Icnt!HasBuffer(s))
<1>1. /\ Icnt!IcntTypeOK /\ Typed /\ HomedSm /\ HomedIcnt /\ Flying
      /\ turn = <<"sm", s>> /\ turn' = turn /\ step = <<"m_miss_queue_cycle", 0>>
      /\ m_miss_queue' = [m_miss_queue EXCEPT ![s] = IF pushed = {} THEN @ ELSE Tail(@)]
      /\ IF pushed = {} THEN UNCHANGED in_buffers
                        ELSE \E mf \in pushed : Icnt!Push(s, Slice, mf)
      /\ UNCHANGED <<cycles, reply, l1_mshrs, m_queue_sm_to_l1, l1_to_sm, unit, pending_request,
                     completed, unissued, l2Vars, out_buffers, next_node_id, gpu_sim_cycles>>
  BY DEF MInv, Typed, SmPushes, m_miss_queue_cycle, At
<1>2. /\ s \in Icnt!Nodes /\ Icnt!PushNet(s) = Q /\ P \in Icnt!Nets /\ Q \in Icnt!Nets
      /\ Q # P /\ Slice \in Icnt!Nodes /\ Sm \subseteq Icnt!Nodes /\ Slice \notin Sm
  BY Devices
<1>3. reply = {}
  BY <1>1 DEF MInv, ReplyHere
<1>4. ReplyHere' /\ EndsIdle' /\ Flying' /\ EntryAnswered'
  BY <1>1, <1>3 DEF MInv, ReplyHere, EndsIdle, Flying, EntryAnswered, l2Vars
<1>5. in_buffers \in [Icnt!Nets -> [Icnt!Nodes -> Seq(Icnt!PacketSet)]] /\ q \in Seq(MemFetch)
      /\ m_miss_queue \in [Sm -> Seq(MemFetch)]
  BY <1>1 DEF Typed, Icnt!IcntTypeOK
<1>6. CASE pushed = {}
  <2>1. m_miss_queue' = m_miss_queue /\ in_buffers' = in_buffers
    BY <1>1, <1>5, <1>6
  <2>2. Typed' /\ HomedSm' /\ HomedIcnt'
    <3>1. Icnt!IcntTypeOK'
      BY <1>1, <2>1 DEF Icnt!IcntTypeOK
    <3>2. Typed'
      BY <1>1, <2>1, <3>1 DEF Typed, l2Vars
    <3>3. HomedSm'
      <4>1. HomedSm /\ UNCHANGED <<m_miss_queue, l1_mshrs, m_queue_sm_to_l1, l1_to_sm>>
        BY <1>1, <2>1
      <4> QED BY <4>1 DEF HomedSm
    <3>4. HomedIcnt'
      BY <1>1, <2>1 DEF HomedIcnt
    <3> QED BY <3>2, <3>3, <3>4
  <2>3. \A mf \in MemFetch : Below(mf)' = Below(mf)
    BY <1>1, <2>1 DEF Below, l2Vars
  <2>4. Tallies'
    BY <1>1, <2>3, CarriedOn DEF MInv, Tallies
  <2> QED BY <1>4, <2>2, <2>4 DEF MInv, Tallies
<1>7. CASE pushed # {}
  <2> DEFINE m == Head(q)
             p == Icnt!Packet(m, Slice)
  <2>1. q # <<>> /\ pushed = {m}
    BY <1>7 DEF Pushed
  <2>2. /\ in_buffers' = [in_buffers EXCEPT ![Q][s] = Append(@, p)]
        /\ m_miss_queue' = [m_miss_queue EXCEPT ![s] = Tail(@)]
    BY <1>1, <1>2, <1>7, <2>1 DEF Icnt!Push
  <2>3. /\ m \in MemFetch /\ m \in Within(q) /\ Tail(q) \in Seq(MemFetch)
        /\ Within(Tail(q)) \subseteq Within(q)
    <3> HIDE DEF q
    <3> QED BY <1>5, <2>1, TailWithin
  <2>4. m_sm_id[m] = s
    BY <1>1, <2>3 DEF HomedSm
  <2>5. p \in Icnt!PacketSet /\ p.data = m /\ p.output_deviceID = Slice
    BY <1>2, <2>3 DEF Icnt!Packet, Icnt!PacketSet
  <2>6. in_buffers[Q][s] \in Seq(Icnt!PacketSet)
    BY <1>2, <1>5
  <2>7. \A mf : Times(q, mf) = Times(Tail(q), mf) + (IF m = mf THEN 1 ELSE 0)
    BY <1>5, <2>1, TimesTail
  <2> HIDE DEF m, p, pushed
  <2>8. /\ in_buffers'[Q][s] = Append(in_buffers[Q][s], p)
        /\ \A r \in Icnt!Nets, n \in Icnt!Nodes : r # Q \/ n # s => in_buffers'[r][n] = in_buffers[r][n]
        /\ m_miss_queue'[s] = Tail(q)
        /\ \A n \in Sm : n # s => m_miss_queue'[n] = m_miss_queue[n]
    BY <1>2, <1>5, <2>2
  <2>9. /\ Append(in_buffers[Q][s], p) \in Seq(Icnt!PacketSet)
        /\ Within(Append(in_buffers[Q][s], p)) = Within(in_buffers[Q][s]) \cup {p}
    BY <2>5, <2>6, AppendWithin
  <2>10. Typed'
    <3>1. in_buffers' \in [Icnt!Nets -> [Icnt!Nodes -> Seq(Icnt!PacketSet)]]
      BY <1>2, <1>5, <2>2, <2>9
    <3>2. Icnt!IcntTypeOK'
      BY <1>1, <3>1 DEF Icnt!IcntTypeOK
    <3>3. m_miss_queue' \in [Sm -> Seq(MemFetch)]
      BY <1>5, <2>2, <2>3
    <3> QED BY <1>1, <3>2, <3>3 DEF Typed, l2Vars
  <2>11. HomedSm'
    <3>1. \A n \in Sm : Within(m_miss_queue'[n]) \subseteq Within(m_miss_queue[n])
      BY <2>3, <2>8
    <3> QED BY <1>1, <3>1 DEF HomedSm
  <2>12. HomedIcnt'
    <3>1. ASSUME NEW n \in Sm, NEW x \in Within(in_buffers'[Q][n])
          PROVE  m_sm_id[x.data] = n /\ x.output_deviceID = Slice
      <4>1. CASE n = s
        <5>1. x \in Within(in_buffers[Q][s]) \/ x = p
          BY <2>8, <2>9, <3>1, <4>1
        <5>2. ASSUME x \in Within(in_buffers[Q][s])
              PROVE  m_sm_id[x.data] = s /\ x.output_deviceID = Slice
          BY <1>1, <5>2 DEF HomedIcnt
        <5>3. m_sm_id[p.data] = s /\ p.output_deviceID = Slice
          BY <2>4, <2>5
        <5> QED BY <4>1, <5>1, <5>2, <5>3
      <4>2. CASE n # s
        <5>1. in_buffers'[Q][n] = in_buffers[Q][n]
          BY <1>2, <2>8, <4>2
        <5> QED BY <1>1, <3>1, <5>1 DEF HomedIcnt
      <4> QED BY <4>1, <4>2
    <3>2. /\ \A n \in Sm : in_buffers'[P][n] = in_buffers[P][n]
          /\ in_buffers'[Q][Slice] = in_buffers[Q][Slice]
          /\ in_buffers'[P][Slice] = in_buffers[P][Slice]
      BY <1>2, <2>8
    <3> QED BY <1>1, <3>1, <3>2 DEF HomedIcnt
  <2>13. ASSUME NEW mf \in MemFetch PROVE Below(mf)' = Below(mf)
    <3>1. CountsNat /\ CountsNat'
      BY <1>1, <1>4, <2>10, CountsNow, CountsNext
    <3>2. Missed(mf)' + Sent(mf)' = Missed(mf) + Sent(mf)
      <4>1. CASE m_sm_id[mf] = s
        <5>1. Missed(mf) = Missed(mf)' + (IF m = mf THEN 1 ELSE 0)
          BY <2>7, <2>8, <4>1 DEF Missed
        <5>2. Sent(mf)' = Sent(mf) + (IF m = mf THEN 1 ELSE 0)
          <6>1. Times(Carried(Append(in_buffers[Q][s], p)), mf)
                  = Times(Carried(in_buffers[Q][s]), mf) + (IF p.data = mf THEN 1 ELSE 0)
            BY <2>5, <2>6, CarriedAppend
          <6> QED BY <2>5, <2>8, <4>1, <6>1 DEF Sent
        <5> QED BY <3>1, <5>1, <5>2 DEF CountsNat
      <4>2. CASE m_sm_id[mf] # s
        <5>1. Missed(mf)' = Missed(mf)
          BY <2>8, <4>2, RequestHome DEF Missed
        <5>2. Sent(mf)' = Sent(mf)
          BY <1>2, <2>8, <4>2, RequestHome DEF Sent
        <5> QED BY <5>1, <5>2
      <4> QED BY <4>1, <4>2
    <3>3. /\ Arriving(mf)' = Arriving(mf) /\ Returning(mf)' = Returning(mf)
          /\ Looking(mf)' = Looking(mf) /\ Answering(mf)' = Answering(mf) /\ Popping(mf)' = Popping(mf)
      BY <1>1 DEF Arriving, Returning, Looking, Answering, Popping, l2Vars
    <3>4. Answered(mf)' = Answered(mf)
      BY <1>2, <2>8 DEF Answered
    <3> QED BY <3>1, <3>2, <3>3, <3>4 DEF CountsNat
  <2>14. Tallies'
    BY <1>1, <2>13, CarriedOn DEF MInv, Tallies
  <2> QED BY <1>4, <2>10, <2>11, <2>12, <2>14 DEF MInv, Tallies
<1> QED BY <1>6, <1>7

\* An SM is done for this cycle.
LEMMA ReturnsStep == ASSUME NEW s \in Sm PROVE MInv /\ SmReturns(s) => MInv'
<1> SUFFICES ASSUME MInv, SmReturns(s) PROVE MInv'
  OBVIOUS
<1>1. /\ Icnt!IcntTypeOK /\ Typed /\ HomedSm /\ HomedIcnt /\ Flying
      /\ step = <<"schedule_warp", 0>> /\ turn' # <<"end", 0>>
      /\ UNCHANGED <<cycles, reply, m_miss_queue, l1_mshrs, m_queue_sm_to_l1, l1_to_sm, unit,
                     pending_request, completed, unissued, l2Vars, in_buffers, out_buffers,
                     next_node_id, gpu_sim_cycles>>
  BY DEF MInv, Typed, SmReturns, Return, At
<1>2. reply = {}
  BY <1>1 DEF MInv, ReplyHere
<1>3. ReplyHere' /\ EndsIdle' /\ Flying' /\ EntryAnswered'
  BY <1>1, <1>2 DEF MInv, ReplyHere, EndsIdle, Flying, EntryAnswered, l2Vars
<1>4. Icnt!IcntTypeOK'
  BY <1>1 DEF Icnt!IcntTypeOK
<1>5. Typed'
  BY <1>1, <1>4 DEF Typed, l2Vars
<1>6. HomedSm' /\ HomedIcnt'
  BY <1>1 DEF HomedSm, HomedIcnt
<1>7. \A mf \in MemFetch : Below(mf)' = Below(mf)
  BY <1>1 DEF Below, l2Vars
<1>8. Tallies'
  BY <1>1, <1>7, CarriedOn DEF MInv, Tallies
<1> QED BY <1>3, <1>5, <1>6, <1>8 DEF MInv, Tallies

\* The loop ends, when no instruction waits or is under way.
LEMMA EndStep == MInv /\ WritesOK /\ EndKernel => MInv'
<1> SUFFICES ASSUME MInv, WritesOK, EndKernel PROVE MInv'
  OBVIOUS
<1>1. /\ Icnt!IcntTypeOK /\ Typed /\ HomedSm /\ HomedIcnt /\ Flying
      /\ turn = <<"slice", 0>> /\ turn' = <<"end", 0>> /\ ~Running
      /\ gpu_sim_cycles' = gpu_sim_cycles + stg_cycles
      /\ UNCHANGED <<smVars, l2Vars, in_buffers, out_buffers, next_node_id>>
  BY DEF MInv, Typed, EndKernel
<1>2. stg_cycles \in Nat
  BY WritesCovered
<1>3. reply = {}
  BY <1>1 DEF MInv, ReplyHere
<1>4. ~Running'
  BY <1>1 DEF Running, UnderWay, smVars
<1>5. ReplyHere' /\ EndsIdle' /\ EntryAnswered'
  BY <1>1, <1>3, <1>4 DEF MInv, ReplyHere, EndsIdle, EntryAnswered, smVars, l2Vars
<1>6. Flying'
  BY <1>1, <1>2 DEF Flying, Typed, l2Vars
<1>7. Icnt!IcntTypeOK'
  BY <1>1 DEF Icnt!IcntTypeOK
<1>8. Typed'
  BY <1>1, <1>2, <1>7 DEF Typed, l2Vars, smVars
<1>9. HomedSm' /\ HomedIcnt'
  BY <1>1 DEF HomedSm, HomedIcnt, smVars
<1>10. \A mf \in MemFetch : Below(mf)' = Below(mf)
  BY <1>1 DEF Below, l2Vars, smVars
<1>11. Tallies'
  BY <1>1, <1>10, CarriedOn DEF MInv, Tallies, smVars
<1> QED BY <1>5, <1>6, <1>8, <1>9, <1>11 DEF MInv, Tallies

-----------------------------------------------------------------------------
(* A cycle of the slice: the answers that are due.                         *)

\* Each answer has a place of its own among those of a cycle.
LEMMA AnswerRanks ==
    ASSUME NEW A, IsFiniteSet(A), \A e \in A : e.at \in Nat,
           \A e, f \in A : e.at = f.at => e = f
    PROVE  /\ Cardinality(A) \in Nat
           /\ \A k \in 1 .. Cardinality(A) :
                 NthAnswer(A, k) \in A /\ Cardinality(Earlier(A, NthAnswer(A, k))) = k - 1
           /\ \A e \in A : \E k \in 1 .. Cardinality(A) : NthAnswer(A, k) = e
<1> DEFINE N == Cardinality(A)
           f == [e \in A |-> Cardinality(Earlier(A, e))]
           S == 0 .. N - 1
<1>1. N \in Nat
  BY FS_CardinalityType
<1>2. ASSUME NEW e \in A PROVE f[e] \in S /\ f[e] \in Nat /\ IsFiniteSet(Earlier(A, e))
  <2> DEFINE E == Earlier(A, e)
  <2>1. E \in SUBSET A /\ e \notin E
    BY DEF Earlier
  <2> HIDE DEF E
  <2>2. IsFiniteSet(E) /\ Cardinality(E) \in Nat /\ Cardinality(E) <= N /\ Cardinality(E) # N
    BY <2>1, FS_Subset, FS_CardinalityType
  <2> QED BY <1>1, <2>2 DEF E
<1>3. ASSUME NEW e \in A, NEW g \in A, e.at < g.at PROVE f[e] < f[g]
  <2> DEFINE E == Earlier(A, e)
             G == Earlier(A, g)
  <2>1. E \in SUBSET G /\ e \in G /\ e \notin E
    BY <1>3 DEF Earlier
  <2>2. f[e] = Cardinality(E) /\ f[g] = Cardinality(G) /\ f[e] \in Nat /\ f[g] \in Nat /\ IsFiniteSet(G)
    BY <1>2
  <2> HIDE DEF E, G, f
  <2>3. Cardinality(E) <= Cardinality(G) /\ Cardinality(E) # Cardinality(G)
    BY <2>1, <2>2, FS_Subset
  <2> QED BY <2>2, <2>3
<1>4. \A e, g \in A : f[e] = f[g] => e = g
  <2> SUFFICES ASSUME NEW e \in A, NEW g \in A, f[e] = f[g] PROVE e = g
    OBVIOUS
  <2>1. f[e] \in Nat /\ f[g] \in Nat
    BY <1>2
  <2>2. ~(f[e] < f[g]) /\ ~(f[g] < f[e])
    <3> HIDE DEF f
    <3> QED BY <2>1
  <2>3. ~(e.at < g.at) /\ ~(g.at < e.at)
    BY <1>3, <2>2
  <2> QED BY <2>3
<1>5. f \in [A -> S]
  BY <1>2
<1>6. IsFiniteSet(S) /\ Cardinality(S) = N
  <2>1. 0 \in Int /\ N - 1 \in Int
    BY <1>1
  <2>2. IsFiniteSet(0 .. N - 1) /\ Cardinality(0 .. N - 1) = IF 0 > N - 1 THEN 0 ELSE N - 1 - 0 + 1
    BY <2>1, FS_Interval
  <2> QED BY <1>1, <2>2
<1>7. \A j \in S : \E e \in A : f[e] = j
  <2> HIDE DEF f, S
  <2>1. f \in Injection(A, S)
    BY <1>4, <1>5 DEF Injection, IsInjective
  <2>2. f \in Surjection(A, S)
    BY <1>6, <2>1, FS_Injection
  <2> QED BY <2>2 DEF Surjection
<1>8. ASSUME NEW k \in 1 .. N
      PROVE  NthAnswer(A, k) \in A /\ Cardinality(Earlier(A, NthAnswer(A, k))) = k - 1
  <2>1. k - 1 \in S
    BY <1>1
  <2>2. \E e \in A : Cardinality(Earlier(A, e)) = k - 1
    BY <1>7, <2>1
  <2> QED BY <2>2 DEF NthAnswer
<1>9. ASSUME NEW e \in A PROVE \E k \in 1 .. N : NthAnswer(A, k) = e
  <2> DEFINE k == f[e] + 1
  <2>1. k \in 1 .. N /\ k - 1 = f[e]
    BY <1>1, <1>2
  <2> HIDE DEF k
  <2>2. NthAnswer(A, k) \in A /\ Cardinality(Earlier(A, NthAnswer(A, k))) = f[e]
    BY <1>8, <2>1
  <2>3. f[NthAnswer(A, k)] = f[e]
    BY <2>2
  <2>4. NthAnswer(A, k) = e
    BY <1>4, <2>2, <2>3
  <2> QED BY <2>1, <2>4
<1> QED BY <1>1, <1>8, <1>9

\* So each answer that is due is pushed once, to the SM of its request.
LEMMA RepliesFacts ==
    ASSUME Flying, NEW now
    PROVE  /\ Replies(now) \in Seq(Icnt!PacketSet)
           /\ \A p \in Within(Replies(now)) : p.output_deviceID = m_sm_id[p.data]
           /\ \A mf : Times(Carried(Replies(now)), mf) = Cardinality({e \in Returned(now) : e.mf = mf})
<1> DEFINE A == Returned(now)
           N == Cardinality(A)
           R == Replies(now)
           C == Carried(R)
           Nth(k) == NthAnswer(A, k)
<1>1. /\ IsFiniteSet(A) /\ A \subseteq l2_to_sm
      /\ \A e \in A : e.mf \in MemFetch /\ e.at \in Nat
      /\ \A e, f \in A : e.at = f.at => e = f
  <2>1. A \in SUBSET l2_to_sm
    BY DEF Returned
  <2> HIDE DEF A
  <2>2. IsFiniteSet(A)
    BY <2>1, FS_Subset DEF Flying
  <2> QED BY <2>1, <2>2 DEF Flying
<1> HIDE DEF A
<1>2. /\ N \in Nat
      /\ \A k \in 1 .. N : Nth(k) \in A /\ Cardinality(Earlier(A, Nth(k))) = k - 1
      /\ \A e \in A : \E k \in 1 .. N : Nth(k) = e
  BY <1>1, AnswerRanks
<1>3. R = [k \in 1 .. N |-> Icnt!Packet(Nth(k).mf, m_sm_id[Nth(k).mf])]
  BY DEF Replies, A
<1> HIDE DEF R, Nth
<1>4. ASSUME NEW k \in 1 .. N
      PROVE  /\ R[k] \in Icnt!PacketSet /\ R[k].data = Nth(k).mf
             /\ R[k].output_deviceID = m_sm_id[R[k].data]
  <2>1. R[k] = Icnt!Packet(Nth(k).mf, m_sm_id[Nth(k).mf]) /\ Nth(k).mf \in MemFetch
    BY <1>1, <1>2, <1>3
  <2>2. m_sm_id[Nth(k).mf] \in Icnt!Nodes
    BY <2>1, RequestHome, Devices
  <2> QED BY <2>1, <2>2 DEF Icnt!Packet, Icnt!PacketSet
<1>5. R \in Seq(Icnt!PacketSet) /\ DOMAIN R = 1 .. N
  BY <1>2, <1>3, <1>4
<1>6. \A p \in Within(R) : p.output_deviceID = m_sm_id[p.data]
  BY <1>4, <1>5 DEF Within
<1>7. ASSUME NEW mf PROVE Times(C, mf) = Cardinality({e \in A : e.mf = mf})
  <2> DEFINE K == {k \in DOMAIN C : C[k] = mf}
             F == {e \in A : e.mf = mf}
             g == [k \in K |-> Nth(k)]
  <2>1. DOMAIN C = 1 .. N /\ \A k \in 1 .. N : C[k] = Nth(k).mf
    BY <1>4, <1>5 DEF Carried
  <2>2. K = {k \in 1 .. N : Nth(k).mf = mf}
    BY <2>1
  <2>3. \A k \in K : g[k] \in F
    BY <1>2, <2>2
  <2>4. \A k, l \in K : g[k] = g[l] => k = l
    <3> SUFFICES ASSUME NEW k \in K, NEW l \in K, g[k] = g[l] PROVE k = l
      OBVIOUS
    <3>1. k \in 1 .. N /\ l \in 1 .. N /\ Nth(k) = Nth(l)
      BY <2>2
    <3>2. k - 1 = l - 1
      BY <1>2, <3>1
    <3> QED BY <1>2, <3>1, <3>2
  <2>5. \A e \in F : \E k \in K : g[k] = e
    BY <1>2, <2>2
  <2>6. IsFiniteSet(K)
    <3>1. IsFiniteSet(1 .. N)
      BY <1>2, FS_Interval
    <3> DEFINE I == 1 .. N
    <3>2. K \in SUBSET I /\ IsFiniteSet(I)
      BY <2>2, <3>1
    <3> HIDE DEF K, I
    <3> QED BY <3>2, FS_Subset
  <2>7. Times(C, mf) = Cardinality(K)
    BY DEF Times
  <2>8. g = [k \in K |-> g[k]]
    OBVIOUS
  <2> HIDE DEF K, F, g, C
  <2>9. g \in Injection(K, F) /\ g \in Surjection(K, F)
    BY <2>3, <2>4, <2>5, <2>8 DEF Injection, Surjection, IsInjective
  <2>10. Cardinality(K) = Cardinality(F)
    BY <2>6, <2>9, FS_Surjection
  <2> QED BY <2>7, <2>10 DEF F
<1> QED BY <1>5, <1>6, <1>7 DEF A, R

\* An answer that is no L2 hit releases the entry of its sector.
LEMMA ReturnedEntries ==
    ASSUME Typed, Flying, NEW now
    PROVE  /\ MshrsAfterReturn(now) \in [SectorAddr -> Seq(MemFetch)]
           /\ \A x \in SectorAddr : MshrsAfterReturn(now)[x] # <<>> =>
                 /\ l2_mshrs[x] # <<>>
                 /\ \A e \in Returned(now) : m_sector_address(e.mf) = x => m_status[e.mf] = L2_HIT
<1> DEFINE m == MshrsAfterReturn(now)
<1>1. m \in [SectorAddr -> Seq(MemFetch)] /\ \A x \in SectorAddr : m[x] \in {<<>>, l2_mshrs[x]}
  BY DEF MshrsAfterReturn, Typed
<1>2. ASSUME NEW x \in SectorAddr, m[x] # <<>>, NEW e \in Returned(now),
             m_sector_address(e.mf) = x, m_status[e.mf] # L2_HIT
      PROVE  FALSE
  <2>1. mshr_probe(l2_mshrs, x)
    BY <1>1, <1>2 DEF mshr_probe
  <2> DEFINE missed == {f \in Returned(now) : /\ m_status[f.mf] # L2_HIT
                                              /\ mshr_probe(l2_mshrs, m_sector_address(f.mf))}
             mine   == {f \in missed : m_sector_address(f.mf) = x}
             times  == {f.at : f \in mine}
  <2>2. e \in mine
    BY <1>2, <2>1
  <2>3. \A f \in l2_to_sm : f.at \in Nat
    BY DEF Flying
  <2>4. times \in SUBSET Nat /\ times # {}
    BY <2>2, <2>3 DEF Returned
  <2>5. PICK n \in times : \A k \in times : n <= k
    <3> HIDE DEF times
    <3> QED BY <2>4, Least
  <2>6. PICK f \in mine : f.at = n
    BY <2>5
  <2>7. f \in Releasing(now)
    <3>1. \A g \in missed : m_sector_address(g.mf) = m_sector_address(f.mf) => f.at <= g.at
      BY <2>5, <2>6
    <3> QED BY <2>6, <3>1 DEF Releasing
  <2>8. m[x] = <<>>
    BY <2>6, <2>7 DEF MshrsAfterReturn
  <2> QED BY <1>2, <2>8
<1> QED BY <1>1, <1>2

\* What a cycle does to the queue, the answers and the table, leaving out
\* the tags: the lookup fails or there is none, or the request in front gets
\* its answer, and may join the table.
Stays(now, popped) ==
    /\ m_l1_to_l2' = Queue(popped)
    /\ l2_to_sm' = l2_to_sm \ Returned(now)
    /\ m_status' = m_status
    /\ l2_mshrs' = MshrsAfterReturn(now)

Leaves(now, popped, status) ==
    /\ Queue(popped) # <<>>
    /\ \E latency : Answer(now, popped, status, latency)
    /\ \/ l2_mshrs' = MshrsAfterReturn(now)
       \/ /\ status = L2_MISS
          /\ l2_mshrs' = mshr_add(MshrsAfterReturn(now), m_sector_address(FrontRequest(popped)),
                                  FrontRequest(popped))

LEMMA SliceOutcomes ==
    ASSUME Typed, NEW popped, popped = {} \/ \E mf \in MemFetch : popped = {mf}, NEW now,
           l2_cache_cycle(now, popped)
    PROVE  /\ Queue(popped) \in Seq(MemFetch)
           /\ \A mf : Times(Queue(popped), mf) = Looking(mf) + Cardinality(popped \cap {mf})
           /\ Stays(now, popped) \/ \E status \in {L2_HIT, L2_MISS} : Leaves(now, popped, status)
<1>1. /\ Queue(popped) \in Seq(MemFetch)
      /\ \A mf : Times(Queue(popped), mf) = Looking(mf) + Cardinality(popped \cap {mf})
      /\ Queue(popped) = <<>> => Queue(popped) = m_l1_to_l2
  <2>1. m_l1_to_l2 \in Seq(MemFetch)
    BY DEF Typed
  <2>2. CASE popped = {}
    <3>1. Queue(popped) = m_l1_to_l2
      BY <2>2 DEF Queue
    <3>2. ASSUME NEW mf PROVE Times(Queue(popped), mf) = Looking(mf) + Cardinality(popped \cap {mf})
      <4>1. Cardinality(popped \cap {mf}) = 0
        BY <2>2, FS_EmptySet
      <4>2. Times(m_l1_to_l2, mf) \in Nat
        BY <2>1, TimesFacts
      <4> QED BY <3>1, <4>1, <4>2 DEF Looking
    <3> QED BY <2>1, <3>1, <3>2
  <2>3. CASE popped # {}
    <3>1. PICK m \in MemFetch : popped = {m}
      BY <2>3
    <3>2. Queue(popped) = Append(m_l1_to_l2, m)
      BY <3>1 DEF Queue
    <3>3. Append(m_l1_to_l2, m) \in Seq(MemFetch) /\ Append(m_l1_to_l2, m) # <<>>
      BY <2>1, AppendWithin
    <3>4. ASSUME NEW mf PROVE Times(Queue(popped), mf) = Looking(mf) + Cardinality(popped \cap {mf})
      <4>1. Times(Append(m_l1_to_l2, m), mf) = Times(m_l1_to_l2, mf) + (IF m = mf THEN 1 ELSE 0)
        BY <2>1, TimesAppend
      <4>2. Cardinality(popped \cap {mf}) = IF m = mf THEN 1 ELSE 0
        BY <3>1, OneOrNone
      <4> QED BY <3>2, <4>1, <4>2 DEF Looking
    <3> QED BY <3>2, <3>3, <3>4
  <2> QED BY <2>2, <2>3
<1>2. CASE Queue(popped) = <<>>
  BY <1>1, <1>2 DEF l2_cache_cycle, NoLookup, Stays
<1>3. CASE Queue(popped) # <<>>
  <2>1. Lookup(now, popped)
    BY <1>3 DEF l2_cache_cycle
  <2>2. Stays(now, popped) \/ \E status \in {L2_HIT, L2_MISS} : Leaves(now, popped, status)
    <3>1. CASE StoreHit(now, popped)
      BY <1>3, <3>1 DEF StoreHit, Leaves
    <3>2. CASE StoreIdle(now, popped)
      BY <1>3, <3>2 DEF StoreIdle, Leaves
    <3>3. CASE StoreMiss(now, popped)
      BY <1>3, <3>3 DEF StoreMiss, Leaves
    <3>4. CASE LoadHit(now, popped)
      BY <1>3, <3>4 DEF LoadHit, Leaves
    <3>5. CASE LoadMiss(now, popped)
      BY <1>3, <3>5 DEF LoadMiss, Leaves
    <3>6. CASE LookupFails(now, popped)
      BY <3>6 DEF LookupFails, Stays
    <3> QED BY <2>1, <3>1, <3>2, <3>3, <3>4, <3>5, <3>6 DEF Lookup
  <2> QED BY <1>1, <2>2
<1> QED BY <1>1, <1>2, <1>3

\* No request is below twice.
LEMMA BelowOnce ==
    ASSUME Typed, Flying, LoadsBelow, OutOnce, NEW mf \in MemFetch
    PROVE  Below(mf) <= 1
<1>1. CountsNat
  BY CountsNow
<1>2. CASE is_write[mf]
  <2>1. Out(mf) <= 1 /\ Out(mf) = Banked(mf) + Hitting(mf) + Below(mf)
    BY <1>2 DEF OutOnce, Out
  <2> QED BY <1>1, <2>1 DEF CountsNat
<1>3. CASE ~is_write[mf]
  BY <1>3 DEF LoadsBelow
<1> QED BY <1>2, <1>3

\* What leaves and what joins the answers on the way.
LEMMA AnswersCount ==
    ASSUME Typed, Flying, NEW now, now = gpu_sim_cycles + 1, NEW mf
    PROVE  /\ IsFiniteSet(l2_to_sm \ Returned(now))
           /\ Cardinality({e \in l2_to_sm \ Returned(now) : e.mf = mf}) \in Nat
           /\ Cardinality({e \in Returned(now) : e.mf = mf}) \in Nat
           /\ Answering(mf) = Cardinality({e \in l2_to_sm \ Returned(now) : e.mf = mf})
                               + Cardinality({e \in Returned(now) : e.mf = mf})
<1> DEFINE A == {e \in l2_to_sm \ Returned(now) : e.mf = mf}
           B == {e \in Returned(now) : e.mf = mf}
           C == {e \in l2_to_sm : e.mf = mf}
<1>1. /\ A \in SUBSET l2_to_sm /\ B \in SUBSET l2_to_sm /\ (l2_to_sm \ Returned(now)) \in SUBSET l2_to_sm
      /\ C = A \cup B /\ A \cap B = {}
  BY DEF Returned
<1>2. IsFiniteSet(l2_to_sm)
  BY DEF Flying
<1>3. Answering(mf) = Cardinality(C)
  BY DEF Answering
<1>4. IsFiniteSet(l2_to_sm \ Returned(now))
  BY <1>1, <1>2, FS_Subset
<1> HIDE DEF A, B, C
<1>5. IsFiniteSet(A) /\ IsFiniteSet(B) /\ Cardinality(A) \in Nat /\ Cardinality(B) \in Nat
  BY <1>1, <1>2, FS_Subset, FS_CardinalityType
<1>6. Cardinality(C) = Cardinality(A) + Cardinality(B)
  <2>1. Cardinality(A \cup B) = Cardinality(A) + Cardinality(B) - Cardinality(A \cap B)
    BY <1>5, FS_Union
  <2>2. Cardinality(A \cap B) = 0
    BY <1>1, FS_EmptySet
  <2> QED BY <1>1, <1>5, <2>1, <2>2
<1> QED BY <1>3, <1>4, <1>5, <1>6 DEF A, B

LEMMA AnswerAdded ==
    ASSUME Typed, Flying, NEW mf, NEW a, a.at = gpu_sim_cycles + 1
    PROVE  LET left == l2_to_sm \ Returned(gpu_sim_cycles + 1) IN
           Cardinality({e \in left \cup {a} : e.mf = mf})
             = Cardinality({e \in left : e.mf = mf}) + (IF a.mf = mf THEN 1 ELSE 0)
<1> DEFINE left == l2_to_sm \ Returned(gpu_sim_cycles + 1)
           A == {e \in left : e.mf = mf}
           B == {e \in left \cup {a} : e.mf = mf}
<1>1. a \notin left
  <2>1. \A e \in l2_to_sm : e.at \in Nat /\ e.at <= gpu_sim_cycles /\ gpu_sim_cycles \in Nat
    BY DEF Flying, Typed
  <2>2. \A e \in l2_to_sm : e.at # gpu_sim_cycles + 1
    BY <2>1
  <2> QED BY <2>2
<1>2. A \in SUBSET l2_to_sm
  OBVIOUS
<1> HIDE DEF left
<1>3. /\ a.mf = mf => B = A \cup {a} /\ a \notin A
      /\ a.mf # mf => B = A
  BY <1>1
<1> HIDE DEF A, B
<1>4. IsFiniteSet(A) /\ Cardinality(A) \in Nat
  <2>1. IsFiniteSet(l2_to_sm)
    BY DEF Flying
  <2> QED BY <1>2, <2>1, FS_Subset, FS_CardinalityType
<1>5. Cardinality(B) = Cardinality(A) + (IF a.mf = mf THEN 1 ELSE 0)
  <2>1. CASE a.mf = mf
    <3>1. Cardinality(A \cup {a}) = Cardinality(A) + 1
      BY <1>3, <1>4, <2>1, FS_AddElement
    <3> QED BY <1>3, <2>1, <3>1
  <2>2. CASE a.mf # mf
    BY <1>3, <1>4, <2>2
  <2> QED BY <2>1, <2>2
<1> QED BY <1>5 DEF A, B, left

\* What the slice answers to and pushes was below before, and is now.
LEMMA SliceStep == MInv /\ SliceCycle => MInv'
<1> SUFFICES ASSUME MInv, SliceCycle PROVE MInv'
  OBVIOUS
<1> DEFINE Q == Icnt!REQ_NET
           P == Icnt!REPLY_NET
           now == gpu_sim_cycles + 1
           popped == PoppedBy(Slice)
           q == Queue(popped)
           R == Replies(now)
           Left(mf) == Cardinality({e \in l2_to_sm \ Returned(now) : e.mf = mf})
           Due(mf) == Cardinality({e \in Returned(now) : e.mf = mf})
<1>1. /\ Icnt!IcntTypeOK /\ Typed /\ HomedSm /\ HomedIcnt /\ Flying /\ EntryAnswered
      /\ turn = <<"slice", 0>> /\ turn' = <<"icnt", 0>> /\ gpu_sim_cycles' = now
      /\ Icnt!Pop(Slice) /\ l2_cache_cycle(now, popped)
      /\ UNCHANGED <<smVars, next_node_id>>
  BY DEF MInv, Typed, SliceCycle
<1>2. /\ Slice \in Icnt!Nodes /\ Icnt!PushNet(Slice) = P /\ Icnt!PopNet(Slice) = Q
      /\ P \in Icnt!Nets /\ Q \in Icnt!Nets /\ Q # P /\ Sm \subseteq Icnt!Nodes /\ Slice \notin Sm
  BY Devices
<1>3. in_buffers' = [in_buffers EXCEPT ![P][Slice] = @ \o R]
  BY <1>2 DEF SliceCycle
<1>4. /\ out_buffers' \in [Icnt!Nets -> [Icnt!Nodes -> Seq(Icnt!PacketSet)]]
      /\ \A r \in Icnt!Nets, n \in Icnt!Nodes :
            Within(out_buffers'[r][n]) \subseteq Within(out_buffers[r][n])
      /\ \A r \in Icnt!Nets, n \in Icnt!Nodes :
            r # Q \/ n # Slice => out_buffers'[r][n] = out_buffers[r][n]
      /\ \/ popped = {}
         \/ \E p \in Within(out_buffers[Q][Slice]) : popped = {p.data}
      /\ \A mf : Times(Carried(out_buffers[Q][Slice]), mf)
                   = Times(Carried(out_buffers'[Q][Slice]), mf) + Cardinality(popped \cap {mf})
  BY <1>1, <1>2, PopEffect
<1>5. /\ in_buffers \in [Icnt!Nets -> [Icnt!Nodes -> Seq(Icnt!PacketSet)]]
      /\ out_buffers \in [Icnt!Nets -> [Icnt!Nodes -> Seq(Icnt!PacketSet)]]
      /\ in_buffers[P][Slice] \in Seq(Icnt!PacketSet) /\ out_buffers[Q][Slice] \in Seq(Icnt!PacketSet)
      /\ gpu_sim_cycles \in Nat /\ now \in Nat
  BY <1>1, <1>2 DEF Typed, Icnt!IcntTypeOK
<1>6. popped = {} \/ \E mf \in MemFetch : popped = {mf}
  <2>1. \A p \in Within(out_buffers[Q][Slice]) : p.data \in MemFetch
    <3> DEFINE a == out_buffers[Q][Slice]
    <3>1. a \in Seq(Icnt!PacketSet)
      BY <1>5
    <3> HIDE DEF a
    <3>2. \A p \in Within(a) : p \in Icnt!PacketSet
      BY <3>1 DEF Within
    <3>3. \A p \in Within(a) : p.data \in MemFetch
      BY <3>2 DEF Icnt!PacketSet
    <3> QED BY <3>3 DEF a
  <2> QED BY <1>4, <2>1
<1>7. /\ R \in Seq(Icnt!PacketSet)
      /\ \A p \in Within(R) : p.output_deviceID = m_sm_id[p.data]
      /\ \A mf : Times(Carried(R), mf) = Due(mf)
  BY <1>1, RepliesFacts
<1> HIDE DEF R, now, popped
<1>8. /\ q \in Seq(MemFetch)
      /\ \A mf : Times(q, mf) = Looking(mf) + Cardinality(popped \cap {mf})
      /\ Stays(now, popped) \/ \E status \in {L2_HIT, L2_MISS} : Leaves(now, popped, status)
  BY <1>1, <1>6, SliceOutcomes
<1>9. /\ in_buffers'[P][Slice] = in_buffers[P][Slice] \o R
      /\ \A r \in Icnt!Nets, n \in Icnt!Nodes : r # P \/ n # Slice => in_buffers'[r][n] = in_buffers[r][n]
  BY <1>2, <1>3, <1>5
<1>10. in_buffers[P][Slice] \o R \in Seq(Icnt!PacketSet)
  BY <1>5, <1>7
<1>11. Icnt!IcntTypeOK'
  <2>1. in_buffers' \in [Icnt!Nets -> [Icnt!Nodes -> Seq(Icnt!PacketSet)]]
    BY <1>2, <1>3, <1>5, <1>10
  <2> QED BY <1>1, <1>4, <2>1 DEF Icnt!IcntTypeOK
<1>12. reply = {}
  BY <1>1 DEF MInv, ReplyHere
<1>13. ReplyHere' /\ EndsIdle'
  BY <1>1, <1>12 DEF ReplyHere, EndsIdle, smVars
<1>14. HomedSm'
  BY <1>1 DEF HomedSm, smVars
<1>15. HomedIcnt'
  <2>1. ASSUME NEW p \in Within(in_buffers'[P][Slice]) PROVE p.output_deviceID = m_sm_id[p.data]
    <3> DEFINE a == in_buffers[P][Slice]
    <3>1. a \in Seq(Icnt!PacketSet) /\ R \in Seq(Icnt!PacketSet) /\ p \in Within(a \o R)
      BY <1>5, <1>7, <1>9, <2>1
    <3> HIDE DEF a
    <3>2. p \in Within(a) \/ p \in Within(R)
      BY <3>1 DEF Within
    <3> QED BY <1>1, <1>7, <3>2 DEF HomedIcnt, a
  <2>2. \A s \in Sm : /\ in_buffers'[Q][s] = in_buffers[Q][s] /\ in_buffers'[P][s] = in_buffers[P][s]
                      /\ Within(out_buffers'[P][s]) \subseteq Within(out_buffers[P][s])
    BY <1>2, <1>4, <1>9
  <2>3. in_buffers'[Q][Slice] = in_buffers[Q][Slice]
    BY <1>2, <1>9
  <2> QED BY <1>1, <2>1, <2>2, <2>3 DEF HomedIcnt
<1>16. ASSUME NEW mf \in MemFetch, Looking(mf)' \in Nat, Answering(mf)' \in Nat,
              Looking(mf)' + Answering(mf)' = Times(q, mf) + Left(mf)
       PROVE  Missed(mf)' + Sent(mf)' + Arriving(mf)' + Looking(mf)' + Answering(mf)' + Answered(mf)'
                + Returning(mf)' + Popping(mf)' = Below(mf)
  <2>1. CountsNat
    BY <1>1, CountsNow
  <2>2. /\ Left(mf) \in Nat /\ Due(mf) \in Nat /\ Answering(mf) = Left(mf) + Due(mf)
    BY <1>1, AnswersCount DEF now
  <2>3. Answered(mf)' = Answered(mf) + Due(mf)
    <3>1. Times(Carried(in_buffers[P][Slice] \o R), mf)
            = Times(Carried(in_buffers[P][Slice]), mf) + Times(Carried(R), mf)
      <4> DEFINE a == in_buffers[P][Slice]
      <4>1. a \in Seq(Icnt!PacketSet) /\ R \in Seq(Icnt!PacketSet)
        BY <1>5, <1>7
      <4> HIDE DEF a
      <4>2. Carried(a \o R) = Carried(a) \o Carried(R)
        BY <4>1, CarriedConcat
      <4>3. Carried(a) \in Seq(MemFetch) /\ Carried(R) \in Seq(MemFetch)
        BY <4>1, CarriedFacts
      <4>4. Times(Carried(a) \o Carried(R), mf) = Times(Carried(a), mf) + Times(Carried(R), mf)
        BY <4>3, TimesConcat
      <4> QED BY <4>2, <4>4 DEF a
    <3> QED BY <1>7, <1>9, <3>1 DEF Answered
  <2>4. Arriving(mf) = Arriving(mf)' + Cardinality(popped \cap {mf})
    BY <1>4 DEF Arriving
  <2>5. Times(q, mf) = Looking(mf) + Cardinality(popped \cap {mf})
    BY <1>8
  <2>6. Missed(mf)' = Missed(mf) /\ Popping(mf)' = Popping(mf)
    BY <1>1 DEF Missed, Popping, smVars
  <2>7. Sent(mf)' = Sent(mf) /\ Returning(mf)' = Returning(mf)
    BY <1>2, <1>4, <1>9, RequestHome DEF Sent, Returning
  <2>8. Arriving(mf)' \in Nat /\ Cardinality(popped \cap {mf}) \in Nat
    <3>1. out_buffers'[Q][Slice] \in Seq(Icnt!PacketSet)
      BY <1>2, <1>4
    <3>2. Arriving(mf)' = Times(Carried(out_buffers'[Q][Slice]), mf)
      BY DEF Arriving
    <3>3. Arriving(mf)' \in Nat
      BY <3>1, <3>2, CarriedNat
    <3>4. IsFiniteSet(popped \cap {mf})
      BY FS_Singleton, FS_Subset
    <3> QED BY <3>3, <3>4, FS_CardinalityType
  <2> HIDE DEF q, Left, Due
  <2> QED BY <1>16, <2>1, <2>2, <2>3, <2>4, <2>5, <2>6, <2>7, <2>8 DEF CountsNat
<1>17. ASSUME Typed', Flying', EntryAnswered',
              \A mf \in MemFetch : Looking(mf)' + Answering(mf)' = Times(q, mf) + Left(mf)
       PROVE  MInv'
  <2>1. ASSUME NEW mf \in MemFetch PROVE Below(mf)' = Below(mf)
    <3>1. CountsNat'
      BY <1>17, CountsNext
    <3> HIDE DEF q, Left, Due
    <3> QED BY <1>16, <1>17, <3>1 DEF CountsNat
  <2>2. Tallies'
    BY <1>1, <2>1, CarriedOn DEF MInv, Tallies, smVars
  <2> QED BY <1>13, <1>14, <1>15, <1>17, <2>2 DEF MInv, Tallies
<1>18. /\ MshrsAfterReturn(now) \in [SectorAddr -> Seq(MemFetch)]
       /\ \A x \in SectorAddr : MshrsAfterReturn(now)[x] # <<>> =>
             \E e \in l2_to_sm \ Returned(now) : m_sector_address(e.mf) = x /\ m_status[e.mf] # L2_HIT
  BY <1>1, ReturnedEntries DEF EntryAnswered
<1>19. /\ IsFiniteSet(l2_to_sm \ Returned(now))
       /\ \A e \in l2_to_sm : e.mf \in MemFetch /\ e.at \in Nat /\ e.at < now
       /\ \A e, f \in l2_to_sm : e.at = f.at => e = f
  <2>1. (l2_to_sm \ Returned(now)) \in SUBSET l2_to_sm /\ IsFiniteSet(l2_to_sm)
    BY <1>1 DEF Flying
  <2>2. IsFiniteSet(l2_to_sm \ Returned(now))
    BY <2>1, FS_Subset
  <2>3. \A e \in l2_to_sm : e.at \in Nat /\ e.at <= gpu_sim_cycles
    BY <1>1 DEF Flying
  <2>4. \A e \in l2_to_sm : e.at < now
    BY <1>5, <2>3 DEF now
  <2> QED BY <1>1, <2>2, <2>4 DEF Flying
<1>20. CASE Stays(now, popped)
  <2>1. /\ m_l1_to_l2' = q /\ l2_to_sm' = l2_to_sm \ Returned(now)
        /\ m_status' = m_status /\ l2_mshrs' = MshrsAfterReturn(now)
    BY <1>20 DEF Stays
  <2>2. Typed'
    BY <1>1, <1>5, <1>8, <1>11, <1>18, <2>1 DEF Typed, smVars
  <2>3. Flying'
    <3>1. \A e \in l2_to_sm : e.at <= now
      BY <1>5, <1>19
    <3> QED BY <1>1, <1>19, <2>1, <3>1 DEF Flying
  <2>4. EntryAnswered'
    BY <1>18, <2>1 DEF EntryAnswered
  <2>5. \A mf \in MemFetch : Looking(mf)' + Answering(mf)' = Times(q, mf) + Left(mf)
    BY <2>1 DEF Looking, Answering
  <2> QED BY <1>17, <2>2, <2>3, <2>4, <2>5
<1>21. ASSUME NEW status \in {L2_HIT, L2_MISS}, Leaves(now, popped, status) PROVE MInv'
  <2> DEFINE m == Head(q)
             x == m_sector_address(m)
  <2>1. PICK latency : Answer(now, popped, status, latency)
    BY <1>21 DEF Leaves
  <2> DEFINE a == [mf |-> m, at |-> now, due |-> now + latency]
  <2>2. /\ q # <<>> /\ m_l1_to_l2' = Tail(q)
        /\ l2_to_sm' = (l2_to_sm \ Returned(now)) \cup {a}
        /\ m_status' = [m_status EXCEPT ![m] = status]
        /\ \/ l2_mshrs' = MshrsAfterReturn(now)
           \/ status = L2_MISS /\ l2_mshrs' = mshr_add(MshrsAfterReturn(now), x, m)
    BY <1>21, <2>1 DEF Leaves, Answer, FrontRequest
  <2>3. /\ m \in MemFetch /\ Tail(q) \in Seq(MemFetch)
        /\ \A mf : Times(q, mf) = Times(Tail(q), mf) + (IF m = mf THEN 1 ELSE 0)
    <3> HIDE DEF q
    <3> QED BY <1>8, <2>2, TimesTail
  <2>4. a.mf = m /\ a.at = now
    OBVIOUS
  <2>5. x \in SectorAddr
    BY <2>3, RequestHome
  <2> HIDE DEF q, m, a
  <2>6. l2_mshrs' \in [SectorAddr -> Seq(MemFetch)]
    <3>1. CASE l2_mshrs' = MshrsAfterReturn(now)
      BY <1>18, <3>1
    <3>2. CASE l2_mshrs' = mshr_add(MshrsAfterReturn(now), x, m)
      <4> DEFINE t == MshrsAfterReturn(now)
      <4>1. t[x] \in Seq(MemFetch) /\ t \in [SectorAddr -> Seq(MemFetch)]
        BY <1>18, <2>5
      <4>2. Append(t[x], m) \in Seq(MemFetch)
        BY <2>3, <4>1
      <4> HIDE DEF x, t
      <4> QED BY <3>2, <4>1, <4>2 DEF mshr_add, t
    <3> QED BY <2>2, <3>1, <3>2
  <2>7. Typed'
    <3>1. m_status' \in [MemFetch -> {INIT, L2_HIT, L2_MISS}]
      BY <1>1, <2>2, <2>3 DEF Typed
    <3> QED BY <1>1, <1>5, <1>11, <2>2, <2>3, <2>6, <3>1 DEF Typed, smVars
  <2>8. Flying'
    <3>1. IsFiniteSet(l2_to_sm')
      BY <1>19, <2>2, FS_AddElement
    <3>2. \A e \in l2_to_sm' : e \in l2_to_sm \/ e = a
      BY <2>2
    <3>3. \A e \in l2_to_sm : e.at <= now /\ e.at # now
      BY <1>5, <1>19
    <3>4. \A e \in l2_to_sm' : e.mf \in MemFetch /\ e.at \in Nat /\ e.at <= now
      BY <1>5, <1>19, <2>3, <2>4, <3>2, <3>3
    <3>5. \A e, f \in l2_to_sm' : e.at = f.at => e = f
      BY <1>19, <2>4, <3>2, <3>3
    <3> QED BY <1>1, <3>1, <3>4, <3>5 DEF Flying
  <2>9. \A mf \in MemFetch : Looking(mf)' + Answering(mf)' = Times(q, mf) + Left(mf)
    <3> SUFFICES ASSUME NEW mf \in MemFetch PROVE Looking(mf)' + Answering(mf)' = Times(q, mf) + Left(mf)
      OBVIOUS
    <3>1. Looking(mf)' = Times(Tail(q), mf) /\ Looking(mf)' \in Nat
      BY <2>2, <2>3, TimesFacts DEF Looking
    <3>2. Answering(mf)' = Left(mf) + (IF m = mf THEN 1 ELSE 0) /\ Left(mf) \in Nat
      <4>1. Answering(mf)' = Cardinality({e \in (l2_to_sm \ Returned(now)) \cup {a} : e.mf = mf})
        BY <2>2 DEF Answering
      <4>2. /\ Left(mf) \in Nat
            /\ Cardinality({e \in (l2_to_sm \ Returned(now)) \cup {a} : e.mf = mf})
                 = Left(mf) + (IF a.mf = mf THEN 1 ELSE 0)
        <5>1. Typed /\ Flying /\ a.at = gpu_sim_cycles + 1
          BY <1>1, <2>4 DEF now
        <5>2. Cardinality({e \in (l2_to_sm \ Returned(now)) \cup {a} : e.mf = mf})
                = Cardinality({e \in l2_to_sm \ Returned(now) : e.mf = mf})
                  + (IF a.mf = mf THEN 1 ELSE 0)
          <6> HIDE DEF a, Left
          <6> QED BY <5>1, AnswerAdded DEF now
        <5>3. /\ Left(mf) = Cardinality({e \in l2_to_sm \ Returned(now) : e.mf = mf})
              /\ Left(mf) \in Nat
          BY <1>1, AnswersCount DEF now
        <5> HIDE DEF Left
        <5> QED BY <5>2, <5>3
      <4> QED BY <2>4, <4>1, <4>2
    <3> HIDE DEF Left
    <3> QED BY <2>3, <3>1, <3>2
  <2>10. ASSUME NEW e \in l2_to_sm \ Returned(now) PROVE e.mf # m
    <3> SUFFICES ASSUME e.mf = m PROVE FALSE
      OBVIOUS
    <3>1. Below(m) <= 1 /\ CountsNat
      BY <1>1, <2>3, BelowOnce, CountsNow DEF MInv
    <3>2. Times(q, m) > 0
      <4>1. Times(Tail(q), m) \in Nat
        BY <2>3, TimesFacts
      <4> QED BY <2>3, <4>1
    <3>3. Looking(m) + Arriving(m) > 0
      <4>1. Arriving(m) = Times(Carried(out_buffers'[Q][Slice]), m) + Cardinality(popped \cap {m})
        BY <1>4 DEF Arriving
      <4>2. Times(Carried(out_buffers'[Q][Slice]), m) \in Nat
        <5>1. out_buffers'[Q][Slice] \in Seq(Icnt!PacketSet)
          BY <1>2, <1>4
        <5> QED BY <5>1, CarriedNat
      <4>3. Times(q, m) = Looking(m) + Cardinality(popped \cap {m})
        BY <1>8 DEF q
      <4>4. Cardinality(popped \cap {m}) \in Nat
        <5>1. IsFiniteSet(popped \cap {m})
          BY FS_Singleton, FS_Subset
        <5> QED BY <5>1, FS_CardinalityType
      <4>5. Looking(m) \in Nat
        BY <2>3, <3>1 DEF CountsNat
      <4>6. Times(q, m) \in Nat
        BY <4>3, <4>4, <4>5
      <4> HIDE DEF q
      <4> QED BY <3>2, <4>1, <4>2, <4>3, <4>4, <4>5, <4>6
    <3>4. Answering(m) > 0
      <4> DEFINE E == {f \in l2_to_sm : f.mf = m}
      <4>1. E # {} /\ E \in SUBSET l2_to_sm
        OBVIOUS
      <4> HIDE DEF E
      <4>2. IsFiniteSet(E) /\ Cardinality(E) \in Nat /\ Cardinality(E) # 0
        BY <1>1, <4>1, FS_Subset, FS_EmptySet, FS_CardinalityType DEF Flying
      <4> QED BY <4>2 DEF Answering, E
    <3>5. /\ Missed(m) \in Nat /\ Sent(m) \in Nat /\ Arriving(m) \in Nat /\ Looking(m) \in Nat
          /\ Answering(m) \in Nat /\ Answered(m) \in Nat /\ Returning(m) \in Nat /\ Popping(m) \in Nat
          /\ Below(m) = Missed(m) + Sent(m) + Arriving(m) + Looking(m)
                          + Answering(m) + Answered(m) + Returning(m) + Popping(m)
      BY <2>3, <3>1 DEF CountsNat
    <3>6. Below(m) <= 1
      BY <3>1
    <3> QED BY <3>3, <3>4, <3>5, <3>6
  <2>11. EntryAnswered'
    <3> SUFFICES ASSUME NEW y \in SectorAddr, l2_mshrs'[y] # <<>>
                 PROVE  \E e \in l2_to_sm' : m_sector_address(e.mf) = y /\ m_status'[e.mf] # L2_HIT
      BY DEF EntryAnswered
    <3>1. CASE MshrsAfterReturn(now)[y] # <<>>
      <4>1. PICK e \in l2_to_sm \ Returned(now) : m_sector_address(e.mf) = y /\ m_status[e.mf] # L2_HIT
        BY <1>18, <3>1
      <4>2. e \in l2_to_sm' /\ m_status'[e.mf] = m_status[e.mf]
        BY <1>1, <1>19, <2>2, <2>10 DEF Typed
      <4> QED BY <4>1, <4>2
    <3>2. CASE MshrsAfterReturn(now)[y] = <<>>
      <4>1. status = L2_MISS /\ l2_mshrs' = mshr_add(MshrsAfterReturn(now), x, m)
        BY <2>2, <3>2
      <4>2. y = x
        <5> HIDE DEF x
        <5> QED BY <1>18, <3>2, <4>1 DEF mshr_add
      <4>3. a \in l2_to_sm' /\ m_status'[a.mf] = L2_MISS
        BY <1>1, <2>2, <2>3, <2>4, <4>1 DEF Typed
      <4>4. m_sector_address(a.mf) = y
        BY <2>4, <4>2
      <4> QED BY <4>3, <4>4 DEF L2_MISS, L2_HIT
    <3> QED BY <3>1, <3>2
  <2> QED BY <1>17, <2>7, <2>8, <2>9, <2>11
<1> QED BY <1>8, <1>20, <1>21

-----------------------------------------------------------------------------
(* Requests that come back.                                                *)

LEMMA OutNat ==
    ASSUME CountsNat, NEW mf \in MemFetch
    PROVE  Out(mf) \in Nat
BY RequestHome DEF CountsNat, Out

\* What comes back is no longer out, and an instruction that waits for
\* nothing more is complete.
LEMMA Released ==
    ASSUME Typed, OutOnce, Counted, Completes, UNCHANGED <<unissued, unit>>,
           NEW done, Release(done),
           \A mf \in MemFetch : IF mf \in done THEN Out(mf) = 1 /\ Out(mf)' = 0
                                               ELSE Out(mf)' = Out(mf)
    PROVE  /\ OutOnce' /\ Counted' /\ Completes'
           /\ pending_request' \in [Inst -> Nat] /\ completed' \in [Inst -> BOOLEAN]
<1>1. ASSUME NEW i \in Inst
      PROVE  /\ Back(done, i) \in Nat /\ Back(done, i) <= pending_request[i]
             /\ pending_request[i] \in Nat
             /\ pending_request'[i] = pending_request[i] - Back(done, i)
             /\ pending_request'[i] = Cardinality(OutOf(i)')
             /\ completed'[i] = (completed[i] \/ (pending_request[i] > 0 /\ Back(done, i) >= pending_request[i]))
  <2> DEFINE O == OutOf(i)
             D == done \cap RequestsOf(i)
  <2>1. /\ D \in SUBSET O /\ OutOf(i)' = O \ D /\ O \cap D = D /\ O \in SUBSET RequestsOf(i)
        /\ IsFiniteSet(RequestsOf(i))
    <3>1. RequestsOf(i) \subseteq MemFetch /\ IsFiniteSet(RequestsOf(i))
      BY RequestFacts
    <3>2. D \subseteq O
      BY <3>1 DEF OutOf
    <3>3. OutOf(i)' = {mf \in RequestsOf(i) : Out(mf)' = 1}
      BY DEF OutOf
    <3>4. \A mf \in RequestsOf(i) : Out(mf)' = 1 <=> Out(mf) = 1 /\ mf \notin D
      BY <3>1
    <3>5. OutOf(i)' = O \ D
      BY <3>3, <3>4 DEF OutOf
    <3> QED BY <3>1, <3>2, <3>5 DEF OutOf
  <2>2. Back(done, i) = Cardinality(D) /\ pending_request[i] = Cardinality(O)
    BY DEF Back, Counted
  <2>3. /\ pending_request'[i] = IF Back(done, i) <= pending_request[i]
                                  THEN pending_request[i] - Back(done, i) ELSE 0
        /\ completed'[i] = (completed[i] \/ (pending_request[i] > 0 /\ Back(done, i) >= pending_request[i]))
    BY Zenon DEF Release
  <2> HIDE DEF O, D
  <2>4. IsFiniteSet(O) /\ Cardinality(O) \in Nat
    BY <2>1, FS_Subset, FS_CardinalityType
  <2>5. IsFiniteSet(D) /\ Cardinality(D) \in Nat /\ Cardinality(D) <= Cardinality(O)
    BY <2>1, <2>4, FS_Subset, FS_CardinalityType
  <2>6. Cardinality(O \ D) = Cardinality(O) - Cardinality(D)
    BY <2>1, <2>4, FS_Difference
  <2> QED BY <2>1, <2>2, <2>3, <2>4, <2>5, <2>6
<1>2. OutOnce'
  <2>1. \A mf \in MemFetch : Unmade(mf)' <=> Unmade(mf)
    BY DEF Unmade
  <2>2. \A mf \in MemFetch : Out(mf)' <= 1 /\ (Unmade(mf) => Out(mf)' = 0)
    BY DEF OutOnce
  <2> QED BY <2>1, <2>2 DEF OutOnce
<1>3. Counted'
  BY <1>1 DEF Counted
<1>4. Completes'
  <2> SUFFICES ASSUME NEW i \in Inst, i \notin unissued, ~Fresh(i)', pending_request'[i] = 0
               PROVE  completed'[i]
    BY DEF Completes
  <2>1. ~Fresh(i)
    BY DEF Fresh
  <2>2. CASE pending_request[i] = 0
    BY <1>1, <2>1, <2>2 DEF Completes
  <2>3. CASE pending_request[i] # 0
    <3>1. pending_request[i] > 0 /\ Back(done, i) >= pending_request[i]
      BY <1>1, <2>3
    <3> QED BY <1>1, <3>1
  <2> QED BY <2>2, <2>3
<1>5. pending_request' \in [Inst -> Nat] /\ completed' \in [Inst -> BOOLEAN]
  <2>1. /\ pending_request' = [i \in Inst |-> pending_request'[i]]
        /\ completed' = [i \in Inst |-> completed'[i]]
    BY DEF Release
  <2>2. \A i \in Inst : pending_request'[i] \in Nat
    BY <1>1
  <2>3. \A i \in Inst : completed'[i] \in BOOLEAN
    BY Zenon DEF Release, Typed
  <2> QED BY <2>1, <2>2, <2>3
<1> QED BY <1>2, <1>3, <1>4, <1>5

\* What is first and what is left of a sequence.
LEMMA TimesSplit ==
    ASSUME NEW S, NEW h \in Seq(S), NEW n \in 0 .. Len(h), NEW x
    PROVE  /\ SubSeq(h, 1, n) \in Seq(S) /\ SubSeq(h, n + 1, Len(h)) \in Seq(S)
           /\ Within(SubSeq(h, 1, n)) = {h[k] : k \in 1 .. n}
           /\ Times(h, x) = Times(SubSeq(h, 1, n), x) + Times(SubSeq(h, n + 1, Len(h)), x)
<1> DEFINE a == SubSeq(h, 1, n)
           b == SubSeq(h, n + 1, Len(h))
           c == a \o b
<1>1. /\ a \in Seq(S) /\ b \in Seq(S) /\ Len(h) \in Nat /\ n \in Nat /\ n <= Len(h)
      /\ DOMAIN a = 1 .. n /\ Len(a) = n /\ \A k \in 1 .. n : a[k] = h[k]
      /\ Len(b) = Len(h) - n /\ \A k \in 1 .. Len(h) - n : b[k] = h[k + n]
      /\ h = [k \in 1 .. Len(h) |-> h[k]]
  OBVIOUS
<1> HIDE DEF a, b
<1>2. /\ c \in Seq(S) /\ Len(c) = n + (Len(h) - n) /\ DOMAIN c = 1 .. Len(c)
      /\ \A k \in 1 .. n : c[k] = a[k]
      /\ \A k \in 1 .. Len(c) : k \notin 1 .. n => c[k] = b[k - n]
  <2>1. a \in Seq(S) /\ b \in Seq(S) /\ Len(a) = n
    BY <1>1
  <2>2. /\ c \in Seq(S) /\ Len(c) = Len(a) + Len(b) /\ DOMAIN c = 1 .. Len(c)
        /\ \A k \in 1 .. Len(a) : c[k] = a[k]
        /\ \A k \in 1 .. Len(c) : k \notin 1 .. Len(a) => c[k] = b[k - Len(a)]
    BY <2>1
  <2> HIDE DEF c
  <2> QED BY <1>1, <2>1, <2>2
<1> HIDE DEF c
<1>3. Len(c) = Len(h) /\ c = [k \in 1 .. Len(c) |-> c[k]]
  BY <1>1, <1>2
<1>4. ASSUME NEW k \in 1 .. Len(h) PROVE c[k] = h[k]
  <2>1. CASE k \in 1 .. n
    BY <1>1, <1>2, <2>1
  <2>2. CASE k \notin 1 .. n
    <3>1. k - n \in 1 .. Len(h) - n /\ (k - n) + n = k
      BY <1>1, <2>2
    <3> QED BY <1>1, <1>2, <1>3, <2>2, <3>1
  <2> QED BY <2>1, <2>2
<1>5. h = c
  BY <1>1, <1>3, <1>4
<1>6. Times(a \o b, x) = Times(a, x) + Times(b, x)
  BY <1>1, TimesConcat
<1>7. Within(a) = {h[k] : k \in 1 .. n}
  BY <1>1 DEF Within
<1> QED BY <1>1, <1>5, <1>6, <1>7 DEF a, b, c

\* A set of numbers with all that come before each is all up to its size.
LEMMA AllUpTo ==
    ASSUME NEW n \in Nat, NEW R \in SUBSET (1 .. n), \A k \in R : \A j \in 1 .. k : j \in R
    PROVE  Cardinality(R) \in 0 .. n /\ R = 1 .. Cardinality(R)
<1> DEFINE S == {k \in 1 .. n + 1 : k \notin R}
<1>1. n + 1 \in S /\ S \in SUBSET Nat /\ S # {}
  OBVIOUS
<1>2. PICK m \in S : \A k \in S : m <= k
  <2> HIDE DEF S
  <2> QED BY <1>1, Least
<1>3. m \in 1 .. n + 1 /\ m \notin R
  OBVIOUS
<1>4. R = 1 .. m - 1
  <2>1. ASSUME NEW k \in 1 .. m - 1 PROVE k \in R
    <3>1. k \in 1 .. n + 1 /\ ~(m <= k)
      BY <1>3
    <3> QED BY <1>2, <3>1
  <2>2. ASSUME NEW k \in R PROVE k \in 1 .. m - 1
    <3>1. k \in 1 .. n
      OBVIOUS
    <3>2. CASE m <= k
      <4>1. m \in 1 .. k
        BY <1>3, <3>1, <3>2
      <4> QED BY <1>3, <2>2, <4>1
    <3>3. CASE ~(m <= k)
      BY <1>3, <3>1, <3>3
    <3> QED BY <3>2, <3>3
  <2> QED BY <2>1, <2>2
<1>5. Cardinality(1 .. m - 1) = m - 1
  <2> DEFINE l == m - 1
  <2>1. l \in Nat /\ 1 \in Int /\ l \in Int /\ l - 1 + 1 = l
    BY <1>3
  <2> HIDE DEF l
  <2>2. Cardinality(1 .. l) = IF 1 > l THEN 0 ELSE l - 1 + 1
    BY <2>1, FS_Interval
  <2>3. Cardinality(1 .. l) = l
    BY <2>1, <2>2
  <2> QED BY <2>3 DEF l
<1> QED BY <1>3, <1>4, <1>5

-----------------------------------------------------------------------------
(* The calls of an SM that only change what is its own.                    *)

Alone(s) ==
    /\ turn = <<"sm", s>>
    /\ UNCHANGED <<l2Vars, in_buffers, out_buffers, next_node_id, gpu_sim_cycles, turn>>

LEMMA AloneFrame ==
    ASSUME MInv, NEW s, Alone(s)
    PROVE  /\ HomedIcnt' /\ Flying' /\ EntryAnswered' /\ EndsIdle' /\ Icnt!IcntTypeOK'
           /\ m_l1_to_l2' = m_l1_to_l2 /\ l2_to_sm' = l2_to_sm
           /\ m_l1_to_l2' \in Seq(MemFetch) /\ l2_mshrs' \in [SectorAddr -> Seq(MemFetch)]
           /\ m_status' \in [MemFetch -> {INIT, L2_HIT, L2_MISS}] /\ gpu_sim_cycles' \in Nat
           /\ \A mf \in MemFetch :
                 /\ Sent(mf)' = Sent(mf) /\ Arriving(mf)' = Arriving(mf) /\ Looking(mf)' = Looking(mf)
                 /\ Answering(mf)' = Answering(mf) /\ Answered(mf)' = Answered(mf)
                 /\ Returning(mf)' = Returning(mf)
<1>1. HomedIcnt'
  BY DEF MInv, Alone, HomedIcnt
<1>2. Flying' /\ EntryAnswered' /\ EndsIdle'
  BY DEF MInv, Alone, Flying, EntryAnswered, EndsIdle, l2Vars
<1>3. Icnt!IcntTypeOK'
  BY DEF MInv, Alone, Typed, Icnt!IcntTypeOK
<1>4. /\ m_l1_to_l2' = m_l1_to_l2 /\ l2_to_sm' = l2_to_sm
      /\ m_l1_to_l2' \in Seq(MemFetch) /\ l2_mshrs' \in [SectorAddr -> Seq(MemFetch)]
      /\ m_status' \in [MemFetch -> {INIT, L2_HIT, L2_MISS}] /\ gpu_sim_cycles' \in Nat
  BY DEF MInv, Alone, Typed, l2Vars
<1>5. ASSUME NEW mf \in MemFetch
      PROVE  /\ Sent(mf)' = Sent(mf) /\ Arriving(mf)' = Arriving(mf) /\ Looking(mf)' = Looking(mf)
             /\ Answering(mf)' = Answering(mf) /\ Answered(mf)' = Answered(mf)
             /\ Returning(mf)' = Returning(mf)
  BY <1>4 DEF Alone, Sent, Arriving, Looking, Answering, Answered, Returning
<1> QED BY <1>1, <1>2, <1>3, <1>4, <1>5

\* write_back: the hits that are ready come back.
LEMMA WriteBackStep ==
    ASSUME MInv, NEW s \in Sm, Alone(s), write_back(s)
    PROVE  MInv'
<1> DEFINE q == l1_to_sm[s]
           n == Cardinality(Ready(s))
           r == SubSeq(q, n + 1, Len(q))
           done == {q[k].mf : k \in Ready(s)}
           h == Hits(q)
           front == SubSeq(h, 1, n)
           rest  == SubSeq(h, n + 1, Len(h))
<1>1. /\ Typed /\ HomedSm /\ HomedIcnt /\ Flying /\ OutOnce
      /\ step = <<"write_back", 0>> /\ step' = <<"write_back_request_l2", 0>>
      /\ Release(done) /\ l1_to_sm' = [l1_to_sm EXCEPT ![s] = r]
      /\ UNCHANGED <<cycles, l1_mshrs, m_queue_sm_to_l1, m_miss_queue, reply, unit, unissued>>
  BY DEF MInv, write_back, At, Goto
<1>2. q \in Seq(HitSet) /\ l1_to_sm \in [Sm -> Seq(HitSet)] /\ cycles \in [Sm -> Nat]
  BY <1>1 DEF Typed
<1>3. n \in 0 .. Len(q) /\ Ready(s) = 1 .. n
  <2>1. Len(q) \in Nat /\ DOMAIN q = 1 .. Len(q)
    BY <1>2
  <2>2. Ready(s) = {k \in 1 .. Len(q) : \A j \in 1 .. k : q[j].m_l1_ready_time <= cycles[s]}
    BY <2>1 DEF Ready
  <2> DEFINE l == Len(q)
             R == Ready(s)
  <2>3. l \in Nat /\ R \in SUBSET (1 .. l) /\ \A k \in R : \A j \in 1 .. k : j \in R
    BY <2>1, <2>2
  <2> HIDE DEF l, R
  <2>4. Cardinality(R) \in 0 .. l /\ R = 1 .. Cardinality(R)
    BY <2>3, AllUpTo
  <2> QED BY <2>4 DEF l, R
<1>4. /\ h \in Seq(MemFetch) /\ DOMAIN h = DOMAIN q /\ Len(h) = Len(q)
      /\ \A k \in 1 .. Len(q) : h[k] = q[k].mf
  <2>1. h \in Seq(MemFetch) /\ DOMAIN h = DOMAIN q
    BY <1>2, HitsTyped
  <2>2. DOMAIN q = 1 .. Len(q) /\ Len(q) \in Nat
    BY <1>2
  <2>3. \A k \in 1 .. Len(q) : h[k] = q[k].mf
    BY <2>2 DEF Hits
  <2> HIDE DEF h
  <2>4. Len(h) \in Nat /\ DOMAIN h = 1 .. Len(h)
    BY <2>1
  <2> QED BY <2>1, <2>2, <2>3, <2>4
<1>5. r \in Seq(HitSet) /\ Len(r) = Len(q) - n /\ DOMAIN r = 1 .. Len(q) - n
      /\ \A k \in 1 .. Len(q) - n : r[k] = q[k + n]
  <2> HIDE DEF q, n
  <2> QED BY <1>2, <1>3
<1>6. Hits(r) = rest
  <2> DEFINE a == Hits(r)
  <2>1. a \in Seq(MemFetch) /\ DOMAIN a = 1 .. Len(q) - n /\ \A k \in 1 .. Len(q) - n : a[k] = r[k].mf
    BY <1>5, HitsTyped DEF Hits
  <2> HIDE DEF q, n, h
  <2>2. rest \in Seq(MemFetch) /\ DOMAIN rest = 1 .. Len(q) - n /\ \A k \in 1 .. Len(q) - n : rest[k] = h[k + n]
    BY <1>3, <1>4
  <2> HIDE DEF a, rest, r
  <2>3. Len(q) \in Nat /\ \A k \in 1 .. Len(q) - n : k + n \in 1 .. Len(q)
    BY <1>2, <1>3
  <2>4. \A k \in 1 .. Len(q) - n : a[k] = rest[k]
    BY <1>4, <1>5, <2>1, <2>2, <2>3
  <2>5. a = [k \in 1 .. Len(q) - n |-> a[k]] /\ rest = [k \in 1 .. Len(q) - n |-> rest[k]]
    BY <2>1, <2>2
  <2>6. a = rest
    BY <2>4, <2>5
  <2> QED BY <2>6 DEF a
<1>7. /\ front \in Seq(MemFetch) /\ rest \in Seq(MemFetch)
      /\ Within(front) = {h[k] : k \in 1 .. n}
      /\ \A mf : Times(h, mf) = Times(front, mf) + Times(rest, mf)
  <2>1. h \in Seq(MemFetch) /\ n \in 0 .. Len(h)
    <3> HIDE DEF h, n
    <3> QED BY <1>3, <1>4
  <2> HIDE DEF h, n
  <2> QED BY <2>1, TimesSplit
<1>8. Within(front) = done
  <2>1. \A k \in 1 .. n : k \in 1 .. Len(q)
    <3> HIDE DEF q, n
    <3> QED BY <1>2, <1>3
  <2> HIDE DEF h, front, n, q
  <2> QED BY <1>3, <1>4, <1>7, <2>1
<1> HIDE DEF front, rest, h, r, n
<1>9. CountsNat
  BY <1>1, CountsNow
<1>10. ASSUME NEW mf \in MemFetch PROVE Below(mf)' = Below(mf)
  BY <1>1 DEF Below, Alone, l2Vars
<1>11. ASSUME NEW mf \in MemFetch
       PROVE  IF mf \in done THEN Out(mf) = 1 /\ Out(mf)' = 0 ELSE Out(mf)' = Out(mf)
  <2>1. Banked(mf)' = Banked(mf) /\ Merged(mf)' = Merged(mf)
    BY <1>1 DEF Banked, Merged, Entry
  <2>2. CASE m_sm_id[mf] = s
    <3>1. Hitting(mf) = Times(front, mf) + Hitting(mf)'
      <4>1. l1_to_sm'[s] = r
        BY <1>1, <1>2
      <4>2. Hitting(mf)' = Times(rest, mf) /\ Hitting(mf) = Times(h, mf)
        BY <1>6, <2>2, <4>1 DEF Hitting, h
      <4> QED BY <1>7, <4>2
    <3>2. Times(front, mf) \in Nat /\ (Times(front, mf) = 0 <=> mf \notin done)
      BY <1>7, <1>8, TimesFacts
    <3>3. Hitting(mf)' \in Nat
      <4>1. Hitting(mf)' = Times(rest, mf)
        BY <1>1, <1>2, <1>6, <2>2 DEF Hitting
      <4> QED BY <1>7, <4>1, TimesFacts
    <3>4. Out(mf) <= 1
      BY <1>1 DEF OutOnce
    <3> DEFINE b == IF is_write[mf] THEN Below(mf) ELSE Merged(mf)
    <3>5. Out(mf) = Banked(mf) + Hitting(mf) + b /\ Out(mf)' = Banked(mf) + Hitting(mf)' + b
      BY <1>10, <2>1 DEF Out
    <3>6. b \in Nat /\ Banked(mf) \in Nat /\ Hitting(mf) \in Nat
      BY <1>9, RequestHome DEF CountsNat
    <3> DEFINE f == Times(front, mf)
    <3>7. Hitting(mf) = f + Hitting(mf)' /\ f \in Nat /\ (f = 0 <=> mf \notin done)
      BY <3>1, <3>2
    <3> HIDE DEF b, done, f
    <3>8. CASE mf \in done
      <4>1. f # 0
        BY <3>7, <3>8
      <4> QED BY <3>3, <3>4, <3>5, <3>6, <3>7, <3>8, <4>1
    <3>9. CASE mf \notin done
      <4>1. f = 0
        BY <3>7, <3>9
      <4>2. Hitting(mf) = Hitting(mf)'
        BY <3>3, <3>7, <4>1
      <4> QED BY <3>5, <3>9, <4>2
    <3> QED BY <3>8, <3>9
  <2>3. CASE m_sm_id[mf] # s
    <3>1. mf \notin done
      <4>1. \A k \in Ready(s) : q[k] \in Within(q)
        BY DEF Ready, Within
      <4>2. \A e \in Within(q) : m_sm_id[e.mf] = s
        BY <1>1 DEF HomedSm
      <4> QED BY <2>3, <4>1, <4>2
    <3>2. Hitting(mf)' = Hitting(mf)
      BY <1>1, <1>2, <2>3, RequestHome DEF Hitting
    <3> QED BY <1>10, <2>1, <3>1, <3>2 DEF Out
  <2> QED BY <2>2, <2>3
<1> HIDE DEF done
<1>12. /\ OutOnce' /\ Counted' /\ Completes'
       /\ pending_request' \in [Inst -> Nat] /\ completed' \in [Inst -> BOOLEAN]
  BY <1>1, <1>11, Released DEF MInv
<1>13. Typed'
  <2>1. l1_to_sm' \in [Sm -> Seq(HitSet)]
    BY <1>1, <1>2, <1>5
  <2> QED BY <1>1, <1>12, <2>1, AloneFrame DEF Typed
<1>14. HomedSm'
  <2>1. ASSUME NEW k \in Sm PROVE Within(l1_to_sm'[k]) \subseteq Within(l1_to_sm[k])
    <3>1. CASE k = s
      <4>1. l1_to_sm'[k] = r
        BY <1>1, <1>2, <3>1
      <4>2. \A j \in 1 .. Len(q) - n : j + n \in DOMAIN q
        <5> HIDE DEF q
        <5> QED BY <1>2, <1>3
      <4>3. Within(r) \subseteq Within(q)
        <5> HIDE DEF q
        <5> QED BY <1>5, <4>2 DEF Within
      <4> QED BY <3>1, <4>1, <4>3
    <3>2. CASE k # s
      BY <1>1, <1>2, <3>2
    <3> QED BY <3>1, <3>2
  <2> QED BY <1>1, <2>1 DEF HomedSm
<1>15. ReplyHere'
  BY <1>1 DEF MInv, ReplyHere, Alone
<1>16. LoadsBelow' /\ InUnits'
  BY <1>1, <1>10 DEF MInv, LoadsBelow, Entry, InUnits
<1> QED BY <1>12, <1>13, <1>14, <1>15, <1>16, AloneFrame DEF MInv

\* The reply leaves the places below; every request that is told is no longer
\* out.
LEMMA ReplyStep ==
    ASSUME MInv, NEW s \in Sm, Alone(s), write_back_request_l2(s),
           NEW m \in MemFetch, m \in reply, NEW done, Release(done),
           l1_mshrs' \in [Sm -> [SectorAddr -> Seq(MemFetch)]],
           \/ is_write[m] /\ done = {m} /\ l1_mshrs' = l1_mshrs
           \/ /\ ~is_write[m] /\ done = Within(Entry(m))
              /\ \A n \in Sm, x \in SectorAddr :
                    l1_mshrs'[n][x] = IF n = s /\ x = m_sector_address(m) THEN <<>> ELSE l1_mshrs[n][x]
    PROVE  MInv'
<1>1. /\ Typed /\ HomedSm /\ HomedIcnt /\ Flying /\ OutOnce /\ LoadsBelow
      /\ step' = <<"m_miss_queue_cycle", 0>> /\ reply' = {}
      /\ UNCHANGED <<cycles, l1_to_sm, m_queue_sm_to_l1, m_miss_queue, unit, unissued>>
  BY DEF MInv, write_back_request_l2, Goto
<1>2. reply = {m} /\ m_sm_id[m] = s
  BY DEF MInv, ReplyHere, Alone
<1>3. CountsNat
  BY <1>1, CountsNow
<1> DEFINE b(mf) == IF mf = m THEN 1 ELSE 0
<1>4. ASSUME NEW mf \in MemFetch
      PROVE  /\ Below(mf) = Below(mf)' + b(mf) /\ Below(mf)' \in Nat
             /\ Banked(mf)' = Banked(mf) /\ Hitting(mf)' = Hitting(mf)
  <2>1. Popping(mf) = b(mf) /\ Popping(mf)' = 0
    <3>1. Cardinality({m} \cap {mf}) = IF m = mf THEN 1 ELSE 0
      BY OneOrNone
    <3>2. Cardinality({}) = 0 /\ {} \cap {mf} = {}
      BY FS_EmptySet
    <3> QED BY <1>1, <1>2, <3>1, <3>2 DEF Popping
  <2>2. Missed(mf)' = Missed(mf)
    BY <1>1 DEF Missed
  <2>3. Below(mf)' = Missed(mf)' + Sent(mf)' + Arriving(mf)' + Looking(mf)'
                      + Answering(mf)' + Answered(mf)' + Returning(mf)' + Popping(mf)'
    BY DEF Below, Missed, Sent, Arriving, Looking, Answering, Answered, Returning, Popping
  <2>4. /\ Sent(mf)' = Sent(mf) /\ Arriving(mf)' = Arriving(mf) /\ Looking(mf)' = Looking(mf)
        /\ Answering(mf)' = Answering(mf) /\ Answered(mf)' = Answered(mf)
        /\ Returning(mf)' = Returning(mf)
    BY AloneFrame
  <2>5. Banked(mf)' = Banked(mf) /\ Hitting(mf)' = Hitting(mf)
    BY <1>1 DEF Banked, Hitting
  <2>6. /\ Missed(mf) \in Nat /\ Sent(mf) \in Nat /\ Arriving(mf) \in Nat /\ Looking(mf) \in Nat
        /\ Answering(mf) \in Nat /\ Answered(mf) \in Nat /\ Returning(mf) \in Nat
        /\ Below(mf) = Missed(mf) + Sent(mf) + Arriving(mf) + Looking(mf)
                        + Answering(mf) + Answered(mf) + Returning(mf) + Popping(mf)
    BY <1>3 DEF CountsNat
  <2>7. b(mf) \in Nat
    OBVIOUS
  <2> HIDE DEF b
  <2> QED BY <2>1, <2>2, <2>3, <2>4, <2>5, <2>6, <2>7
<1>5. Below(m) = 1 /\ Below(m)' = 0 /\ \A mf \in MemFetch : mf # m => Below(mf)' = Below(mf)
  <2>1. Below(m) <= 1
    BY <1>1, BelowOnce
  <2>2. Below(m) = Below(m)' + 1 /\ Below(m)' \in Nat
    BY <1>4
  <2>3. ASSUME NEW mf \in MemFetch, mf # m PROVE Below(mf)' = Below(mf)
    <3>1. Below(mf) = Below(mf)' + 0 /\ Below(mf)' \in Nat
      BY <1>4, <2>3
    <3> QED BY <3>1
  <2> QED BY <2>1, <2>2, <2>3
<1>6. ASSUME NEW mf \in MemFetch
      PROVE  /\ IF mf \in done THEN Out(mf) = 1 /\ Out(mf)' = 0 ELSE Out(mf)' = Out(mf)
             /\ ~is_write[mf] => Below(mf)' = IF Entry(mf)' # <<>> /\ Head(Entry(mf)') = mf THEN 1 ELSE 0
  <2>1. /\ Out(mf) <= 1 /\ Banked(mf) \in Nat /\ Hitting(mf) \in Nat /\ Merged(mf) \in Nat
    BY <1>1, <1>3 DEF OutOnce, CountsNat
  <2>2. CASE is_write[m]
    <3>1. done = {m} /\ l1_mshrs' = l1_mshrs
      BY <2>2
    <3>2. Merged(mf)' = Merged(mf) /\ Entry(mf)' = Entry(mf)
      BY <3>1 DEF Merged, Entry
    <3>3. CASE mf = m
      <4>1. Out(mf) = Banked(mf) + Hitting(mf) + 1 /\ Out(mf)' = Banked(mf) + Hitting(mf) + 0
        BY <1>4, <1>5, <2>2, <3>3 DEF Out
      <4> QED BY <2>1, <2>2, <3>1, <3>3, <4>1
    <3>4. CASE mf # m
      <4>1. Out(mf)' = Out(mf) /\ Below(mf)' = Below(mf)
        BY <1>4, <1>5, <3>2, <3>4 DEF Out
      <4> QED BY <1>1, <3>1, <3>2, <3>4, <4>1 DEF LoadsBelow
    <3> QED BY <3>3, <3>4
  <2>3. CASE ~is_write[m]
    <3> DEFINE x == m_sector_address(m)
               E == Entry(m)
    <3>1. /\ done = Within(E) /\ E # <<>> /\ Head(E) = m /\ E = l1_mshrs[s][x] /\ x \in SectorAddr
          /\ \A n \in Sm, y \in SectorAddr :
                l1_mshrs'[n][y] = IF n = s /\ y = x THEN <<>> ELSE l1_mshrs[n][y]
      <4>1. E # <<>> /\ Head(E) = m
        BY <1>1, <1>5, <2>3 DEF LoadsBelow
      <4> QED BY <1>2, <2>3, <4>1, RequestHome DEF Entry
    <3>2. CASE m_sm_id[mf] = s /\ m_sector_address(mf) = x
      <4>1. Entry(mf) = E /\ Entry(mf)' = <<>>
        BY <3>1, <3>2 DEF Entry
      <4>2. Merged(mf)' = 0 /\ Merged(mf) = Times(E, mf)
        BY <4>1, TimesEmpty DEF Merged
      <4>3. E \in Seq(MemFetch)
        BY <1>1, <3>1 DEF Typed
      <4>4. Times(E, mf) = 0 <=> mf \notin done
        BY <3>1, <4>3, TimesFacts
      <4>5. CASE is_write[mf]
        <5>1. mf # m /\ mf \notin done
          <6>1. \A y \in Within(E) : ~is_write[y]
            BY <1>1, <3>1 DEF HomedSm
          <6> QED BY <2>3, <3>1, <4>5, <6>1
        <5>2. Out(mf)' = Out(mf)
          BY <1>4, <1>5, <4>5, <5>1 DEF Out
        <5> QED BY <4>5, <5>1, <5>2
      <4>6. CASE ~is_write[mf]
        <5>1. Out(mf) = Banked(mf) + Hitting(mf) + Merged(mf) /\ Out(mf)' = Banked(mf) + Hitting(mf) + 0
          BY <1>4, <4>2, <4>6 DEF Out
        <5>2. IF mf \in done THEN Out(mf) = 1 /\ Out(mf)' = 0 ELSE Out(mf)' = Out(mf)
          <6>1. CASE mf \in done
            <7>1. Merged(mf) # 0
              BY <4>2, <4>4, <6>1
            <7> QED BY <2>1, <5>1, <6>1, <7>1
          <6>2. CASE mf \notin done
            <7>1. Merged(mf) = 0
              BY <4>2, <4>4, <6>2
            <7> QED BY <2>1, <5>1, <6>2, <7>1
          <6> QED BY <6>1, <6>2
        <5>3. Below(mf)' = 0
          <6>1. CASE mf = m
            BY <1>5, <6>1
          <6>2. CASE mf # m
            <7>1. Below(mf) = 0
              BY <1>1, <3>1, <4>1, <4>6, <6>2 DEF LoadsBelow
            <7> QED BY <1>5, <6>2, <7>1
          <6> QED BY <6>1, <6>2
        <5> QED BY <4>1, <5>2, <5>3
      <4> QED BY <4>5, <4>6
    <3>3. CASE ~(m_sm_id[mf] = s /\ m_sector_address(mf) = x)
      <4>1. mf # m
        BY <1>2, <3>3
      <4>2. Entry(mf)' = Entry(mf)
        BY <3>1, <3>3, RequestHome DEF Entry
      <4>3. mf \notin done
        <5>1. \A y \in Within(E) : m_sm_id[y] = s /\ m_sector_address(y) = x
          BY <1>1, <3>1 DEF HomedSm
        <5> QED BY <3>1, <3>3, <5>1
      <4>4. Merged(mf)' = Merged(mf) /\ Below(mf)' = Below(mf)
        BY <1>5, <4>1, <4>2 DEF Merged
      <4>5. Out(mf)' = Out(mf)
        BY <1>4, <4>4 DEF Out
      <4> QED BY <1>1, <4>2, <4>3, <4>4, <4>5 DEF LoadsBelow
    <3> QED BY <3>2, <3>3
  <2> QED BY <2>2, <2>3
<1>7. /\ OutOnce' /\ Counted' /\ Completes'
      /\ pending_request' \in [Inst -> Nat] /\ completed' \in [Inst -> BOOLEAN]
  BY <1>1, <1>6, Released DEF MInv
<1>8. LoadsBelow'
  BY <1>6 DEF LoadsBelow
<1>9. Typed'
  BY <1>1, <1>7, AloneFrame DEF Typed
<1>10. HomedSm'
  <2>1. \A n \in Sm, x \in SectorAddr : l1_mshrs'[n][x] \in {<<>>, l1_mshrs[n][x]}
    <3>1. CASE is_write[m]
      BY <3>1
    <3>2. CASE ~is_write[m]
      BY <3>2
    <3> QED BY <3>1, <3>2
  <2>2. Within(<<>>) = {}
    BY DEF Within
  <2>3. \A n \in Sm, x \in SectorAddr : Within(l1_mshrs'[n][x]) \subseteq Within(l1_mshrs[n][x])
    BY <2>1, <2>2
  <2>4. \A n \in Sm : /\ \A mf \in Within(m_miss_queue'[n]) : m_sm_id[mf] = n
                      /\ \A h \in Within(l1_to_sm'[n]) : m_sm_id[h.mf] = n
                      /\ \A k \in Sector : \A mf \in Within(m_queue_sm_to_l1'[n][k]) :
                            m_sm_id[mf] = n /\ m_sector_mask[mf] = k
    BY <1>1 DEF HomedSm
  <2>5. \A n \in Sm, x \in SectorAddr : \A mf \in Within(l1_mshrs'[n][x]) :
              m_sm_id[mf] = n /\ m_sector_address(mf) = x /\ ~is_write[mf]
    BY <1>1, <2>3 DEF HomedSm
  <2> QED BY <2>4, <2>5 DEF HomedSm
<1>11. ReplyHere'
  BY <1>1 DEF ReplyHere
<1>12. InUnits'
  BY <1>1 DEF MInv, InUnits
<1> QED BY <1>7, <1>8, <1>9, <1>10, <1>11, <1>12, AloneFrame DEF MInv

LEMMA WriteBackL2Step ==
    ASSUME MInv, NEW s \in Sm, Alone(s), write_back_request_l2(s)
    PROVE  MInv'
<1>1. /\ Typed /\ reply' = {} /\ reply \in SUBSET MemFetch
      /\ LoadReply(s) \/ StoreReply(s) \/ NoReply
      /\ UNCHANGED <<cycles, l1_to_sm, m_queue_sm_to_l1, m_miss_queue, unit, unissued>>
  BY DEF MInv, write_back_request_l2, Typed
<1>2. CASE NoReply
  <2>1. UNCHANGED <<l1_mshrs, pending_request, completed, reply>>
    BY <1>1, <1>2 DEF NoReply
  <2>2. Typed'
    BY <1>1, <2>1, AloneFrame DEF Typed
  <2>3. HomedSm'
    BY <1>1, <2>1 DEF MInv, HomedSm
  <2>4. ReplyHere'
    BY <1>1 DEF ReplyHere
  <2>5. \A mf \in MemFetch : Below(mf)' = Below(mf)
    BY <1>1, <2>1 DEF Below, Alone, l2Vars
  <2>6. Tallies'
    BY <1>1, <2>1, <2>5, CarriedOn DEF MInv, Tallies
  <2> QED BY <2>2, <2>3, <2>4, <2>6, AloneFrame DEF MInv, Tallies
<1>3. CASE StoreReply(s)
  <2>1. PICK m \in reply : is_write[m] /\ Release({m}) /\ l1_mshrs' = l1_mshrs
    BY <1>3 DEF StoreReply
  <2>2. l1_mshrs' \in [Sm -> [SectorAddr -> Seq(MemFetch)]]
    BY <1>1, <2>1 DEF Typed
  <2> QED BY <1>1, <2>1, <2>2, ReplyStep
<1>4. CASE LoadReply(s)
  <2>1. PICK m \in reply : /\ ~is_write[m] /\ Release(Range(l1_mshrs[s][m_sector_address(m)]))
                           /\ l1_mshrs' = [l1_mshrs EXCEPT ![s] = mshr_release(@, m_sector_address(m))]
    BY <1>4 DEF LoadReply
  <2> DEFINE x == m_sector_address(m)
             done == Range(l1_mshrs[s][x])
  <2>2. m \in MemFetch /\ x \in SectorAddr /\ m_sm_id[m] = s
    BY <1>1, <2>1, RequestHome DEF MInv, ReplyHere, Alone
  <2>3. l1_mshrs \in [Sm -> [SectorAddr -> Seq(MemFetch)]]
    BY <1>1 DEF Typed
  <2>4. done = Within(Entry(m))
    BY <2>2 DEF Entry, Within, Range
  <2> HIDE DEF x, done
  <2>5. l1_mshrs' = [l1_mshrs EXCEPT ![s] = [@ EXCEPT ![x] = <<>>]]
    BY <2>1 DEF mshr_release, x
  <2>6. l1_mshrs' \in [Sm -> [SectorAddr -> Seq(MemFetch)]]
    BY <2>2, <2>3, <2>5
  <2>7. \A n \in Sm, y \in SectorAddr :
           l1_mshrs'[n][y] = IF n = s /\ y = m_sector_address(m) THEN <<>> ELSE l1_mshrs[n][y]
    BY <2>2, <2>3, <2>5 DEF x
  <2>8. Release(done) /\ ~is_write[m]
    BY <2>1 DEF done, x
  <2> QED BY <2>1, <2>2, <2>4, <2>6, <2>7, <2>8, ReplyStep
<1> QED BY <1>1, <1>2, <1>3, <1>4

-----------------------------------------------------------------------------
(* A bank.  The request in front of it moves to one other place.           *)

Is(m, mf) == IF m = mf THEN 1 ELSE 0

LEMMA IsNat == ASSUME NEW m, NEW mf PROVE Is(m, mf) \in Nat
BY DEF Is

LEMMA HitsAppend ==
    ASSUME NEW q \in Seq(HitSet), NEW p \in HitSet, NEW mf
    PROVE  /\ Append(q, p) \in Seq(HitSet)
           /\ Times(Hits(Append(q, p)), mf) = Times(Hits(q), mf) + Is(p.mf, mf)
<1>1. Hits(Append(q, p)) = Append(Hits(q), p.mf)
  <2> DEFINE w == Append(q, p)
             c == Hits(q)
             v == p.mf
             a == Hits(w)
             b == Append(c, v)
             n == Len(q) + 1
  <2>1. /\ DOMAIN q = 1 .. Len(q) /\ Len(q) \in Nat
        /\ DOMAIN w = 1 .. n /\ w[n] = p
        /\ \A k \in 1 .. Len(q) : w[k] = q[k]
    OBVIOUS
  <2>2. c \in Seq(MemFetch) /\ DOMAIN c = 1 .. Len(q)
    BY <2>1, HitsTyped
  <2> HIDE DEF w
  <2>3. /\ \A k \in 1 .. Len(q) : c[k] = q[k].mf
        /\ \A k \in 1 .. n : a[k] = w[k].mf
        /\ a = [k \in 1 .. n |-> a[k]]
    BY <2>1 DEF Hits
  <2> HIDE DEF c, a
  <2>4. v \in MemFetch
    BY DEF HitSet
  <2>5. v = p.mf
    OBVIOUS
  <2> HIDE DEF v
  <2>6. DOMAIN b = 1 .. n /\ b[n] = v /\ \A k \in 1 .. Len(q) : b[k] = c[k]
    BY <2>1, <2>2, <2>4
  <2>7. b = [k \in 1 .. n |-> b[k]]
    <3>1. b \in Seq(MemFetch)
      BY <2>2, <2>4
    <3> HIDE DEF b
    <3> QED BY <2>6, <3>1
  <2>8. \A k \in 1 .. n : k \in 1 .. Len(q) \/ k = n
    BY <2>1
  <2>9. n \in 1 .. n
    BY <2>1
  <2> HIDE DEF b
  <2>10. \A k \in 1 .. Len(q) : k \in 1 .. n
    BY <2>1
  <2> HIDE DEF n
  <2>11. \A k \in 1 .. n : a[k] = b[k]
    BY <2>1, <2>3, <2>5, <2>6, <2>8, <2>9, <2>10
  <2>12. a = b
    BY <2>3, <2>7, <2>11
  <2> QED BY <2>12 DEF a, b, c, w, v
<1>2. Hits(q) \in Seq(MemFetch) /\ p.mf \in MemFetch
  BY HitsTyped DEF HitSet
<1>3. Times(Append(Hits(q), p.mf), mf) = Times(Hits(q), mf) + (IF p.mf = mf THEN 1 ELSE 0)
  BY <1>2, TimesAppend
<1> QED BY <1>1, <1>3 DEF Is

\* The request that leaves its bank.
LEMMA BankLoses ==
    ASSUME Typed, HomedSm, NEW s \in Sm, NEW b \in Sector, m_queue_sm_to_l1[s][b] # <<>>,
           LeaveBank(s, b)
    PROVE  /\ BankFront(s, b) \in MemFetch
           /\ m_sm_id[BankFront(s, b)] = s /\ m_sector_mask[BankFront(s, b)] = b
           /\ m_queue_sm_to_l1' \in [Sm -> [Sector -> Seq(MemFetch)]]
           /\ \A n \in Sm, k \in Sector :
                 Within(m_queue_sm_to_l1'[n][k]) \subseteq Within(m_queue_sm_to_l1[n][k])
           /\ \A mf \in MemFetch : Banked(mf) = Banked(mf)' + Is(BankFront(s, b), mf)
<1> DEFINE q == m_queue_sm_to_l1[s][b]
           m == Head(q)
<1>1. m_queue_sm_to_l1 \in [Sm -> [Sector -> Seq(MemFetch)]] /\ q \in Seq(MemFetch) /\ q # <<>>
  BY DEF Typed
<1>2. m_queue_sm_to_l1' = [m_queue_sm_to_l1 EXCEPT ![s][b] = Tail(q)]
  BY DEF LeaveBank
<1>3. /\ m \in MemFetch /\ m \in Within(q) /\ Tail(q) \in Seq(MemFetch)
      /\ Within(Tail(q)) \subseteq Within(q)
      /\ \A mf : Times(q, mf) = Times(Tail(q), mf) + (IF m = mf THEN 1 ELSE 0)
  <2> HIDE DEF q
  <2> QED BY <1>1, TailWithin, TimesTail
<1>4. m_sm_id[m] = s /\ m_sector_mask[m] = b
  BY <1>3 DEF HomedSm
<1>5. /\ m_queue_sm_to_l1'[s][b] = Tail(q)
      /\ \A n \in Sm, k \in Sector : n # s \/ k # b => m_queue_sm_to_l1'[n][k] = m_queue_sm_to_l1[n][k]
      /\ m_queue_sm_to_l1' \in [Sm -> [Sector -> Seq(MemFetch)]]
  BY <1>1, <1>2, <1>3
<1>6. ASSUME NEW mf \in MemFetch PROVE Banked(mf) = Banked(mf)' + Is(m, mf)
  <2>1. CASE m_sm_id[mf] = s /\ m_sector_mask[mf] = b
    <3>1. Banked(mf) = Times(q, mf) /\ Banked(mf)' = Times(Tail(q), mf)
      BY <1>5, <2>1 DEF Banked
    <3> HIDE DEF q, m
    <3> QED BY <1>3, <3>1 DEF Is
  <2>2. CASE ~(m_sm_id[mf] = s /\ m_sector_mask[mf] = b)
    <3>1. m_queue_sm_to_l1'[m_sm_id[mf]][m_sector_mask[mf]] = m_queue_sm_to_l1[m_sm_id[mf]][m_sector_mask[mf]]
      BY <1>5, <2>2, RequestHome
    <3>2. Banked(mf)' = Banked(mf) /\ Banked(mf) \in Nat
      <4>1. m_queue_sm_to_l1[m_sm_id[mf]][m_sector_mask[mf]] \in Seq(MemFetch)
        BY <1>1, RequestHome
      <4> QED BY <3>1, <4>1, TimesFacts DEF Banked
    <3>3. m # mf
      BY <1>4, <2>2
    <3> HIDE DEF m
    <3> QED BY <3>2, <3>3 DEF Is
  <2> QED BY <2>1, <2>2
<1>7. \A n \in Sm, k \in Sector :
         Within(m_queue_sm_to_l1'[n][k]) \subseteq Within(m_queue_sm_to_l1[n][k])
  BY <1>3, <1>5
<1> QED BY <1>3, <1>4, <1>5, <1>6, <1>7 DEF BankFront

MissJoined(s, m) == m_miss_queue' = [m_miss_queue EXCEPT ![s] = Append(@, m)]

LEMMA MissGets ==
    ASSUME Typed, HomedSm, NEW s \in Sm, NEW m \in MemFetch, m_sm_id[m] = s, MissJoined(s, m)
    PROVE  /\ m_miss_queue' \in [Sm -> Seq(MemFetch)]
           /\ \A n \in Sm : \A mf \in Within(m_miss_queue'[n]) : m_sm_id[mf] = n
           /\ \A mf \in MemFetch : Missed(mf)' = Missed(mf) + Is(m, mf)
<1> DEFINE q == m_miss_queue[s]
           a == Append(q, m)
<1>1. m_miss_queue \in [Sm -> Seq(MemFetch)] /\ q \in Seq(MemFetch)
  BY DEF Typed
<1>2. /\ a \in Seq(MemFetch) /\ Within(a) = Within(q) \cup {m}
      /\ \A mf : Times(a, mf) = Times(q, mf) + (IF m = mf THEN 1 ELSE 0)
  <2> HIDE DEF q
  <2> QED BY <1>1, AppendWithin, TimesAppend
<1> HIDE DEF a
<1>3. /\ m_miss_queue' \in [Sm -> Seq(MemFetch)] /\ m_miss_queue'[s] = a
      /\ \A n \in Sm : n # s => m_miss_queue'[n] = m_miss_queue[n]
  <2>1. m_miss_queue' = [m_miss_queue EXCEPT ![s] = a]
    BY DEF a, MissJoined
  <2>2. m_miss_queue \in [Sm -> Seq(MemFetch)] /\ a \in Seq(MemFetch)
    BY <1>1, <1>2
  <2> HIDE DEF q
  <2> QED BY <2>1, <2>2
<1>4. \A n \in Sm : \A mf \in Within(m_miss_queue'[n]) : m_sm_id[mf] = n
  BY <1>2, <1>3 DEF HomedSm
<1>5. ASSUME NEW mf \in MemFetch PROVE Missed(mf)' = Missed(mf) + Is(m, mf)
  <2>1. CASE m_sm_id[mf] = s
    <3>1. Missed(mf) = Times(q, mf) /\ Missed(mf)' = Times(a, mf)
      BY <1>3, <2>1 DEF Missed
    <3> HIDE DEF q
    <3> QED BY <1>2, <3>1 DEF Is
  <2>2. CASE m_sm_id[mf] # s
    <3>1. Missed(mf)' = Missed(mf)
      BY <1>3, <2>2, RequestHome DEF Missed
    <3>2. Missed(mf) \in Nat
      BY <1>1, RequestHome, TimesFacts DEF Missed
    <3> QED BY <2>2, <3>1, <3>2 DEF Is
  <2> QED BY <2>1, <2>2
<1> QED BY <1>3, <1>4, <1>5

HitJoined(s, e) == l1_to_sm' = [l1_to_sm EXCEPT ![s] = Append(@, e)]

LEMMA HitGets ==
    ASSUME Typed, HomedSm, NEW s \in Sm, NEW e \in HitSet, m_sm_id[e.mf] = s, HitJoined(s, e)
    PROVE  /\ l1_to_sm' \in [Sm -> Seq(HitSet)]
           /\ \A n \in Sm : \A h \in Within(l1_to_sm'[n]) : m_sm_id[h.mf] = n
           /\ \A mf \in MemFetch : Hitting(mf)' = Hitting(mf) + Is(e.mf, mf)
<1> DEFINE q == l1_to_sm[s]
           a == Append(q, e)
<1>1. l1_to_sm \in [Sm -> Seq(HitSet)] /\ q \in Seq(HitSet)
  BY DEF Typed
<1>2. /\ a \in Seq(HitSet) /\ Within(a) = Within(q) \cup {e}
      /\ \A mf : Times(Hits(a), mf) = Times(Hits(q), mf) + Is(e.mf, mf)
  <2> HIDE DEF q
  <2> QED BY <1>1, AppendWithin, HitsAppend
<1> HIDE DEF a
<1>3. /\ l1_to_sm' \in [Sm -> Seq(HitSet)] /\ l1_to_sm'[s] = a
      /\ \A n \in Sm : n # s => l1_to_sm'[n] = l1_to_sm[n]
  <2>1. l1_to_sm' = [l1_to_sm EXCEPT ![s] = a]
    BY DEF a, HitJoined
  <2>2. l1_to_sm \in [Sm -> Seq(HitSet)] /\ a \in Seq(HitSet)
    BY <1>1, <1>2
  <2> HIDE DEF q
  <2> QED BY <2>1, <2>2
<1>4. \A n \in Sm : \A h \in Within(l1_to_sm'[n]) : m_sm_id[h.mf] = n
  BY <1>2, <1>3 DEF HomedSm
<1>5. ASSUME NEW mf \in MemFetch PROVE Hitting(mf)' = Hitting(mf) + Is(e.mf, mf)
  <2>1. CASE m_sm_id[mf] = s
    <3>1. Hitting(mf) = Times(Hits(q), mf) /\ Hitting(mf)' = Times(Hits(a), mf)
      BY <1>3, <2>1 DEF Hitting
    <3> HIDE DEF q
    <3> QED BY <1>2, <3>1
  <2>2. CASE m_sm_id[mf] # s
    <3>1. Hitting(mf)' = Hitting(mf)
      BY <1>3, <2>2, RequestHome DEF Hitting
    <3>2. Hitting(mf) \in Nat
      <4>1. Hits(l1_to_sm[m_sm_id[mf]]) \in Seq(MemFetch)
        BY <1>1, RequestHome, HitsTyped
      <4> QED BY <4>1, TimesFacts DEF Hitting
    <3>3. e.mf # mf
      BY <2>2
    <3> QED BY <3>1, <3>2, <3>3 DEF Is
  <2> QED BY <2>1, <2>2
<1> QED BY <1>3, <1>4, <1>5

\* The request that joins the MSHR entry of its sector.
EntryJoined(s, m) == l1_mshrs' = [l1_mshrs EXCEPT ![s] = mshr_add(@, m_sector_address(m), m)]

LEMMA EntryGets ==
    ASSUME Typed, HomedSm, NEW s \in Sm, NEW m \in MemFetch, m_sm_id[m] = s, ~is_write[m],
           EntryJoined(s, m)
    PROVE  /\ l1_mshrs' \in [Sm -> [SectorAddr -> Seq(MemFetch)]]
           /\ \A n \in Sm, x \in SectorAddr : \A mf \in Within(l1_mshrs'[n][x]) :
                 m_sm_id[mf] = n /\ m_sector_address(mf) = x /\ ~is_write[mf]
           /\ Entry(m) \in Seq(MemFetch)
           /\ \A mf \in MemFetch :
                 /\ IF m_sm_id[mf] = s /\ m_sector_address(mf) = m_sector_address(m)
                    THEN Entry(mf) = Entry(m) /\ Entry(mf)' = Append(Entry(m), m)
                    ELSE Entry(mf)' = Entry(mf)
                 /\ Merged(mf)' = Merged(mf) + Is(m, mf)
<1> DEFINE x == m_sector_address(m)
           q == l1_mshrs[s][x]
           a == Append(q, m)
<1>1. x \in SectorAddr /\ l1_mshrs \in [Sm -> [SectorAddr -> Seq(MemFetch)]] /\ q \in Seq(MemFetch)
  BY RequestHome DEF Typed
<1>2. /\ a \in Seq(MemFetch) /\ Within(a) = Within(q) \cup {m}
      /\ \A mf : Times(a, mf) = Times(q, mf) + (IF m = mf THEN 1 ELSE 0)
  <2> HIDE DEF q
  <2> QED BY <1>1, AppendWithin, TimesAppend
<1>3. l1_mshrs' = [l1_mshrs EXCEPT ![s] = [@ EXCEPT ![x] = a]]
  BY <1>1 DEF EntryJoined, mshr_add
<1>4. Entry(m) = q
  BY DEF Entry
<1>5. x = m_sector_address(m) /\ q = l1_mshrs[s][x] /\ a = Append(q, m)
  OBVIOUS
<1> HIDE DEF a, q, x
<1>6. /\ l1_mshrs' \in [Sm -> [SectorAddr -> Seq(MemFetch)]]
      /\ \A n \in Sm, y \in SectorAddr :
            l1_mshrs'[n][y] = IF n = s /\ y = x THEN a ELSE l1_mshrs[n][y]
  <2> DEFINE row == [l1_mshrs[s] EXCEPT ![x] = a]
  <2>1. row \in [SectorAddr -> Seq(MemFetch)] /\ row[x] = a
        /\ \A y \in SectorAddr : y # x => row[y] = l1_mshrs[s][y]
    BY <1>1, <1>2
  <2>2. l1_mshrs' = [l1_mshrs EXCEPT ![s] = row]
    BY <1>3
  <2> HIDE DEF row
  <2>3. l1_mshrs' \in [Sm -> [SectorAddr -> Seq(MemFetch)]] /\ l1_mshrs'[s] = row
        /\ \A n \in Sm : n # s => l1_mshrs'[n] = l1_mshrs[n]
    BY <1>1, <2>1, <2>2
  <2> QED BY <2>1, <2>3
<1>7. ASSUME NEW n \in Sm, NEW y \in SectorAddr, NEW mf \in Within(l1_mshrs'[n][y])
      PROVE  m_sm_id[mf] = n /\ m_sector_address(mf) = y /\ ~is_write[mf]
  <2>1. CASE n = s /\ y = x
    <3>1. mf \in Within(q) \/ mf = m
      BY <1>2, <1>6, <1>7, <2>1
    <3> QED BY <1>1, <1>5, <2>1, <3>1 DEF HomedSm
  <2>2. CASE ~(n = s /\ y = x)
    <3>1. mf \in Within(l1_mshrs[n][y])
      BY <1>6, <1>7, <2>2
    <3> QED BY <3>1 DEF HomedSm
  <2> QED BY <2>1, <2>2
<1>8. ASSUME NEW mf \in MemFetch
      PROVE  /\ IF m_sm_id[mf] = s /\ m_sector_address(mf) = x
                THEN Entry(mf) = q /\ Entry(mf)' = a ELSE Entry(mf)' = Entry(mf)
             /\ Merged(mf)' = Merged(mf) + Is(m, mf)
  <2>1. CASE m_sm_id[mf] = s /\ m_sector_address(mf) = x
    <3>1. Entry(mf) = q /\ Entry(mf)' = a
      BY <1>1, <1>5, <1>6, <2>1 DEF Entry
    <3>2. Merged(mf)' = Merged(mf) + Is(m, mf)
      BY <1>2, <3>1 DEF Merged, Is
    <3> QED BY <2>1, <3>1, <3>2
  <2>2. CASE ~(m_sm_id[mf] = s /\ m_sector_address(mf) = x)
    <3>1. Entry(mf)' = Entry(mf)
      BY <1>6, <2>2, RequestHome DEF Entry
    <3>2. Merged(mf)' = Merged(mf) /\ Merged(mf) \in Nat
      <4>1. Entry(mf) \in Seq(MemFetch)
        BY <1>1, RequestHome DEF Entry
      <4> QED BY <3>1, <4>1, TimesFacts DEF Merged
    <3>3. m # mf
      BY <1>5, <2>2
    <3> QED BY <2>2, <3>1, <3>2, <3>3 DEF Is
  <2> QED BY <2>1, <2>2
<1> QED BY <1>1, <1>4, <1>5, <1>6, <1>7, <1>8

\* What an SM does alone changes Below by what it puts into its miss queue.
LEMMA BelowMissed ==
    ASSUME MInv, NEW s, Alone(s), reply' = reply, NEW mf \in MemFetch,
           NEW k \in Nat, Missed(mf)' = Missed(mf) + k
    PROVE  Below(mf)' = Below(mf) + k /\ Below(mf) \in Nat
<1>1. CountsNat
  BY CountsNow DEF MInv
<1>2. /\ Missed(mf) \in Nat /\ Sent(mf) \in Nat /\ Arriving(mf) \in Nat /\ Looking(mf) \in Nat
      /\ Answering(mf) \in Nat /\ Answered(mf) \in Nat /\ Returning(mf) \in Nat /\ Popping(mf) \in Nat
      /\ Below(mf) = Missed(mf) + Sent(mf) + Arriving(mf) + Looking(mf)
                        + Answering(mf) + Answered(mf) + Returning(mf) + Popping(mf)
  BY <1>1 DEF CountsNat
<1>3. Below(mf)' = Missed(mf)' + Sent(mf)' + Arriving(mf)' + Looking(mf)'
                    + Answering(mf)' + Answered(mf)' + Returning(mf)' + Popping(mf)'
  BY DEF Below, Missed, Sent, Arriving, Looking, Answering, Answered, Returning, Popping
<1>4. /\ Sent(mf)' = Sent(mf) /\ Arriving(mf)' = Arriving(mf) /\ Looking(mf)' = Looking(mf)
      /\ Answering(mf)' = Answering(mf) /\ Answered(mf)' = Answered(mf)
      /\ Returning(mf)' = Returning(mf)
  BY AloneFrame
<1>5. Popping(mf)' = Popping(mf)
  BY DEF Popping
<1> QED BY <1>2, <1>3, <1>4, <1>5

\* No request is made and none comes back.
LEMMA OutOn ==
    ASSUME MInv, \A mf \in MemFetch : Out(mf)' = Out(mf),
           UNCHANGED <<unit, pending_request, completed, unissued>>
    PROVE  OutOnce' /\ Counted' /\ InUnits' /\ Completes'
<1>1. \A mf \in MemFetch : Unmade(mf)' <=> Unmade(mf)
  BY DEF Unmade
<1>2. OutOnce'
  BY <1>1 DEF MInv, OutOnce
<1>3. Counted'
  <2>1. \A i \in Inst : RequestsOf(i) \subseteq MemFetch
    BY RequestFacts
  <2>2. \A i \in Inst : OutOf(i)' = OutOf(i)
    BY <2>1 DEF OutOf
  <2> QED BY <2>2 DEF MInv, Counted
<1>4. InUnits' /\ Completes'
  BY DEF MInv, InUnits, Completes, Fresh
<1> QED BY <1>2, <1>3, <1>4

\* cache_access: the request in front of a bank stays, or moves to the hits,
\* to the miss queue, to the MSHR entry of its sector, or to these two.
LEMMA BankStep ==
    ASSUME MInv, NEW s \in Sm, NEW b \in Sector, Alone(s), l1_cache_bank(s, b)
    PROVE  MInv'
<1> DEFINE m == BankFront(s, b)
<1>1. /\ Typed /\ HomedSm /\ LoadsBelow
      /\ step = <<"bank", b>>
      /\ UNCHANGED <<cycles, reply, unit, pending_request, completed, unissued>>
      /\ \/ BankEmpty(s, b)
         \/ /\ m_queue_sm_to_l1[s][b] # <<>>
            /\ L1Hit(s, b) \/ L1StoreMiss(s, b) \/ L1LoadMiss(s, b) \/ L1Retry(s, b)
  BY DEF MInv, l1_cache_bank, At
<1>2. ReplyHere'
  <2>1. reply = {}
    BY <1>1 DEF MInv, ReplyHere
  <2> QED BY <1>1, <2>1 DEF ReplyHere
<1>3. CountsNat
  BY <1>1, CountsNow DEF MInv
<1>4. ASSUME l1_mshrs' \in [Sm -> [SectorAddr -> Seq(MemFetch)]],
             m_queue_sm_to_l1' \in [Sm -> [Sector -> Seq(MemFetch)]],
             m_miss_queue' \in [Sm -> Seq(MemFetch)], l1_to_sm' \in [Sm -> Seq(HitSet)],
             \A n \in Sm : \A mf \in Within(m_miss_queue'[n]) : m_sm_id[mf] = n,
             \A n \in Sm : \A h \in Within(l1_to_sm'[n]) : m_sm_id[h.mf] = n,
             \A n \in Sm, k \in Sector :
                Within(m_queue_sm_to_l1'[n][k]) \subseteq Within(m_queue_sm_to_l1[n][k]),
             \A n \in Sm, x \in SectorAddr : \A mf \in Within(l1_mshrs'[n][x]) :
                m_sm_id[mf] = n /\ m_sector_address(mf) = x /\ ~is_write[mf],
             LoadsBelow', \A mf \in MemFetch : Out(mf)' = Out(mf)
      PROVE  MInv'
  <2>1. Typed'
    BY <1>1, <1>4, AloneFrame DEF Typed
  <2>2. \A n \in Sm, k \in Sector : \A mf \in Within(m_queue_sm_to_l1'[n][k]) :
           m_sm_id[mf] = n /\ m_sector_mask[mf] = k
    <3>1. \A n \in Sm, k \in Sector : \A mf \in Within(m_queue_sm_to_l1[n][k]) :
             m_sm_id[mf] = n /\ m_sector_mask[mf] = k
      BY <1>1 DEF HomedSm
    <3>2. \A n \in Sm, k \in Sector :
             Within(m_queue_sm_to_l1'[n][k]) \subseteq Within(m_queue_sm_to_l1[n][k])
      BY <1>4
    <3> QED BY <3>1, <3>2
  <2>3. HomedSm'
    BY <1>4, <2>2 DEF HomedSm
  <2>4. OutOnce' /\ Counted' /\ InUnits' /\ Completes'
    BY <1>1, <1>4, OutOn
  <2> QED BY <1>2, <1>4, <2>1, <2>3, <2>4, AloneFrame DEF MInv
<1>5. CASE BankEmpty(s, b) \/ L1Retry(s, b)
  <2>1. UNCHANGED <<l1_mshrs, l1_to_sm, m_miss_queue, m_queue_sm_to_l1>>
    BY <1>5 DEF BankEmpty, L1Retry
  <2>2. \A mf \in MemFetch : Below(mf)' = Below(mf)
    BY <1>1, <2>1 DEF Below, Alone, l2Vars
  <2>3. Tallies'
    BY <1>1, <2>1, <2>2, CarriedOn DEF MInv, Tallies
  <2>4. Typed'
    BY <1>1, <2>1, AloneFrame DEF Typed
  <2>5. HomedSm'
    BY <1>1, <2>1 DEF HomedSm
  <2> QED BY <1>2, <2>3, <2>4, <2>5, AloneFrame DEF MInv, Tallies
<1>6. ASSUME m_queue_sm_to_l1[s][b] # <<>>, LeaveBank(s, b)
      PROVE  /\ m \in MemFetch /\ m_sm_id[m] = s
             /\ m_queue_sm_to_l1' \in [Sm -> [Sector -> Seq(MemFetch)]]
             /\ \A n \in Sm, k \in Sector :
                   Within(m_queue_sm_to_l1'[n][k]) \subseteq Within(m_queue_sm_to_l1[n][k])
             /\ \A mf \in MemFetch : Banked(mf) = Banked(mf)' + Is(m, mf) /\ Banked(mf)' \in Nat
  <2>1. /\ m \in MemFetch /\ m_sm_id[m] = s
        /\ m_queue_sm_to_l1' \in [Sm -> [Sector -> Seq(MemFetch)]]
        /\ \A n \in Sm, k \in Sector :
              Within(m_queue_sm_to_l1'[n][k]) \subseteq Within(m_queue_sm_to_l1[n][k])
        /\ \A mf \in MemFetch : Banked(mf) = Banked(mf)' + Is(m, mf)
    BY <1>1, <1>6, BankLoses
  <2>2. ASSUME NEW mf \in MemFetch PROVE Banked(mf)' \in Nat
    <3>1. m_queue_sm_to_l1'[m_sm_id[mf]][m_sector_mask[mf]] \in Seq(MemFetch)
      BY <2>1, RequestHome
    <3> QED BY <3>1, TimesFacts DEF Banked
  <2> QED BY <2>1, <2>2
<1>7. CASE m_queue_sm_to_l1[s][b] # <<>> /\ L1Hit(s, b)
  <2> DEFINE e == [mf |-> m, m_l1_ready_time |-> cycles[s] + l1_hit_latency]
  <2>1. /\ LeaveBank(s, b) /\ l1_to_sm' = [l1_to_sm EXCEPT ![s] = Append(@, e)]
        /\ UNCHANGED <<l1_mshrs, m_miss_queue>>
    BY <1>7 DEF L1Hit, ReadyLater
  <2>2. e \in HitSet /\ e.mf = m
    <3>1. cycles[s] \in Nat /\ l1_hit_latency \in Nat
      BY <1>1, L1Assumption DEF Typed
    <3> QED BY <1>6, <1>7, <2>1, <3>1 DEF HitSet
  <2> HIDE DEF e
  <2>3. m_sm_id[m] = s /\ m \in MemFetch
    BY <1>6, <1>7, <2>1
  <2>4. /\ l1_to_sm' \in [Sm -> Seq(HitSet)]
        /\ \A n \in Sm : \A h \in Within(l1_to_sm'[n]) : m_sm_id[h.mf] = n
        /\ \A mf \in MemFetch : Hitting(mf)' = Hitting(mf) + Is(m, mf)
    <3>1. m_sm_id[e.mf] = s
      BY <2>2, <2>3
    <3>2. HitJoined(s, e)
      BY <2>1 DEF HitJoined
    <3> HIDE DEF m
    <3> QED BY <1>1, <2>2, <3>1, <3>2, HitGets
  <2>5. ASSUME NEW mf \in MemFetch
        PROVE  Below(mf)' = Below(mf) /\ Out(mf)' = Out(mf) /\ Entry(mf)' = Entry(mf)
    <3>1. Below(mf)' = Below(mf)
      BY <1>1, <2>1 DEF Below, Alone, l2Vars
    <3>2. Entry(mf)' = Entry(mf) /\ Merged(mf)' = Merged(mf)
      BY <2>1 DEF Merged, Entry
    <3>3. Banked(mf) = Banked(mf)' + Is(m, mf) /\ Banked(mf)' \in Nat
      BY <1>6, <1>7, <2>1
    <3>4. Hitting(mf)' = Hitting(mf) + Is(m, mf) /\ Hitting(mf) \in Nat /\ Is(m, mf) \in Nat
      BY <1>3, <2>4, IsNat DEF CountsNat
    <3>5. Banked(mf)' + Hitting(mf)' = Banked(mf) + Hitting(mf)
      BY <3>3, <3>4
    <3> QED BY <3>1, <3>2, <3>5 DEF Out
  <2>6. LoadsBelow'
    BY <1>1, <2>5 DEF LoadsBelow
  <2>7. /\ l1_mshrs' \in [Sm -> [SectorAddr -> Seq(MemFetch)]] /\ m_miss_queue' \in [Sm -> Seq(MemFetch)]
    BY <1>1, <2>1 DEF Typed
  <2>8. /\ \A n \in Sm : \A mf \in Within(m_miss_queue'[n]) : m_sm_id[mf] = n
        /\ \A n \in Sm, x \in SectorAddr : \A mf \in Within(l1_mshrs'[n][x]) :
                m_sm_id[mf] = n /\ m_sector_address(mf) = x /\ ~is_write[mf]
    BY <1>1, <2>1 DEF HomedSm
  <2> HIDE DEF m
  <2> QED BY <1>4, <1>6, <1>7, <2>1, <2>4, <2>5, <2>6, <2>7, <2>8
<1>8. CASE m_queue_sm_to_l1[s][b] # <<>> /\ L1StoreMiss(s, b)
  <2>1. /\ LeaveBank(s, b) /\ is_write[m]
        /\ m_miss_queue' = [m_miss_queue EXCEPT ![s] = Append(@, m)]
        /\ UNCHANGED <<l1_mshrs, l1_to_sm>>
    BY <1>8 DEF L1StoreMiss, ToMissQueue
  <2>2. m_sm_id[m] = s /\ m \in MemFetch
    BY <1>6, <1>8, <2>1
  <2> HIDE DEF m
  <2>3. /\ m_miss_queue' \in [Sm -> Seq(MemFetch)]
        /\ \A n \in Sm : \A mf \in Within(m_miss_queue'[n]) : m_sm_id[mf] = n
        /\ \A mf \in MemFetch : Missed(mf)' = Missed(mf) + Is(m, mf)
    <3>1. MissJoined(s, m)
      BY <2>1 DEF MissJoined
    <3> QED BY <1>1, <2>2, <3>1, MissGets
  <2>4. ASSUME NEW mf \in MemFetch
        PROVE  /\ Below(mf)' = Below(mf) + Is(m, mf) /\ Out(mf)' = Out(mf)
               /\ Entry(mf)' = Entry(mf) /\ Below(mf) \in Nat
    <3>1. Below(mf)' = Below(mf) + Is(m, mf) /\ Below(mf) \in Nat
      BY <1>1, <2>3, IsNat, BelowMissed
    <3>2. Entry(mf)' = Entry(mf) /\ Merged(mf)' = Merged(mf) /\ Hitting(mf)' = Hitting(mf)
      BY <2>1 DEF Merged, Entry, Hitting
    <3>3. Banked(mf) = Banked(mf)' + Is(m, mf) /\ Banked(mf)' \in Nat
      BY <1>6, <1>8, <2>1
    <3>4. Hitting(mf) \in Nat /\ Is(m, mf) \in Nat
      BY <1>3, IsNat DEF CountsNat
    <3>5. CASE is_write[mf]
      <4>1. Banked(mf)' + Hitting(mf) + Below(mf)' = Banked(mf) + Hitting(mf) + Below(mf)
        BY <3>1, <3>3, <3>4
      <4> QED BY <3>1, <3>2, <3>5, <4>1 DEF Out
    <3>6. CASE ~is_write[mf]
      <4>1. Is(m, mf) = 0
        BY <2>1, <3>6 DEF Is
      <4>2. Banked(mf)' = Banked(mf)
        BY <3>3, <4>1
      <4> QED BY <3>1, <3>2, <3>6, <4>2 DEF Out
    <3> QED BY <3>5, <3>6
  <2>5. LoadsBelow'
    <3>1. \A mf \in MemFetch : ~is_write[mf] => Below(mf)' = Below(mf)
      <4>1. \A mf \in MemFetch : ~is_write[mf] => Is(m, mf) = 0
        BY <2>1 DEF Is
      <4> QED BY <2>4, <4>1
    <3> QED BY <1>1, <2>4, <3>1 DEF LoadsBelow
  <2>6. l1_mshrs' \in [Sm -> [SectorAddr -> Seq(MemFetch)]] /\ l1_to_sm' \in [Sm -> Seq(HitSet)]
    BY <1>1, <2>1 DEF Typed
  <2>7. /\ \A n \in Sm : \A h \in Within(l1_to_sm'[n]) : m_sm_id[h.mf] = n
        /\ \A n \in Sm, x \in SectorAddr : \A mf \in Within(l1_mshrs'[n][x]) :
                m_sm_id[mf] = n /\ m_sector_address(mf) = x /\ ~is_write[mf]
    BY <1>1, <2>1 DEF HomedSm
  <2> QED BY <1>4, <1>6, <1>8, <2>1, <2>3, <2>4, <2>5, <2>6, <2>7
<1>9. CASE m_queue_sm_to_l1[s][b] # <<>> /\ L1LoadMiss(s, b)
  <2> DEFINE x == m_sector_address(m)
  <2>1. /\ LeaveBank(s, b) /\ ~is_write[m]
        /\ l1_mshrs' = [l1_mshrs EXCEPT ![s] = mshr_add(@, x, m)]
        /\ IF l1_mshrs[s][x] # <<>> THEN m_miss_queue' = m_miss_queue
           ELSE m_miss_queue' = [m_miss_queue EXCEPT ![s] = Append(@, m)]
        /\ UNCHANGED l1_to_sm
    BY <1>9 DEF L1LoadMiss, ToMissQueue, mshr_probe
  <2>2. m_sm_id[m] = s /\ m \in MemFetch
    BY <1>6, <1>9, <2>1
  <2>3. Entry(m) = l1_mshrs[s][x]
    BY <2>2 DEF Entry
  <2> HIDE DEF m
  <2>4. /\ l1_mshrs' \in [Sm -> [SectorAddr -> Seq(MemFetch)]]
        /\ \A n \in Sm, y \in SectorAddr : \A mf \in Within(l1_mshrs'[n][y]) :
              m_sm_id[mf] = n /\ m_sector_address(mf) = y /\ ~is_write[mf]
        /\ Entry(m) \in Seq(MemFetch)
        /\ \A mf \in MemFetch :
              /\ IF m_sm_id[mf] = s /\ m_sector_address(mf) = x
                 THEN Entry(mf) = Entry(m) /\ Entry(mf)' = Append(Entry(m), m)
                 ELSE Entry(mf)' = Entry(mf)
              /\ Merged(mf)' = Merged(mf) + Is(m, mf)
    <3>1. Typed /\ HomedSm /\ m \in MemFetch /\ m_sm_id[m] = s /\ ~is_write[m]
      BY <1>1, <2>1, <2>2
    <3>2. EntryJoined(s, m)
      BY <2>1 DEF EntryJoined
    <3>3. x = m_sector_address(m)
      OBVIOUS
    <3> HIDE DEF x
    <3> QED BY <3>1, <3>2, <3>3, EntryGets
  <2>5. /\ m_miss_queue' \in [Sm -> Seq(MemFetch)]
        /\ \A n \in Sm : \A mf \in Within(m_miss_queue'[n]) : m_sm_id[mf] = n
        /\ \A mf \in MemFetch : Missed(mf)' = Missed(mf) + (IF Entry(m) = <<>> THEN Is(m, mf) ELSE 0)
    <3>1. CASE Entry(m) = <<>>
      <4>1. MissJoined(s, m)
        BY <2>1, <2>3, <3>1 DEF MissJoined
      <4>2. /\ m_miss_queue' \in [Sm -> Seq(MemFetch)]
            /\ \A n \in Sm : \A mf \in Within(m_miss_queue'[n]) : m_sm_id[mf] = n
            /\ \A mf \in MemFetch : Missed(mf)' = Missed(mf) + Is(m, mf)
        BY <1>1, <2>2, <4>1, MissGets
      <4> QED BY <3>1, <4>2
    <3>2. CASE Entry(m) # <<>>
      <4>1. m_miss_queue' = m_miss_queue
        BY <2>1, <2>3, <3>2
      <4>2. \A mf \in MemFetch : Missed(mf)' = Missed(mf) /\ Missed(mf) \in Nat
        BY <1>3, <4>1 DEF CountsNat, Missed
      <4>3. /\ m_miss_queue' \in [Sm -> Seq(MemFetch)]
            /\ \A n \in Sm : \A mf \in Within(m_miss_queue'[n]) : m_sm_id[mf] = n
        BY <1>1, <4>1 DEF Typed, HomedSm
      <4> QED BY <3>2, <4>2, <4>3
    <3> QED BY <3>1, <3>2
  <2>6. ASSUME NEW mf \in MemFetch
        PROVE  /\ Below(mf)' = Below(mf) + (IF Entry(m) = <<>> THEN Is(m, mf) ELSE 0)
               /\ Below(mf) \in Nat
    <3> DEFINE j == IF Entry(m) = <<>> THEN Is(m, mf) ELSE 0
    <3>1. j \in Nat /\ Missed(mf)' = Missed(mf) + j
      BY <2>5, IsNat
    <3> HIDE DEF j
    <3>2. Below(mf)' = Below(mf) + j /\ Below(mf) \in Nat
      BY <1>1, <3>1, BelowMissed
    <3> QED BY <3>2 DEF j
  <2>7. ASSUME NEW mf \in MemFetch PROVE Out(mf)' = Out(mf)
    <3>1. Banked(mf) = Banked(mf)' + Is(m, mf) /\ Banked(mf)' \in Nat
      BY <1>6, <1>9, <2>1 DEF m
    <3>2. /\ Hitting(mf) \in Nat /\ Merged(mf) \in Nat /\ Is(m, mf) \in Nat
          /\ Merged(mf)' = Merged(mf) + Is(m, mf)
      BY <1>3, <2>4, IsNat DEF CountsNat
    <3>3. Hitting(mf)' = Hitting(mf)
      BY <2>1 DEF Hitting
    <3>4. CASE is_write[mf]
      <4>1. Is(m, mf) = 0
        BY <2>1, <3>4 DEF Is
      <4>2. Banked(mf)' = Banked(mf) /\ Below(mf)' = Below(mf)
        BY <2>6, <3>1, <4>1
      <4> QED BY <3>3, <3>4, <4>2 DEF Out
    <3>5. CASE ~is_write[mf]
      <4>1. Banked(mf)' + Hitting(mf) + Merged(mf)' = Banked(mf) + Hitting(mf) + Merged(mf)
        BY <3>1, <3>2
      <4> QED BY <3>3, <3>5, <4>1 DEF Out
    <3> QED BY <3>4, <3>5
  <2>8. ASSUME NEW mf \in MemFetch, ~is_write[mf]
        PROVE  Below(mf)' = IF Entry(mf)' # <<>> /\ Head(Entry(mf)') = mf THEN 1 ELSE 0
    <3>1. Below(mf) = IF Entry(mf) # <<>> /\ Head(Entry(mf)) = mf THEN 1 ELSE 0
      BY <1>1, <2>8 DEF LoadsBelow
    <3>2. CASE m_sm_id[mf] = s /\ m_sector_address(mf) = x
      <4>1. Entry(mf) = Entry(m) /\ Entry(mf)' = Append(Entry(m), m)
        BY <2>4, <3>2
      <4> DEFINE q == Entry(m)
                 a == Append(q, m)
      <4>2. q \in Seq(MemFetch)
        BY <2>4
      <4>3. a # <<>> /\ Head(a) = IF q = <<>> THEN m ELSE Head(q)
        <5> HIDE DEF q
        <5>1. Len(q) \in Nat /\ a # <<>> /\ Head(a) = a[1]
          BY <2>2, <4>2
        <5>2. CASE q = <<>>
          BY <2>2, <5>1, <5>2
        <5>3. CASE q # <<>>
          <6>1. a[1] = q[1] /\ Head(q) = q[1]
            BY <2>2, <4>2, <5>3
          <6> QED BY <5>1, <5>3, <6>1
        <5> QED BY <5>2, <5>3
      <4>4. CASE q = <<>>
        <5>1. Below(mf)' = Is(m, mf)
          BY <2>6, <3>1, <4>1, <4>4, IsNat
        <5> QED BY <4>1, <4>3, <4>4, <5>1 DEF Is
      <4>5. CASE q # <<>>
        <5>1. Below(mf)' = Below(mf)
          BY <2>6, <4>5
        <5> QED BY <3>1, <4>1, <4>3, <4>5, <5>1
      <4> QED BY <4>4, <4>5
    <3>3. CASE ~(m_sm_id[mf] = s /\ m_sector_address(mf) = x)
      <4>1. Entry(mf)' = Entry(mf)
        BY <2>4, <3>3
      <4>2. Is(m, mf) = 0
        BY <2>2, <3>3 DEF Is
      <4>3. Below(mf)' = Below(mf)
        BY <2>6, <4>2
      <4> QED BY <3>1, <4>1, <4>3
    <3> QED BY <3>2, <3>3
  <2>9. LoadsBelow'
    BY <2>8 DEF LoadsBelow
  <2>10. l1_to_sm' \in [Sm -> Seq(HitSet)] /\ \A n \in Sm : \A h \in Within(l1_to_sm'[n]) : m_sm_id[h.mf] = n
    BY <1>1, <2>1 DEF Typed, HomedSm
  <2> QED BY <1>4, <1>6, <1>9, <2>1, <2>4, <2>5, <2>7, <2>9, <2>10
<1> HIDE DEF m
<1> QED BY <1>1, <1>5, <1>7, <1>8, <1>9

-----------------------------------------------------------------------------
(* The LDS units: a request is made, or an instruction issued.             *)

LEMMA UnitBecomes ==
    ASSUME Typed, NEW s \in Sm, NEW u \in Unit, NEW w \in UnitSet,
           unit' = PutAt(unit, s, u, w)
    PROVE  /\ unit' \in [Sm -> [Unit -> UnitSet]] /\ unit'[s][u] = w
           /\ \A n \in Sm, x \in Unit : n # s \/ x # u => unit'[n][x] = unit[n][x]
<1>1. unit \in [Sm -> [Unit -> UnitSet]]
  BY DEF Typed
<1> QED BY <1>1 DEF PutAt

\* What holds of the instruction in a unit.
LEMMA UnitFacts ==
    ASSUME Typed, InUnits, NEW s \in Sm, NEW u \in Unit, unit[s][u].inst # None
    PROVE  LET v == unit[s][u] IN
           /\ v \in UnitSet /\ v.inst \in Inst /\ v.mem_fetch_point \in Nat \ {0}
           /\ m_coalesced_address[v.inst] \in Seq(MemFetch)
           /\ v.mem_fetch_point \in DOMAIN m_coalesced_address[v.inst]
           /\ v.inst \notin unissued /\ SmOfInst(v.inst) = s
           /\ IsInjective(m_coalesced_address[v.inst])
           /\ NextRequest(s, u) = m_coalesced_address[v.inst][v.mem_fetch_point]
           /\ NextRequest(s, u) \in MemFetch /\ NextRequest(s, u) \in RequestsOf(v.inst)
<1> DEFINE v == unit[s][u]
           p == v.mem_fetch_point
           q == m_coalesced_address[v.inst]
<1>1. v \in UnitSet
  BY DEF Typed
<1>2. v.inst \in Inst /\ p \in Nat \ {0} /\ v.inst # None
  BY <1>1 DEF UnitSet
<1>3. v.inst \notin unissued /\ SmOfInst(v.inst) = s /\ p <= Len(q)
  BY DEF InUnits
<1>4. q \in Seq(MemFetch) /\ IsInjective(q)
  BY <1>2, L1Assumption
<1>5. NextRequest(s, u) = q[p] /\ RequestsOf(v.inst) = {q[k] : k \in DOMAIN q}
  BY DEF NextRequest, RequestsOf, Range
<1> HIDE DEF p, q
<1>6. p \in DOMAIN q /\ q[p] \in MemFetch
  BY <1>2, <1>3, <1>4
<1> QED BY <1>1, <1>2, <1>3, <1>4, <1>5, <1>6 DEF p, q

LEMMA BankBecomes ==
    ASSUME m_queue_sm_to_l1 \in [Sm -> [Sector -> Seq(MemFetch)]],
           NEW s \in Sm, NEW c \in Sector, NEW a \in Seq(MemFetch),
           m_queue_sm_to_l1' = PutAt(m_queue_sm_to_l1, s, c, a)
    PROVE  /\ m_queue_sm_to_l1' \in [Sm -> [Sector -> Seq(MemFetch)]] /\ m_queue_sm_to_l1'[s][c] = a
           /\ \A n \in Sm, b \in Sector : n # s \/ b # c => m_queue_sm_to_l1'[n][b] = m_queue_sm_to_l1[n][b]
BY DEF PutAt

\* The request that comes to its bank.
BankJoined(s, m) == m_queue_sm_to_l1' = [m_queue_sm_to_l1 EXCEPT ![s][m_sector_mask[m]] = Append(@, m)]

LEMMA BankGets ==
    ASSUME Typed, HomedSm, NEW s \in Sm, NEW m \in MemFetch, m_sm_id[m] = s, BankJoined(s, m)
    PROVE  /\ m_queue_sm_to_l1' \in [Sm -> [Sector -> Seq(MemFetch)]]
           /\ \A n \in Sm, b \in Sector : \A mf \in Within(m_queue_sm_to_l1'[n][b]) :
                 m_sm_id[mf] = n /\ m_sector_mask[mf] = b
           /\ \A mf \in MemFetch : Banked(mf)' = Banked(mf) + Is(m, mf)
<1> DEFINE c == m_sector_mask[m]
           q == m_queue_sm_to_l1[s][c]
           a == Append(q, m)
<1>1. c \in Sector /\ m_queue_sm_to_l1 \in [Sm -> [Sector -> Seq(MemFetch)]] /\ q \in Seq(MemFetch)
  BY RequestHome DEF Typed
<1>2. /\ a \in Seq(MemFetch) /\ Within(a) = Within(q) \cup {m}
      /\ \A mf : Times(a, mf) = Times(q, mf) + (IF m = mf THEN 1 ELSE 0)
  <2> HIDE DEF q
  <2> QED BY <1>1, AppendWithin, TimesAppend
<1>3. m_queue_sm_to_l1' = [m_queue_sm_to_l1 EXCEPT ![s][c] = a]
  BY DEF BankJoined
<1>4. c = m_sector_mask[m] /\ q = m_queue_sm_to_l1[s][c]
  OBVIOUS
<1> HIDE DEF a, q, c
<1>5. /\ m_queue_sm_to_l1' \in [Sm -> [Sector -> Seq(MemFetch)]] /\ m_queue_sm_to_l1'[s][c] = a
      /\ \A n \in Sm, b \in Sector : n # s \/ b # c => m_queue_sm_to_l1'[n][b] = m_queue_sm_to_l1[n][b]
  <2>1. m_queue_sm_to_l1' = PutAt(m_queue_sm_to_l1, s, c, a)
    BY <1>3 DEF PutAt
  <2>2. m_queue_sm_to_l1 \in [Sm -> [Sector -> Seq(MemFetch)]] /\ a \in Seq(MemFetch) /\ c \in Sector
    BY <1>1, <1>2
  <2> QED BY <2>1, <2>2, BankBecomes
<1>6. ASSUME NEW n \in Sm, NEW b \in Sector, NEW mf \in Within(m_queue_sm_to_l1'[n][b])
      PROVE  m_sm_id[mf] = n /\ m_sector_mask[mf] = b
  <2>1. CASE n = s /\ b = c
    <3>1. mf \in Within(q) \/ mf = m
      BY <1>2, <1>5, <1>6, <2>1
    <3> QED BY <1>1, <1>4, <2>1, <3>1 DEF HomedSm
  <2>2. CASE ~(n = s /\ b = c)
    <3>1. mf \in Within(m_queue_sm_to_l1[n][b])
      BY <1>5, <1>6, <2>2
    <3> QED BY <3>1 DEF HomedSm
  <2> QED BY <2>1, <2>2
<1>7. ASSUME NEW mf \in MemFetch PROVE Banked(mf)' = Banked(mf) + Is(m, mf)
  <2>1. CASE m_sm_id[mf] = s /\ m_sector_mask[mf] = c
    <3>1. Banked(mf) = Times(q, mf) /\ Banked(mf)' = Times(a, mf)
      BY <1>4, <1>5, <2>1 DEF Banked
    <3> QED BY <1>2, <3>1 DEF Is
  <2>2. CASE ~(m_sm_id[mf] = s /\ m_sector_mask[mf] = c)
    <3>1. Banked(mf)' = Banked(mf)
      BY <1>5, <2>2, RequestHome DEF Banked
    <3>2. Banked(mf) \in Nat
      <4>1. m_queue_sm_to_l1[m_sm_id[mf]][m_sector_mask[mf]] \in Seq(MemFetch)
        BY <1>1, RequestHome
      <4> QED BY <4>1, TimesFacts DEF Banked
    <3>3. m # mf
      BY <1>4, <2>2
    <3> QED BY <3>1, <3>2, <3>3 DEF Is
  <2> QED BY <2>1, <2>2
<1> QED BY <1>5, <1>6, <1>7

\* A request that is made is counted for its instruction.
LEMMA Made ==
    ASSUME Typed, CountsNat, OutOnce, Counted, NEW i \in Inst, NEW m \in RequestsOf(i), Unmade(m),
           \A mf \in MemFetch : Out(mf)' = Out(mf) + Is(m, mf),
           \A mf \in MemFetch : Unmade(mf)' => Unmade(mf) /\ mf # m,
           pending_request' = [pending_request EXCEPT ![i] = @ + 1]
    PROVE  /\ OutOnce' /\ Counted'
           /\ pending_request' \in [Inst -> Nat] /\ pending_request'[i] > 0
           /\ \A j \in Inst : j # i => pending_request'[j] = pending_request[j]
<1>1. m \in MemFetch /\ \A j \in Inst : m \in RequestsOf(j) => j = i
  BY RequestFacts
<1>2. Out(m) = 0 /\ Out(m)' = 1
  BY <1>1 DEF OutOnce, Is
<1>3. \A mf \in MemFetch : mf # m => Out(mf)' = Out(mf)
  BY OutNat DEF Is
<1>4. /\ pending_request \in [Inst -> Nat] /\ pending_request' \in [Inst -> Nat]
      /\ pending_request'[i] = pending_request[i] + 1
      /\ \A j \in Inst : j # i => pending_request'[j] = pending_request[j]
  BY DEF Typed
<1>5. OutOnce'
  <2>1. \A mf \in MemFetch : Out(mf)' <= 1 /\ (Unmade(mf)' => Out(mf)' = 0)
    BY <1>2, <1>3 DEF OutOnce
  <2> QED BY <2>1 DEF OutOnce
<1>6. ASSUME NEW j \in Inst PROVE pending_request'[j] = Cardinality(OutOf(j)')
  <2> DEFINE O == OutOf(j)
  <2>1. RequestsOf(j) \subseteq MemFetch /\ IsFiniteSet(RequestsOf(j))
    BY RequestFacts
  <2>2. O \subseteq RequestsOf(j) /\ OutOf(j)' = {mf \in RequestsOf(j) : Out(mf)' = 1}
    BY DEF OutOf
  <2>3. IsFiniteSet(O)
    <3> HIDE DEF O
    <3> QED BY <2>1, <2>2, FS_Subset
  <2>4. pending_request[j] = Cardinality(O)
    BY DEF Counted
  <2>5. CASE j = i
    <3>1. OutOf(j)' = O \cup {m} /\ m \notin O
      BY <1>2, <1>3, <2>1, <2>2, <2>5 DEF OutOf
    <3> HIDE DEF O
    <3>2. Cardinality(O \cup {m}) = Cardinality(O) + 1
      BY <2>3, <3>1, FS_AddElement
    <3> QED BY <1>4, <2>4, <2>5, <3>1, <3>2
  <2>6. CASE j # i
    <3>1. OutOf(j)' = O
      BY <1>1, <1>3, <2>1, <2>2, <2>6 DEF OutOf
    <3> QED BY <1>4, <2>4, <2>6, <3>1
  <2> QED BY <2>5, <2>6
<1>7. Counted'
  BY <1>6 DEF Counted
<1>8. pending_request'[i] > 0
  BY <1>4
<1> QED BY <1>4, <1>5, <1>7, <1>8

\* A unit that only waits keeps its instruction and its place in it.
LEMMA UnitsWait ==
    ASSUME Typed, \A n \in Sm, x \in Unit : /\ unit'[n][x].inst = unit[n][x].inst
                                            /\ unit'[n][x].mem_fetch_point = unit[n][x].mem_fetch_point,
           unissued' = unissued
    PROVE  /\ \A mf : Unmade(mf)' <=> Unmade(mf)
           /\ InUnits => InUnits'
           /\ \A i : Fresh(i)' <=> Fresh(i)
<1>1. \A mf : Unmade(mf)' <=> Unmade(mf)
  BY DEF Unmade
<1>2. InUnits => InUnits'
  BY DEF InUnits
<1>3. \A i : Fresh(i)' <=> Fresh(i)
  BY DEF Fresh
<1> QED BY <1>1, <1>2, <1>3

\* A unit that sends: what is still to be made, without the request it makes.
LEMMA SendUnits ==
    ASSUME Typed, InUnits, NEW s \in Sm, NEW u \in Unit, unissued' = unissued,
           SendRequest(s, u)
    PROVE  LET m == NextRequest(s, u)
               i == unit[s][u].inst
           IN  /\ i \in Inst /\ m \in RequestsOf(i) /\ Unmade(m) /\ m_sm_id[m] = s
               /\ unit' \in [Sm -> [Unit -> UnitSet]]
               /\ \A mf \in MemFetch : Unmade(mf)' => Unmade(mf) /\ mf # m
               /\ InUnits'
               /\ \A j \in Inst : j # i /\ Fresh(j) => Fresh(j)'
<1> DEFINE v == unit[s][u]
           i == v.inst
           p == v.mem_fetch_point
           q == m_coalesced_address[i]
           m == NextRequest(s, u)
           w == IF p = Len(q) THEN IdleUnit ELSE [v EXCEPT !.mem_fetch_point = @ + 1]
<1>1. v.inst # None /\ unit' = [unit EXCEPT ![s][u] = w]
  BY Zenon DEF SendRequest, CanSend
<1>2. /\ v \in UnitSet /\ i \in Inst /\ p \in Nat \ {0} /\ q \in Seq(MemFetch) /\ p \in DOMAIN q
      /\ i \notin unissued /\ SmOfInst(i) = s /\ IsInjective(q)
      /\ m = q[p] /\ m \in MemFetch /\ m \in RequestsOf(i)
  BY <1>1, UnitFacts
<1>3. m_sm_id[m] = s /\ \A j \in Inst : m \in RequestsOf(j) => j = i
  BY <1>2, RequestFacts
<1>4. IdleUnit \in UnitSet /\ IdleUnit.inst = None
  BY DEF IdleUnit, UnitSet
<1>5. /\ w \in UnitSet
      /\ w.inst # None => w.inst = i /\ w.mem_fetch_point = p + 1 /\ p + 1 <= Len(q)
  <2>1. CASE p = Len(q)
    BY <1>4, <2>1
  <2>2. CASE p # Len(q)
    <3>1. p + 1 \in Nat \ {0} /\ p + 1 <= Len(q)
      <4>1. Len(q) \in Nat /\ p \in 1 .. Len(q) /\ p # Len(q)
        BY <1>2, <2>2
      <4> HIDE DEF q, p
      <4> QED BY <4>1
    <3>2. w = [v EXCEPT !.mem_fetch_point = p + 1]
      BY <2>2
    <3>3. w \in UnitSet /\ w.inst = i /\ w.mem_fetch_point = p + 1
      <4> HIDE DEF w
      <4> QED BY <1>2, <3>1, <3>2 DEF UnitSet
    <3> QED BY <3>1, <3>3
  <2> QED BY <2>1, <2>2
<1> HIDE DEF w
<1>6. /\ unit' \in [Sm -> [Unit -> UnitSet]] /\ unit'[s][u] = w
      /\ \A n \in Sm, x \in Unit : n # s \/ x # u => unit'[n][x] = unit[n][x]
  <2>1. Typed /\ u \in Unit /\ w \in UnitSet
    BY <1>1, <1>5
  <2>2. unit' = PutAt(unit, s, u, w)
    BY <1>1 DEF PutAt
  <2> QED BY <2>1, <2>2, UnitBecomes
<1>7. Unmade(m)
  <2>1. p \in DOMAIN q /\ p >= p /\ q[p] = m
    BY <1>2
  <2> QED BY <1>1, <2>1 DEF Unmade
<1>8. ASSUME NEW n \in Sm, NEW x \in Unit, n # s \/ x # u, unit[n][x].inst # None
      PROVE  unit[n][x].inst \in Inst /\ unit[n][x].inst # i
  <2>1. unit[n][x].inst \in Inst /\ SmOfInst(unit[n][x].inst) = n
    BY <1>8, UnitFacts
  <2>2. unit[n][x].inst = i => n = s /\ x = u
    BY <1>1, <1>2, <2>1 DEF InUnits
  <2> QED BY <1>8, <2>1, <2>2
<1>9. ASSUME NEW mf \in MemFetch, Unmade(mf)'
      PROVE  Unmade(mf) /\ mf # m
  <2> HIDE DEF m
  <2>1. ASSUME NEW j \in unissued, mf \in RequestsOf(j) PROVE Unmade(mf) /\ mf # m
    <3>1. j \in Inst /\ j # i
      BY <1>2 DEF Typed
    <3>2. Unmade(mf)
      BY <2>1 DEF Unmade
    <3> QED BY <1>3, <2>1, <3>1, <3>2
  <2>2. ASSUME NEW n \in Sm, NEW x \in Unit, unit'[n][x].inst # None,
               NEW k \in DOMAIN m_coalesced_address[unit'[n][x].inst],
               k >= unit'[n][x].mem_fetch_point, m_coalesced_address[unit'[n][x].inst][k] = mf
        PROVE  Unmade(mf) /\ mf # m
    <3>1. CASE n = s /\ x = u
      <4>1. unit'[n][x].inst = i /\ unit'[n][x].mem_fetch_point = p + 1
        BY <1>5, <1>6, <2>2, <3>1
      <4>2. k \in DOMAIN q /\ k >= p + 1 /\ q[k] = mf
        BY <2>2, <4>1
      <4>3. k >= p /\ k # p
        <5>1. k \in Nat
          BY <1>2, <4>2
        <5> HIDE DEF p
        <5> QED BY <1>2, <4>2, <5>1
      <4>4. mf # m
        BY <1>2, <4>2, <4>3 DEF IsInjective
      <4>5. Unmade(mf)
        BY <1>1, <4>2, <4>3 DEF Unmade
      <4> QED BY <4>4, <4>5
    <3>2. CASE ~(n = s /\ x = u)
      <4>1. unit'[n][x] = unit[n][x]
        BY <1>6, <3>2
      <4>2. Unmade(mf)
        BY <2>2, <4>1 DEF Unmade
      <4>3. unit[n][x].inst \in Inst /\ unit[n][x].inst # i
        BY <1>8, <2>2, <3>2, <4>1
      <4>4. mf \in RequestsOf(unit[n][x].inst)
        BY <2>2, <4>1 DEF RequestsOf, Range
      <4> QED BY <1>3, <4>2, <4>3, <4>4
    <3> QED BY <3>1, <3>2
  <2>3. \/ \E j \in unissued : mf \in RequestsOf(j)
        \/ \E n \in Sm : \E x \in Unit : unit'[n][x].inst # None /\
              \E k \in DOMAIN m_coalesced_address[unit'[n][x].inst] :
                  k >= unit'[n][x].mem_fetch_point /\ m_coalesced_address[unit'[n][x].inst][k] = mf
    BY <1>9 DEF Unmade
  <2> QED BY <2>1, <2>2, <2>3
<1>10. InUnits'
  <2> SUFFICES ASSUME NEW n \in Sm, NEW x \in Unit, unit'[n][x].inst # None
               PROVE  /\ unit'[n][x].inst \notin unissued /\ SmOfInst(unit'[n][x].inst) = n
                      /\ unit'[n][x].mem_fetch_point <= Len(m_coalesced_address[unit'[n][x].inst])
                      /\ \A y \in Unit : unit'[n][y].inst = unit'[n][x].inst => y = x
    BY DEF InUnits
  <2>1. unit'[n][x].inst = unit[n][x].inst
    <3>1. CASE n = s /\ x = u
      BY <1>5, <1>6, <3>1
    <3>2. CASE ~(n = s /\ x = u)
      BY <1>6, <3>2
    <3> QED BY <3>1, <3>2
  <2>2. \A y \in Unit : unit'[n][y].inst # None => unit'[n][y].inst = unit[n][y].inst
    <3> SUFFICES ASSUME NEW y \in Unit, unit'[n][y].inst # None
                 PROVE  unit'[n][y].inst = unit[n][y].inst
      OBVIOUS
    <3>1. CASE n = s /\ y = u
      BY <1>5, <1>6, <3>1
    <3>2. CASE ~(n = s /\ y = u)
      BY <1>6, <3>2
    <3> QED BY <3>1, <3>2
  <2>3. unit'[n][x].mem_fetch_point <= Len(m_coalesced_address[unit'[n][x].inst])
    <3>1. CASE n = s /\ x = u
      BY <1>5, <1>6, <3>1
    <3>2. CASE ~(n = s /\ x = u)
      BY <1>6, <3>2 DEF InUnits
    <3> QED BY <3>1, <3>2
  <2> QED BY <2>1, <2>2, <2>3 DEF InUnits
<1>11. ASSUME NEW j \in Inst, j # i, Fresh(j) PROVE Fresh(j)'
  <2>1. PICK n \in Sm, x \in Unit : unit[n][x].inst = j /\ unit[n][x].mem_fetch_point = 1
    BY <1>11 DEF Fresh
  <2>2. n # s \/ x # u
    BY <1>11, <2>1
  <2>3. unit'[n][x] = unit[n][x]
    BY <1>6, <2>2
  <2> QED BY <2>1, <2>3 DEF Fresh
<1> QED BY <1>2, <1>3, <1>6, <1>7, <1>9, <1>10, <1>11

LEMMA UnitStep ==
    ASSUME MInv, NEW s \in Sm, NEW u \in Unit, Alone(s), unit_cycle(s, u)
    PROVE  MInv'
<1>1. /\ Typed /\ HomedSm /\ LoadsBelow /\ OutOnce /\ Counted /\ InUnits /\ Completes /\ CountsNat
      /\ step = <<"unit", u>>
      /\ SendRequest(s, u) \/ UnitWaits(s, u)
      /\ UNCHANGED <<cycles, l1_mshrs, m_miss_queue, l1_to_sm, reply, completed, unissued>>
  BY CountsNow DEF MInv, unit_cycle, At
<1>2. ReplyHere'
  <2>1. reply = {}
    BY <1>1 DEF MInv, ReplyHere
  <2> QED BY <1>1, <2>1 DEF ReplyHere
<1>3. ASSUME NEW mf \in MemFetch
      PROVE  /\ Below(mf)' = Below(mf) /\ Hitting(mf)' = Hitting(mf) /\ Merged(mf)' = Merged(mf)
             /\ Entry(mf)' = Entry(mf)
  <2>1. Below(mf)' = Below(mf)
    BY <1>1 DEF Below, Alone, l2Vars
  <2> QED BY <1>1, <2>1 DEF Hitting, Merged, Entry
<1>4. LoadsBelow'
  BY <1>1, <1>3 DEF LoadsBelow
<1>5. CASE SendRequest(s, u)
  <2> DEFINE m == NextRequest(s, u)
             i == unit[s][u].inst
  <2>1. /\ i \in Inst /\ m \in RequestsOf(i) /\ Unmade(m) /\ m_sm_id[m] = s
        /\ unit' \in [Sm -> [Unit -> UnitSet]] /\ InUnits'
        /\ \A mf \in MemFetch : Unmade(mf)' => Unmade(mf) /\ mf # m
        /\ \A j \in Inst : j # i /\ Fresh(j) => Fresh(j)'
    BY <1>1, <1>5, SendUnits
  <2>2. m \in MemFetch
    BY <2>1, RequestFacts
  <2>3. /\ m_queue_sm_to_l1' = [m_queue_sm_to_l1 EXCEPT ![s][m_sector_mask[m]] = Append(@, m)]
        /\ pending_request' = [pending_request EXCEPT ![i] = @ + 1]
    BY <1>5 DEF SendRequest
  <2> HIDE DEF m, i
  <2>4. /\ m_queue_sm_to_l1' \in [Sm -> [Sector -> Seq(MemFetch)]]
        /\ \A n \in Sm, b \in Sector : \A mf \in Within(m_queue_sm_to_l1'[n][b]) :
              m_sm_id[mf] = n /\ m_sector_mask[mf] = b
        /\ \A mf \in MemFetch : Banked(mf)' = Banked(mf) + Is(m, mf)
    <3>1. BankJoined(s, m)
      BY <2>3 DEF BankJoined
    <3> QED BY <1>1, <2>1, <2>2, <3>1, BankGets
  <2>5. ASSUME NEW mf \in MemFetch PROVE Out(mf)' = Out(mf) + Is(m, mf)
    <3> DEFINE c == IF is_write[mf] THEN Below(mf) ELSE Merged(mf)
    <3>1. Banked(mf) \in Nat /\ Hitting(mf) \in Nat /\ c \in Nat /\ Is(m, mf) \in Nat
      BY <1>1, IsNat, RequestHome DEF CountsNat
    <3>2. Out(mf) = Banked(mf) + Hitting(mf) + c /\ Out(mf)' = Banked(mf)' + Hitting(mf) + c
      BY <1>3 DEF Out
    <3> HIDE DEF c
    <3>3. Banked(mf)' = Banked(mf) + Is(m, mf)
      BY <2>4
    <3> QED BY <3>1, <3>2, <3>3
  <2>6. /\ OutOnce' /\ Counted'
        /\ pending_request' \in [Inst -> Nat] /\ pending_request'[i] > 0
        /\ \A j \in Inst : j # i => pending_request'[j] = pending_request[j]
    BY <1>1, <2>1, <2>3, <2>5, Made
  <2>7. Completes'
    <3> SUFFICES ASSUME NEW j \in Inst, j \notin unissued, ~Fresh(j)', pending_request'[j] = 0
                 PROVE  completed[j]
      BY <1>1 DEF Completes
    <3>1. j # i
      BY <2>6
    <3> QED BY <1>1, <2>1, <2>6, <3>1 DEF Completes
  <2>8. Typed'
    BY <1>1, <2>1, <2>4, <2>6, AloneFrame DEF Typed
  <2>9. HomedSm'
    BY <1>1, <2>4 DEF HomedSm
  <2> QED BY <1>2, <1>4, <2>1, <2>6, <2>7, <2>8, <2>9, AloneFrame DEF MInv
<1>6. CASE UnitWaits(s, u)
  <2> DEFINE v == unit[s][u]
             w == [v EXCEPT !.unit_latency = IF @ > 0 THEN @ - 1 ELSE @]
  <2>1. /\ unit' = [unit EXCEPT ![s][u] = w]
        /\ UNCHANGED <<m_queue_sm_to_l1, pending_request>>
    <3>1. v \in UnitSet /\ unit \in [Sm -> [Unit -> UnitSet]]
      BY <1>1 DEF Typed
    <3> QED BY <1>6, <3>1 DEF UnitWaits
  <2>2. w \in UnitSet /\ w.inst = v.inst /\ w.mem_fetch_point = v.mem_fetch_point
    <3>1. v \in UnitSet
      BY <1>1 DEF Typed
    <3> QED BY <3>1 DEF UnitSet
  <2> HIDE DEF w
  <2>3. /\ unit' \in [Sm -> [Unit -> UnitSet]] /\ unit'[s][u] = w
        /\ \A n \in Sm, x \in Unit : n # s \/ x # u => unit'[n][x] = unit[n][x]
    <3>1. Typed /\ u \in Unit /\ w \in UnitSet
      BY <1>1, <2>2
    <3>2. unit' = PutAt(unit, s, u, w)
      BY <2>1 DEF PutAt
    <3> QED BY <3>1, <3>2, UnitBecomes
  <2>4. \A n \in Sm, x \in Unit : /\ unit'[n][x].inst = unit[n][x].inst
                                  /\ unit'[n][x].mem_fetch_point = unit[n][x].mem_fetch_point
    BY <2>2, <2>3
  <2>5. InUnits' /\ (\A mf : Unmade(mf)' <=> Unmade(mf)) /\ \A i : Fresh(i)' <=> Fresh(i)
    BY <1>1, <2>4, UnitsWait
  <2>6. \A mf \in MemFetch : Out(mf)' = Out(mf)
    BY <1>3, <2>1 DEF Out, Banked
  <2>7. OutOnce'
    BY <1>1, <2>5, <2>6 DEF OutOnce
  <2>8. Counted'
    <3>1. \A i \in Inst : RequestsOf(i) \subseteq MemFetch
      BY RequestFacts
    <3>2. \A i \in Inst : OutOf(i)' = OutOf(i)
      BY <2>6, <3>1 DEF OutOf
    <3> QED BY <1>1, <2>1, <3>2 DEF Counted
  <2>9. Completes'
    BY <1>1, <2>1, <2>5 DEF Completes
  <2>10. Typed'
    BY <1>1, <2>1, <2>3, AloneFrame DEF Typed
  <2>11. HomedSm'
    BY <1>1, <2>1 DEF HomedSm
  <2> QED BY <1>2, <1>4, <2>5, <2>7, <2>8, <2>9, <2>10, <2>11, AloneFrame DEF MInv
<1> QED BY <1>1, <1>5, <1>6

\* process_LDG_STG: the first free unit takes the instruction.
LEMMA IssueStep ==
    ASSUME MInv, NEW s \in Sm, NEW i \in Inst, Alone(s), process_LDG_STG(s, i)
    PROVE  MInv'
<1> DEFINE u == Min(FreeUnits(s))
           w == [inst |-> i, mem_fetch_point |-> 1, unit_latency |-> ldst_unit_latency]
<1>1. /\ Typed /\ HomedSm /\ LoadsBelow /\ OutOnce /\ Counted /\ InUnits /\ Completes
      /\ i \in unissued /\ SmOfInst(i) = s /\ FreeUnits(s) # {}
      /\ unit' = [unit EXCEPT ![s][u] = w] /\ unissued' = unissued \ {i}
      /\ UNCHANGED <<step, cycles, l1_mshrs, m_queue_sm_to_l1, m_miss_queue, l1_to_sm, reply,
                     pending_request, completed>>
  BY DEF MInv, process_LDG_STG
<1>2. u \in Unit /\ unit[s][u].inst = None
  <2>1. FreeUnits(s) \in SUBSET Nat
    BY L1Assumption DEF FreeUnits, Unit
  <2>2. u \in FreeUnits(s)
    BY <1>1, <2>1, MinLeast
  <2> HIDE DEF u
  <2> QED BY <2>2 DEF FreeUnits
<1>3. w \in UnitSet /\ w.inst = i /\ w.mem_fetch_point = 1 /\ i # None
  BY L1Assumption DEF UnitSet
<1> HIDE DEF u, w
<1>4. /\ unit' \in [Sm -> [Unit -> UnitSet]] /\ unit'[s][u] = w
      /\ \A n \in Sm, x \in Unit : n # s \/ x # u => unit'[n][x] = unit[n][x]
  <2>1. Typed /\ u \in Unit /\ w \in UnitSet
    BY <1>1, <1>2, <1>3
  <2>2. unit' = PutAt(unit, s, u, w)
    BY <1>1 DEF PutAt
  <2> QED BY <2>1, <2>2, UnitBecomes
<1>5. /\ \A mf \in MemFetch : Below(mf)' = Below(mf) /\ Out(mf)' = Out(mf)
      /\ LoadsBelow'
  <2>1. ASSUME NEW mf \in MemFetch PROVE Below(mf)' = Below(mf)
    BY <1>1 DEF Below, Alone, l2Vars
  <2>2. \A mf \in MemFetch : Out(mf)' = Out(mf)
    BY <1>1, <2>1 DEF Out, Banked, Hitting, Merged, Entry
  <2> QED BY <1>1, <2>1, <2>2 DEF LoadsBelow, Entry
<1>6. ASSUME NEW mf \in MemFetch, Unmade(mf)' PROVE Unmade(mf)
  <2>1. ASSUME NEW j \in unissued', mf \in RequestsOf(j) PROVE Unmade(mf)
    BY <1>1, <2>1 DEF Unmade
  <2>2. ASSUME NEW n \in Sm, NEW x \in Unit, unit'[n][x].inst # None,
               NEW k \in DOMAIN m_coalesced_address[unit'[n][x].inst],
               k >= unit'[n][x].mem_fetch_point, m_coalesced_address[unit'[n][x].inst][k] = mf
        PROVE  Unmade(mf)
    <3>1. CASE n = s /\ x = u
      <4>1. mf \in RequestsOf(i)
        BY <1>3, <1>4, <2>2, <3>1 DEF RequestsOf, Range
      <4> QED BY <1>1, <4>1 DEF Unmade
    <3>2. CASE ~(n = s /\ x = u)
      BY <1>4, <2>2, <3>2 DEF Unmade
    <3> QED BY <3>1, <3>2
  <2>3. \/ \E j \in unissued' : mf \in RequestsOf(j)
        \/ \E n \in Sm : \E x \in Unit : unit'[n][x].inst # None /\
              \E k \in DOMAIN m_coalesced_address[unit'[n][x].inst] :
                  k >= unit'[n][x].mem_fetch_point /\ m_coalesced_address[unit'[n][x].inst][k] = mf
    BY <1>6 DEF Unmade
  <2> QED BY <2>1, <2>2, <2>3
<1>7. OutOnce'
  BY <1>1, <1>5, <1>6 DEF OutOnce
<1>8. Counted'
  <2>1. \A j \in Inst : RequestsOf(j) \subseteq MemFetch
    BY RequestFacts
  <2>2. \A j \in Inst : OutOf(j)' = OutOf(j)
    BY <1>5, <2>1 DEF OutOf
  <2> QED BY <1>1, <2>2 DEF Counted
<1>9. InUnits'
  <2> SUFFICES ASSUME NEW n \in Sm, NEW x \in Unit, unit'[n][x].inst # None
               PROVE  /\ unit'[n][x].inst \notin unissued' /\ SmOfInst(unit'[n][x].inst) = n
                      /\ unit'[n][x].mem_fetch_point <= Len(m_coalesced_address[unit'[n][x].inst])
                      /\ \A y \in Unit : unit'[n][y].inst = unit'[n][x].inst => y = x
    BY DEF InUnits
  <2>1. \A m \in Sm, y \in Unit : unit[m][y].inst # None => unit[m][y].inst # i
    BY <1>1 DEF InUnits
  <2>2. CASE n = s /\ x = u
    <3>1. unit'[n][x].inst = i /\ unit'[n][x].mem_fetch_point = 1
      BY <1>3, <1>4, <2>2
    <3>2. 1 <= Len(m_coalesced_address[i])
      <4>1. m_coalesced_address[i] \in Seq(MemFetch) /\ m_coalesced_address[i] # <<>>
        BY L1Assumption
      <4> QED BY <4>1
    <3>3. \A y \in Unit : y # x => unit'[n][y].inst # i
      BY <1>3, <1>4, <2>1, <2>2
    <3> QED BY <1>1, <2>2, <3>1, <3>2, <3>3
  <2>3. CASE ~(n = s /\ x = u)
    <3>1. unit'[n][x] = unit[n][x] /\ unit[n][x].inst # i
      BY <1>4, <2>1, <2>3
    <3>2. /\ unit[n][x].inst \notin unissued /\ SmOfInst(unit[n][x].inst) = n
          /\ unit[n][x].mem_fetch_point <= Len(m_coalesced_address[unit[n][x].inst])
          /\ \A y \in Unit : unit[n][y].inst = unit[n][x].inst => y = x
      BY <3>1 DEF InUnits, MInv
    <3>3. \A y \in Unit : unit'[n][y].inst = unit[n][x].inst => y = x
      <4> SUFFICES ASSUME NEW y \in Unit, unit'[n][y].inst = unit[n][x].inst PROVE y = x
        OBVIOUS
      <4>1. ~(n = s /\ y = u)
        BY <1>3, <1>4, <3>1
      <4>2. unit'[n][y] = unit[n][y]
        BY <1>4, <4>1
      <4> QED BY <3>2, <4>2
    <3> QED BY <1>1, <3>1, <3>2, <3>3
  <2> QED BY <2>2, <2>3
<1>10. Completes'
  <2> SUFFICES ASSUME NEW j \in Inst, j \notin unissued', ~Fresh(j)', pending_request[j] = 0
               PROVE  completed[j]
    BY <1>1 DEF Completes
  <2>1. j # i
    BY <1>2, <1>3, <1>4 DEF Fresh
  <2>2. j \notin unissued
    BY <1>1, <2>1
  <2>3. ASSUME NEW n \in Sm, NEW x \in Unit, unit[n][x].inst = j, unit[n][x].mem_fetch_point = 1
        PROVE  FALSE
    <3>1. j # None
      BY L1Assumption
    <3>2. ~(n = s /\ x = u)
      BY <1>2, <2>3, <3>1
    <3>3. unit'[n][x] = unit[n][x]
      BY <1>4, <3>2
    <3> QED BY <2>3, <3>3 DEF Fresh
  <2>4. ~Fresh(j)
    BY <2>3 DEF Fresh
  <2> QED BY <1>1, <2>2, <2>4 DEF Completes
<1>11. Typed'
  BY <1>1, <1>4, AloneFrame DEF Typed
<1>12. HomedSm'
  BY <1>1 DEF HomedSm
<1>13. ReplyHere'
  BY <1>1 DEF MInv, ReplyHere, Alone
<1> QED BY <1>5, <1>7, <1>8, <1>9, <1>10, <1>11, <1>12, <1>13, AloneFrame DEF MInv

-----------------------------------------------------------------------------
(* All steps.                                                              *)

LEMMA RunsStep == ASSUME NEW s \in Sm PROVE MInv /\ SmRuns(s) => MInv'
<1> SUFFICES ASSUME MInv, SmRuns(s) PROVE MInv'
  OBVIOUS
<1>1. Alone(s)
  BY DEF SmRuns, Alone
<1>2. \/ write_back(s)
      \/ write_back_request_l2(s)
      \/ \E b \in Sector : l1_cache_bank(s, b)
      \/ \E u \in Unit : unit_cycle(s, u)
      \/ \E i \in Inst : process_LDG_STG(s, i)
  BY DEF SmRuns
<1>3. CASE write_back(s)
  BY <1>1, <1>3, WriteBackStep
<1>4. CASE write_back_request_l2(s)
  BY <1>1, <1>4, WriteBackL2Step
<1>5. CASE \E b \in Sector : l1_cache_bank(s, b)
  BY <1>1, <1>5, BankStep
<1>6. CASE \E u \in Unit : unit_cycle(s, u)
  BY <1>1, <1>6, UnitStep
<1>7. CASE \E i \in Inst : process_LDG_STG(s, i)
  BY <1>1, <1>7, IssueStep
<1> QED BY <1>2, <1>3, <1>4, <1>5, <1>6, <1>7

LEMMA InitMInv == Init => MInv
<1> SUFFICES ASSUME Init PROVE MInv
  OBVIOUS
<1>1. /\ cycles = [s \in Sm |-> 0] /\ l1_mshrs = [s \in Sm |-> EmptyMshr(SectorAddr)]
      /\ m_queue_sm_to_l1 = [s \in Sm |-> [b \in Sector |-> <<>>]]
      /\ m_miss_queue = [s \in Sm |-> <<>>] /\ l1_to_sm = [s \in Sm |-> <<>>]
      /\ reply = {} /\ unit = [s \in Sm |-> [u \in Unit |-> IdleUnit]]
      /\ pending_request = [i \in Inst |-> 0] /\ completed = [i \in Inst |-> FALSE]
      /\ unissued = Inst
      /\ l2_mshrs = EmptyMshr(SectorAddr) /\ m_l1_to_l2 = <<>> /\ l2_to_sm = {}
      /\ m_status = [mf \in MemFetch |-> INIT] /\ gpu_sim_cycles = 0 /\ turn = <<"slice", 0>>
      /\ Icnt!InitIcnt
  BY DEF Init, InitL1, InitL2
<1>2. Icnt!IcntTypeOK
  <2>1. 0 \in Icnt!Nodes
    BY Devices DEF Slice
  <2>2. <<>> \in Seq(Icnt!PacketSet)
    OBVIOUS
  <2> QED BY <1>1, <2>1, <2>2 DEF Icnt!InitIcnt, Icnt!IcntTypeOK
<1>3. IdleUnit \in UnitSet /\ IdleUnit.inst = None
  BY DEF IdleUnit, UnitSet
<1>4. Typed
  <2>1. EmptyMshr(SectorAddr) \in [SectorAddr -> Seq(MemFetch)]
    BY DEF EmptyMshr
  <2>2. m_queue_sm_to_l1 \in [Sm -> [Sector -> Seq(MemFetch)]]
    BY <1>1
  <2>3. unit \in [Sm -> [Unit -> UnitSet]]
    BY <1>1, <1>3
  <2>4. /\ l1_mshrs \in [Sm -> [SectorAddr -> Seq(MemFetch)]]
        /\ l2_mshrs \in [SectorAddr -> Seq(MemFetch)]
    BY <1>1, <2>1
  <2>5. /\ cycles \in [Sm -> Nat] /\ m_miss_queue \in [Sm -> Seq(MemFetch)]
        /\ l1_to_sm \in [Sm -> Seq(HitSet)] /\ reply \in SUBSET MemFetch
        /\ pending_request \in [Inst -> Nat] /\ completed \in [Inst -> BOOLEAN]
        /\ unissued \in SUBSET Inst /\ m_l1_to_l2 \in Seq(MemFetch)
        /\ m_status \in [MemFetch -> {INIT, L2_HIT, L2_MISS}] /\ gpu_sim_cycles \in Nat
    BY <1>1
  <2> QED BY <1>2, <2>2, <2>3, <2>4, <2>5 DEF Typed
<1>5. Within(<<>>) = {}
  BY DEF Within
<1>6. /\ \A s \in Sm : /\ m_miss_queue[s] = <<>> /\ l1_to_sm[s] = <<>>
                       /\ \A b \in Sector : m_queue_sm_to_l1[s][b] = <<>>
                       /\ \A x \in SectorAddr : l1_mshrs[s][x] = <<>>
                       /\ \A u \in Unit : unit[s][u].inst = None
      /\ \A r \in Icnt!Nets, n \in Icnt!Nodes : in_buffers[r][n] = <<>> /\ out_buffers[r][n] = <<>>
      /\ \A x \in SectorAddr : l2_mshrs[x] = <<>>
  BY <1>1, <1>3 DEF EmptyMshr, Icnt!InitIcnt
<1>7. HomedSm /\ HomedIcnt
  BY <1>5, <1>6, Devices DEF HomedSm, HomedIcnt
<1>8. ReplyHere /\ Flying /\ EntryAnswered /\ EndsIdle
  BY <1>1, <1>6, FS_EmptySet DEF ReplyHere, Flying, EntryAnswered, EndsIdle
<1>9. ASSUME NEW mf \in MemFetch
       PROVE  Below(mf) = 0 /\ Out(mf) = 0 /\ Entry(mf) = <<>>
  <2> DEFINE s == m_sm_id[mf]
  <2>1. s \in Sm /\ m_sector_mask[mf] \in Sector /\ m_sector_address(mf) \in SectorAddr
    BY RequestHome
  <2> HIDE DEF s
  <2>2. Carried(<<>>) = <<>> /\ Hits(<<>>) = <<>> /\ Times(<<>>, mf) = 0
    BY TimesEmpty DEF Carried, Hits
  <2>3. Entry(mf) = <<>>
    BY <1>6, <2>1 DEF Entry, s
  <2>4. Banked(mf) = 0 /\ Hitting(mf) = 0 /\ Merged(mf) = 0 /\ Missed(mf) = 0
    BY <1>6, <2>1, <2>2, <2>3 DEF Banked, Hitting, Merged, Missed, s
  <2>5. Sent(mf) = 0 /\ Arriving(mf) = 0 /\ Answered(mf) = 0 /\ Returning(mf) = 0 /\ Looking(mf) = 0
    BY <1>1, <1>6, <2>1, <2>2, Devices DEF Sent, Arriving, Answered, Returning, Looking, s
  <2>6. Answering(mf) = 0 /\ Popping(mf) = 0
    <3>1. {e \in l2_to_sm : e.mf = mf} = {} /\ reply \cap {mf} = {}
      BY <1>1
    <3> QED BY <3>1, FS_EmptySet DEF Answering, Popping
  <2>7. CountsNat
    BY <1>4, <1>8, CountsNow
  <2>8. Below(mf) = 0
    BY <2>4, <2>5, <2>6, <2>7 DEF CountsNat
  <2> QED BY <2>3, <2>4, <2>8 DEF Out
<1>10. LoadsBelow /\ OutOnce
  BY <1>9 DEF LoadsBelow, OutOnce
<1>11. Counted
  <2> SUFFICES ASSUME NEW i \in Inst PROVE pending_request[i] = Cardinality(OutOf(i))
    BY DEF Counted
  <2>1. OutOf(i) = {}
    BY <1>9, RequestFacts DEF OutOf
  <2> QED BY <1>1, <2>1, FS_EmptySet
<1>12. InUnits /\ Completes
  BY <1>1, <1>6 DEF InUnits, Completes
<1> QED BY <1>4, <1>7, <1>8, <1>10, <1>11, <1>12 DEF MInv

LEMMA StepMInv == DramInv /\ MInv /\ [Next]_vars => MInv'
<1> SUFFICES ASSUME DramInv, MInv, [Next]_vars PROVE MInv'
  OBVIOUS
<1>1. CASE UNCHANGED vars
  <2>1. UNCHANGED <<smVars, l2Vars, in_buffers, out_buffers, next_node_id, gpu_sim_cycles, turn>>
    BY <1>1 DEF vars, l1Vars, smVars
  <2>2. Typed' /\ HomedSm' /\ HomedIcnt'
    <3>1. Icnt!IcntTypeOK'
      BY <2>1 DEF MInv, Typed, Icnt!IcntTypeOK
    <3> QED BY <2>1, <3>1 DEF MInv, Typed, HomedSm, HomedIcnt, smVars, l2Vars
  <2>3. ReplyHere' /\ Flying' /\ EntryAnswered'
    BY <2>1 DEF MInv, ReplyHere, Flying, EntryAnswered, smVars, l2Vars
  <2>4. EndsIdle'
    BY <2>1 DEF MInv, EndsIdle, Running, UnderWay, smVars
  <2>5. \A mf \in MemFetch : Below(mf)' = Below(mf)
    BY <2>1 DEF Below, smVars, l2Vars
  <2>6. Tallies'
    BY <2>1, <2>5, CarriedOn DEF MInv, Tallies, smVars
  <2> QED BY <2>2, <2>3, <2>4, <2>6 DEF MInv, Tallies
<1>2. CASE SliceCycle
  BY <1>2, SliceStep
<1>3. CASE IcntCycle
  BY <1>3, IcntStep
<1>4. ASSUME NEW s \in Sm, SmPops(s) \/ SmPushes(s) \/ SmRuns(s) \/ SmReturns(s)
      PROVE  MInv'
  BY <1>4, PopsStep, PushesStep, RunsStep, ReturnsStep
<1>5. CASE EndKernel
  BY <1>5, EndStep DEF DramInv
<1> QED BY <1>1, <1>2, <1>3, <1>4, <1>5 DEF Next

LEMMA MInvAlways == Spec => []MInv
<1>1. Init => DramInv /\ MInv
  BY InitDram, InitMInv
<1>2. DramInv /\ MInv /\ [Next]_vars => (DramInv /\ MInv)'
  BY DramStep, StepMInv
<1> QED BY <1>1, <1>2, PTL DEF Spec

-----------------------------------------------------------------------------
(* What follows.                                                           *)

LEMMA BelowAsPromised == MInv => OnceBelow
<1> SUFFICES ASSUME MInv PROVE OnceBelow
  OBVIOUS
<1>1. Typed /\ HomedSm /\ LoadsBelow /\ OutOnce /\ Counted /\ CountsNat
  BY CountsNow DEF MInv
<1>2. ASSUME NEW s \in Sm, NEW x \in SectorAddr
      PROVE  LET loads == {mf \in MemFetch : /\ m_sm_id[mf] = s /\ ~is_write[mf]
                                             /\ m_sector_address(mf) = x /\ Below(mf) > 0}
             IN  /\ Cardinality(loads) = IF mshr_probe(l1_mshrs[s], x) THEN 1 ELSE 0
                 /\ \A mf \in loads : Below(mf) = 1 /\ mf \in Range(l1_mshrs[s][x])
  <2> DEFINE loads == {mf \in MemFetch : /\ m_sm_id[mf] = s /\ ~is_write[mf]
                                         /\ m_sector_address(mf) = x /\ Below(mf) > 0}
             q == l1_mshrs[s][x]
             h == Head(q)
  <2>1. q \in Seq(MemFetch)
    BY <1>1 DEF Typed
  <2>2. ASSUME NEW mf \in MemFetch, m_sm_id[mf] = s, ~is_write[mf], m_sector_address(mf) = x
        PROVE  Below(mf) = IF q # <<>> /\ h = mf THEN 1 ELSE 0
    BY <1>1, <2>2 DEF LoadsBelow, Entry
  <2>3. mshr_probe(l1_mshrs[s], x) <=> q # <<>>
    BY DEF mshr_probe
  <2>4. CASE q = <<>>
    <3>1. loads = {}
      BY <2>2, <2>4
    <3> HIDE DEF loads, q
    <3>2. Cardinality(loads) = 0
      BY <3>1, FS_EmptySet
    <3>3. /\ Cardinality(loads) = IF mshr_probe(l1_mshrs[s], x) THEN 1 ELSE 0
          /\ \A mf \in loads : Below(mf) = 1 /\ mf \in Range(q)
      BY <2>3, <2>4, <3>1, <3>2
    <3> QED BY <3>3 DEF loads, q
  <2>5. CASE q # <<>>
    <3>1. h \in MemFetch /\ h \in Within(q)
      <4> HIDE DEF q
      <4> QED BY <2>1, <2>5, TailWithin
    <3>2. m_sm_id[h] = s /\ m_sector_address(h) = x /\ ~is_write[h]
      BY <1>1, <3>1 DEF HomedSm
    <3>3. h \in Range(q)
      BY <3>1 DEF Within, Range
    <3> HIDE DEF h
    <3>4. Below(h) = 1
      BY <2>2, <2>5, <3>1, <3>2
    <3>5. loads = {h}
      BY <2>2, <3>1, <3>2, <3>4
    <3> HIDE DEF loads, q
    <3>6. Cardinality({h}) = 1
      BY FS_Singleton
    <3>7. /\ Cardinality(loads) = IF mshr_probe(l1_mshrs[s], x) THEN 1 ELSE 0
          /\ \A mf \in loads : Below(mf) = 1 /\ mf \in Range(q)
      BY <2>3, <2>5, <3>3, <3>4, <3>5, <3>6
    <3> QED BY <3>7 DEF loads, q
  <2> QED BY <2>4, <2>5
<1>3. ASSUME NEW mf \in MemFetch, is_write[mf]
      PROVE  OneStoreBelow(mf)
  <2>1. /\ Out(mf) <= 1 /\ Out(mf) = Banked(mf) + Hitting(mf) + Below(mf)
        /\ Banked(mf) \in Nat /\ Hitting(mf) \in Nat
    BY <1>1, <1>3 DEF OutOnce, Out, CountsNat
  <2>2. Below(mf) \in Nat
    <3>1. /\ Missed(mf) \in Nat /\ Sent(mf) \in Nat /\ Arriving(mf) \in Nat /\ Looking(mf) \in Nat
          /\ Answering(mf) \in Nat /\ Answered(mf) \in Nat /\ Returning(mf) \in Nat
          /\ Popping(mf) \in Nat
          /\ Below(mf) = Missed(mf) + Sent(mf) + Arriving(mf) + Looking(mf)
                          + Answering(mf) + Answered(mf) + Returning(mf) + Popping(mf)
      BY <1>1 DEF CountsNat
    <3> QED BY <3>1
  <2>3. Below(mf) <= 1
    BY <2>1, <2>2
  <2>4. ASSUME Below(mf) = 1 PROVE \E i \in Inst : mf \in RequestsOf(i) /\ pending_request[i] > 0
    <3>1. Out(mf) = 1
      BY <2>1, <2>4
    <3>2. PICK i \in Inst : {j \in Inst : mf \in RequestsOf(j)} = {i}
      BY L1Assumption
    <3>3. mf \in OutOf(i) /\ mf \in RequestsOf(i)
      BY <3>1, <3>2 DEF OutOf
    <3>4. pending_request[i] > 0
      <4>1. OutOf(i) \subseteq RequestsOf(i) /\ IsFiniteSet(RequestsOf(i))
        BY RequestFacts DEF OutOf
      <4>2. IsFiniteSet(OutOf(i)) /\ OutOf(i) # {}
        BY <3>3, <4>1, FS_Subset
      <4>3. Cardinality(OutOf(i)) \in Nat /\ Cardinality(OutOf(i)) # 0
        BY <4>2, FS_EmptySet, FS_CardinalityType
      <4> QED BY <1>1, <4>3 DEF Counted
    <3> QED BY <3>3, <3>4
  <2> QED BY <2>3, <2>4 DEF OneStoreBelow
<1>4. OneFetchBelow
  BY <1>2 DEF OneFetchBelow
<1> QED BY <1>3, <1>4 DEF OnceBelow

\* A load that waits in an MSHR entry of an SM is below that SM once if it
\* opened the entry and not at all if it joined it; a store is below once,
\* and its instruction waits for it.  Neither cache, neither queue and no
\* buffer of the crossbar loses a request or makes two of one
\* (l1_data_cache::cache_access, LocalInterconnect, l2_cache_cycle).
THEOREM BelowOnceAlways == Spec => []OnceBelow
BY BelowAsPromised, MInvAlways, PTL

\* Nothing out, nothing anywhere.
LEMMA NothingLeft ==
    ASSUME MInv, turn = <<"end", 0>>
    PROVE  /\ unissued = {} /\ \A i \in Inst : pending_request[i] = 0 /\ ~Fresh(i)
           /\ \A mf \in MemFetch : /\ Below(mf) = 0 /\ Banked(mf) = 0 /\ Hitting(mf) = 0
                                   /\ ~is_write[mf] => Merged(mf) = 0
<1>1. Typed /\ HomedSm /\ LoadsBelow /\ OutOnce /\ Counted /\ CountsNat /\ ~Running
  BY CountsNow DEF MInv, EndsIdle
<1>2. ASSUME NEW i \in Inst PROVE SmOfInst(i) \in Sm
  <2>1. m_coalesced_address[i] \in Seq(MemFetch) /\ m_coalesced_address[i] # <<>>
    BY L1Assumption
  <2>2. m_coalesced_address[i][1] \in MemFetch
    BY <2>1
  <2> QED BY <2>2, RequestHome DEF SmOfInst
<1>3. unissued = {}
  BY <1>1, <1>2 DEF Running, UnderWay, Typed
<1>4. ASSUME NEW i \in Inst PROVE pending_request[i] = 0
  <2>1. pending_request[i] \in Nat /\ ~(pending_request[i] > 0)
    BY <1>1, <1>2 DEF Running, UnderWay, Typed
  <2> QED BY <2>1
<1>5. ASSUME NEW i \in Inst PROVE ~Fresh(i)
  <2>1. i # None
    BY L1Assumption
  <2> QED BY <1>1, <2>1 DEF Running, UnderWay, Fresh
<1>6. ASSUME NEW mf \in MemFetch PROVE Out(mf) = 0
  <2>1. PICK i \in Inst : {j \in Inst : mf \in RequestsOf(j)} = {i}
    BY L1Assumption
  <2>2. IsFiniteSet(OutOf(i))
    <3>1. OutOf(i) \subseteq RequestsOf(i) /\ IsFiniteSet(RequestsOf(i))
      BY RequestFacts DEF OutOf
    <3> QED BY <3>1, FS_Subset
  <2>3. OutOf(i) = {}
    BY <1>1, <1>4, <2>2, FS_EmptySet DEF Counted
  <2>4. Out(mf) # 1
    BY <2>1, <2>3 DEF OutOf
  <2>5. Out(mf) \in Nat /\ Out(mf) <= 1
    BY <1>1, OutNat DEF OutOnce
  <2> QED BY <2>4, <2>5
<1>7. ASSUME NEW mf \in MemFetch
      PROVE  /\ Below(mf) = 0 /\ Banked(mf) = 0 /\ Hitting(mf) = 0
             /\ ~is_write[mf] => Merged(mf) = 0
  <2> DEFINE c == IF is_write[mf] THEN Below(mf) ELSE Merged(mf)
  <2>1. Banked(mf) \in Nat /\ Hitting(mf) \in Nat /\ c \in Nat
    BY <1>1, RequestHome DEF CountsNat
  <2>2. Banked(mf) + Hitting(mf) + c = 0
    BY <1>6 DEF Out
  <2> HIDE DEF c
  <2>3. Banked(mf) = 0 /\ Hitting(mf) = 0 /\ c = 0
    BY <2>1, <2>2
  <2>4. CASE is_write[mf]
    BY <2>3, <2>4 DEF c
  <2>5. CASE ~is_write[mf]
    <3>1. Merged(mf) = 0
      BY <2>3, <2>5 DEF c
    <3>2. ~(Entry(mf) # <<>> /\ Head(Entry(mf)) = mf)
      <4>1. Entry(mf) \in Seq(MemFetch)
        BY <1>1, RequestHome DEF Typed, Entry
      <4>2. mf \notin Within(Entry(mf))
        BY <3>1, <4>1, TimesFacts DEF Merged
      <4> QED BY <4>1, <4>2, TailWithin
    <3>3. Below(mf) = 0
      BY <1>1, <2>5, <3>2 DEF LoadsBelow
    <3> QED BY <2>3, <3>1, <3>3
  <2> QED BY <2>4, <2>5
<1> QED BY <1>3, <1>4, <1>5, <1>7

LEMMA QuietAtTheEnd == MInv => EndQuiet
<1> SUFFICES ASSUME MInv, turn = <<"end", 0>>
             PROVE  /\ \A mf \in MemFetch : Below(mf) = 0
                    /\ Entries(l2_mshrs) = {}
                    /\ \A s \in Sm : /\ Entries(l1_mshrs[s]) = {}
                                     /\ l1_to_sm[s] = <<>>
                                     /\ \A b \in Sector : m_queue_sm_to_l1[s][b] = <<>>
                    /\ \A i \in Inst : completed[i]
  BY DEF EndQuiet
<1>1. Typed /\ HomedSm /\ Flying /\ EntryAnswered /\ Completes /\ CountsNat
  BY CountsNow DEF MInv
<1>2. /\ unissued = {} /\ \A i \in Inst : pending_request[i] = 0 /\ ~Fresh(i)
      /\ \A mf \in MemFetch : /\ Below(mf) = 0 /\ Banked(mf) = 0 /\ Hitting(mf) = 0
                              /\ ~is_write[mf] => Merged(mf) = 0
  BY NothingLeft
<1>3. \A i \in Inst : completed[i]
  BY <1>1, <1>2 DEF Completes
<1>4. ASSUME NEW s \in Sm, NEW x \in SectorAddr PROVE l1_mshrs[s][x] = <<>>
  <2> SUFFICES ASSUME l1_mshrs[s][x] # <<>> PROVE FALSE
    OBVIOUS
  <2> DEFINE q == l1_mshrs[s][x]
             h == Head(q)
  <2>1. q \in Seq(MemFetch)
    BY <1>1 DEF Typed
  <2>2. h \in MemFetch /\ h \in Within(q)
    <3> HIDE DEF q
    <3> QED BY <2>1, TailWithin DEF q
  <2>3. m_sm_id[h] = s /\ m_sector_address(h) = x /\ ~is_write[h]
    BY <1>1, <2>2 DEF HomedSm
  <2>4. Merged(h) = Times(q, h)
    BY <2>3 DEF Merged, Entry
  <2>5. Times(q, h) # 0
    <3> HIDE DEF q, h
    <3> QED BY <2>1, <2>2, TimesFacts
  <2> HIDE DEF h, q
  <2> QED BY <1>2, <2>2, <2>3, <2>4, <2>5
<1>5. ASSUME NEW s \in Sm, NEW b \in Sector PROVE m_queue_sm_to_l1[s][b] = <<>>
  <2> SUFFICES ASSUME m_queue_sm_to_l1[s][b] # <<>> PROVE FALSE
    OBVIOUS
  <2> DEFINE q == m_queue_sm_to_l1[s][b]
             h == Head(q)
  <2>1. q \in Seq(MemFetch)
    BY <1>1 DEF Typed
  <2>2. h \in MemFetch /\ h \in Within(q)
    <3> HIDE DEF q
    <3> QED BY <2>1, TailWithin DEF q
  <2>3. m_sm_id[h] = s /\ m_sector_mask[h] = b
    BY <1>1, <2>2 DEF HomedSm
  <2>4. Banked(h) = Times(q, h)
    BY <2>3 DEF Banked
  <2>5. Times(q, h) # 0
    <3> HIDE DEF q, h
    <3> QED BY <2>1, <2>2, TimesFacts
  <2> HIDE DEF h, q
  <2> QED BY <1>2, <2>2, <2>4, <2>5
<1>6. ASSUME NEW s \in Sm PROVE l1_to_sm[s] = <<>>
  <2> SUFFICES ASSUME l1_to_sm[s] # <<>> PROVE FALSE
    OBVIOUS
  <2> DEFINE q == l1_to_sm[s]
             h == Head(q)
  <2>1. q \in Seq(HitSet)
    BY <1>1 DEF Typed
  <2>2. h \in HitSet /\ h \in Within(q)
    <3> HIDE DEF q
    <3> QED BY <2>1, TailWithin DEF q
  <2>3. m_sm_id[h.mf] = s /\ h.mf \in MemFetch
    BY <1>1, <2>2 DEF HomedSm, HitSet
  <2>4. Hitting(h.mf) = Times(Hits(q), h.mf)
    BY <2>3 DEF Hitting
  <2>5. Times(Hits(q), h.mf) # 0
    <3> HIDE DEF q, h
    <3>1. Hits(q) \in Seq(MemFetch) /\ h.mf \in Within(Hits(q))
      BY <2>1, <2>2, HitsTyped
    <3> QED BY <3>1, TimesFacts
  <2> HIDE DEF h, q
  <2> QED BY <1>2, <2>3, <2>4, <2>5
<1>7. ASSUME NEW x \in SectorAddr PROVE l2_mshrs[x] = <<>>
  <2> SUFFICES ASSUME l2_mshrs[x] # <<>> PROVE FALSE
    OBVIOUS
  <2>1. PICK e \in l2_to_sm : m_sector_address(e.mf) = x
    BY <1>1 DEF EntryAnswered
  <2> DEFINE mf == e.mf
             A == {f \in l2_to_sm : f.mf = mf}
  <2>2. mf \in MemFetch /\ IsFiniteSet(l2_to_sm) /\ A \subseteq l2_to_sm /\ e \in A
    BY <1>1 DEF Flying
  <2>3. Answering(mf) = Cardinality(A)
    BY DEF Answering
  <2> HIDE DEF A, mf
  <2>4. IsFiniteSet(A)
    BY <2>2, FS_Subset
  <2>5. Cardinality(A) # 0
    BY <2>2, <2>4, FS_EmptySet
  <2>6. /\ Missed(mf) \in Nat /\ Sent(mf) \in Nat /\ Arriving(mf) \in Nat /\ Looking(mf) \in Nat
        /\ Answering(mf) \in Nat /\ Answered(mf) \in Nat /\ Returning(mf) \in Nat
        /\ Popping(mf) \in Nat
        /\ Below(mf) = Missed(mf) + Sent(mf) + Arriving(mf) + Looking(mf)
                        + Answering(mf) + Answered(mf) + Returning(mf) + Popping(mf)
    BY <1>1, <2>2 DEF CountsNat
  <2>7. Below(mf) = 0
    BY <1>2, <2>2
  <2> QED BY <2>3, <2>5, <2>6, <2>7
<1>8. /\ \A s \in Sm : DOMAIN l1_mshrs[s] = SectorAddr
      /\ DOMAIN l2_mshrs = SectorAddr
  BY <1>1 DEF Typed
<1>9. Entries(l2_mshrs) = {} /\ \A s \in Sm : Entries(l1_mshrs[s]) = {}
  BY <1>4, <1>7, <1>8 DEF Entries
<1> QED BY <1>2, <1>3, <1>5, <1>6, <1>9

\* When gpu_cycle leaves its loop, because no SM is active, every queue,
\* buffer and MSHR table of the caches and the crossbar is empty and every
\* load and store has completed: no request is left that nobody waits for.
THEOREM QuietEnd == Spec => []EndQuiet
BY QuietAtTheEnd, MInvAlways, PTL

-----------------------------------------------------------------------------
(* The hierarchy as a server of instructions.                              *)

\* An instruction with requests under way was issued.
LEMMA PendingIssued ==
    ASSUME MInv, NEW i \in Inst, pending_request[i] > 0
    PROVE  i \notin unissued
<1>1. pending_request[i] = Cardinality(OutOf(i)) /\ OutOnce
  BY DEF MInv, Counted
<1>2. OutOf(i) # {}
  BY <1>1, FS_EmptySet
<1>3. PICK mf \in RequestsOf(i) : Out(mf) = 1
  BY <1>2 DEF OutOf
<1>4. mf \in MemFetch /\ ~Unmade(mf)
  BY <1>1, <1>3, RequestFacts DEF OutOnce
<1> QED BY <1>4 DEF Unmade

\* What a step may do to the instructions that are issued and complete.
Onward ==
    /\ unissued' \subseteq unissued
    /\ \A i \in Inst : /\ completed[i] => completed'[i]
                       /\ completed'[i] => completed[i] \/ pending_request[i] > 0

LEMMA ReleaseOnward ==
    ASSUME NEW done, Release(done), unissued' = unissued
    PROVE  Onward
<1>1. ASSUME NEW i \in Inst
      PROVE  completed'[i] = (completed[i] \/ (pending_request[i] > 0 /\ Back(done, i) >= pending_request[i]))
  BY Zenon DEF Release
<1> QED BY <1>1 DEF Onward

LEMMA StepOnward == [Next]_vars => Onward
<1> SUFFICES ASSUME [Next]_vars PROVE Onward
  OBVIOUS
<1>1. ASSUME UNCHANGED <<completed, unissued>> PROVE Onward
  BY <1>1 DEF Onward
<1>2. CASE UNCHANGED vars
  BY <1>1, <1>2 DEF vars, l1Vars
<1>3. CASE SliceCycle
  BY <1>1, <1>3 DEF SliceCycle, smVars
<1>4. CASE IcntCycle
  BY <1>1, <1>4 DEF IcntCycle, smVars
<1>5. ASSUME NEW s \in Sm, SmPops(s) PROVE Onward
  BY <1>1, <1>5 DEF SmPops, Start
<1>6. ASSUME NEW s \in Sm, SmPushes(s) PROVE Onward
  BY <1>1, <1>6 DEF SmPushes, m_miss_queue_cycle
<1>7. ASSUME NEW s \in Sm, SmReturns(s) PROVE Onward
  BY <1>1, <1>7 DEF SmReturns, Return
<1>8. CASE EndKernel
  BY <1>1, <1>8 DEF EndKernel, smVars
<1>9. ASSUME NEW s \in Sm, SmRuns(s) PROVE Onward
  <2>1. \/ write_back(s)
        \/ write_back_request_l2(s)
        \/ \E b \in Sector : l1_cache_bank(s, b)
        \/ \E u \in Unit : unit_cycle(s, u)
        \/ \E i \in Inst : process_LDG_STG(s, i)
    BY <1>9 DEF SmRuns
  <2>2. CASE write_back(s)
    <3>1. Release({l1_to_sm[s][k].mf : k \in Ready(s)}) /\ unissued' = unissued
      BY <2>2 DEF write_back
    <3> QED BY <3>1, ReleaseOnward
  <2>3. CASE write_back_request_l2(s)
    <3>1. unissued' = unissued /\ (LoadReply(s) \/ StoreReply(s) \/ NoReply)
      BY <2>3 DEF write_back_request_l2
    <3>2. ASSUME LoadReply(s) PROVE \E done : Release(done)
      BY <3>2 DEF LoadReply
    <3>3. ASSUME StoreReply(s) PROVE \E done : Release(done)
      BY <3>3 DEF StoreReply
    <3>4. ASSUME NoReply PROVE Onward
      BY <1>1, <3>1, <3>4 DEF NoReply
    <3> QED BY <3>1, <3>2, <3>3, <3>4, ReleaseOnward
  <2>4. CASE \E b \in Sector : l1_cache_bank(s, b)
    BY <1>1, <2>4 DEF l1_cache_bank
  <2>5. CASE \E u \in Unit : unit_cycle(s, u)
    BY <1>1, <2>5 DEF unit_cycle
  <2>6. CASE \E i \in Inst : process_LDG_STG(s, i)
    BY <2>6 DEF process_LDG_STG, Onward
  <2> QED BY <2>1, <2>2, <2>3, <2>4, <2>5, <2>6
<1> QED BY <1>2, <1>3, <1>4, <1>5, <1>6, <1>7, <1>8, <1>9 DEF Next

\* Nothing is complete that was not issued.
CompleteIssued == unissued \subseteq Inst /\ \A i \in Inst : completed[i] => i \notin unissued

LEMMA ServerInit == Init => Server!Init /\ CompleteIssued
<1> SUFFICES ASSUME Init PROVE Server!Init /\ CompleteIssued
  OBVIOUS
<1>1. unissued = Inst /\ completed = [i \in Inst |-> FALSE]
  BY DEF Init, InitL1
<1>2. \A i \in Inst : ~completed[i]
  BY Zenon, <1>1
<1> QED BY <1>1, <1>2 DEF Server!Init, CompleteIssued

LEMMA ServerStep == MInv /\ CompleteIssued /\ [Next]_vars => Server!Next /\ CompleteIssued'
<1> SUFFICES ASSUME MInv, CompleteIssued, [Next]_vars
             PROVE  Server!Next /\ CompleteIssued'
  OBVIOUS
<1>1. Onward
  BY StepOnward
<1>2. unissued' \subseteq unissued /\ unissued \subseteq Inst
  BY <1>1 DEF Onward, CompleteIssued
<1>3. \A i \in Inst : completed[i] => completed'[i]
  BY <1>1 DEF Onward
<1>4. ASSUME NEW i \in Inst, completed'[i] PROVE i \notin unissued
  BY <1>1, <1>4, PendingIssued DEF Onward, CompleteIssued
<1>5. Server!Next
  BY <1>2, <1>3, <1>4 DEF Server!Next
<1>6. CompleteIssued'
  BY <1>2, <1>4 DEF CompleteIssued
<1> QED BY <1>5, <1>6

\* The caches, the crossbar and the slice together serve the loads and stores
\* of the warps as RequestServer says, but for its last promise, which is
\* liveness: an instruction counts as complete (completions, gpu.cpp) only
\* once it was issued, and stays complete.
THEOREM ServesInstructions ==
    Spec => Server!Init /\ [][Server!Next]_<<Inst \ unissued, {i \in Inst : completed[i]}>>
<1>1. Init => CompleteIssued
  BY ServerInit
<1>2. Spec => [](MInv /\ CompleteIssued)
  <2>1. MInv /\ CompleteIssued /\ [Next]_vars => CompleteIssued'
    BY ServerStep
  <2> QED BY <1>1, <2>1, MInvAlways, PTL DEF Spec
<1>3. MInv /\ CompleteIssued /\ [Next]_vars
         => [Server!Next]_<<Inst \ unissued, {i \in Inst : completed[i]}>>
  BY ServerStep
<1> QED BY <1>2, <1>3, ServerInit, PTL DEF Spec
=============================================================================
