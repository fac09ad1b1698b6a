------------------------------ MODULE L2Proofs ------------------------------
(***************************************************************************)
(* Proofs about L2System: every request is answered exactly once, no MSHR  *)
(* entry outlives the answer it waits for, and the table keeps its limits, *)
(* for every set of requests, every configuration and all latencies.  The  *)
(* tags only decide which of the outcomes a lookup has, so these proofs do *)
(* without them.  Of the tags: a line is in the slice once, no sector      *)
(* stays RESERVED, and what a cycle fills stays.                           *)
(***************************************************************************)
EXTENDS L2System, CommonLemmas

-----------------------------------------------------------------------------
(* The inductive invariant.                                                *)

\* Requests in the queue, and requests whose answer is on the way.
Waiting == Within(m_l1_to_l2)
Coming  == {e.mf : e \in l2_to_sm}

Typed ==
    /\ l2_mshrs   \in [SectorAddr -> Seq(MemFetch)]
    /\ m_l1_to_l2 \in Seq(MemFetch)
    /\ l2_to_sm   \in SUBSET Answers
    /\ m_status   \in [MemFetch -> {INIT, L2_HIT, L2_MISS}]
    /\ gpu_sim_cycles \in Nat
    /\ unsent \in SUBSET MemFetch

\* A request is at one place, there once, and answered when it has left all.
Apart ==
    /\ Distinct(m_l1_to_l2)
    /\ \A e, f \in l2_to_sm : e.mf = f.mf => e = f
    /\ \A mf \in MemFetch : /\ ~(mf \in unsent /\ mf \in Waiting)
                            /\ ~(mf \in unsent /\ mf \in Coming)
                            /\ ~(mf \in Waiting /\ mf \in Coming)

Replied ==
    /\ DOMAIN replied = MemFetch
    /\ \A mf \in MemFetch :
          replied[mf] = IF mf \in unsent \/ mf \in Waiting \/ mf \in Coming THEN 0 ELSE 1

IInv ==
    /\ Typed /\ Apart /\ Replied
    /\ AnswersAhead /\ MshrCovered /\ MshrBounded /\ IsFiniteSet(Entries(l2_mshrs))

LEMMA InitInv == Init => IInv
<1> SUFFICES ASSUME Init PROVE IInv
  OBVIOUS
<1>0. /\ l2_mshrs = [x \in SectorAddr |-> <<>>] /\ m_l1_to_l2 = <<>> /\ l2_to_sm = {}
      /\ m_status = [mf \in MemFetch |-> INIT] /\ gpu_sim_cycles = 0
      /\ unsent = MemFetch /\ replied = [mf \in MemFetch |-> 0]
  BY DEF Init, InitL2, EmptyMshr
<1>1. Waiting = {} /\ Coming = {}
  BY <1>0 DEF Waiting, Coming, Within
<1>2. Typed
  <2>1. l2_mshrs \in [SectorAddr -> Seq(MemFetch)]
    BY <1>0
  <2> QED BY <1>0, <2>1 DEF Typed
<1>3. Apart
  BY <1>0, <1>1 DEF Apart, Distinct
<1>4. Replied
  BY <1>0, <1>1 DEF Replied
<1>5. AnswersAhead
  BY <1>0 DEF AnswersAhead
<1>6. MshrCovered
  BY <1>0 DEF MshrCovered
<1>7. Entries(l2_mshrs) = {}
  BY <1>0 DEF Entries
<1>8. MshrBounded
  <2>1. Cardinality(Entries(l2_mshrs)) = 0
    BY <1>7, FS_EmptySet
  <2>2. \A x \in SectorAddr : Len(l2_mshrs[x]) = 0
    BY <1>0
  <2> QED BY <2>1, <2>2, L2Assumption DEF MshrBounded
<1> QED BY <1>2, <1>3, <1>4, <1>5, <1>6, <1>7, <1>8, FS_EmptySet DEF IInv

-----------------------------------------------------------------------------
(* What a cycle does to the queue, the answers and the table, leaving out  *)
(* the tags: the lookup fails or there is none, the request is answered,   *)
(* or it is answered and joins the table.                                  *)

Stays(now, popped) ==
    /\ m_l1_to_l2' = Queue(popped)
    /\ l2_to_sm' = l2_to_sm \ Returned(now)
    /\ m_status' = m_status
    /\ l2_mshrs' = MshrsAfterReturn(now)

Leaves(now, popped) ==
    /\ Queue(popped) # <<>>
    /\ \E status \in {L2_HIT, L2_MISS}, latency \in Nat \ {0} :
          Answer(now, popped, status, latency)
    /\ l2_mshrs' = MshrsAfterReturn(now)

Joins(now, popped) ==
    /\ Queue(popped) # <<>>
    /\ \E latency \in Nat \ {0} : Answer(now, popped, L2_MISS, latency)
    /\ ~is_write[FrontRequest(popped)]
    /\ ~Full(now, FrontRequest(popped))
    /\ l2_mshrs' = mshr_add(MshrsAfterReturn(now), m_sector_address(FrontRequest(popped)),
                            FrontRequest(popped))

LEMMA Outcomes ==
    ASSUME Typed, NEW popped \in Arrivals, NEW now, l2_cache_cycle(now, popped)
    PROVE  Stays(now, popped) \/ Leaves(now, popped) \/ Joins(now, popped)
<1>1. ASSUME NEW mf PROVE MissLatency(mf) \in Nat \ {0} /\ StoreHitLatency(mf) \in Nat \ {0}
  BY L2Assumption DEF MissLatency, StoreHitLatency
<1>2. tlb_hit_l2_hit_latency \in Nat \ {0} /\ tlb_hit_l2_miss_latency \in Nat \ {0}
  BY L2Assumption
<1>3. CASE Queue(popped) = <<>>
  <2>1. NoLookup(now)
    BY <1>3 DEF l2_cache_cycle
  <2>2. Queue(popped) = m_l1_to_l2
    <3>1. CASE popped = {}
      BY <3>1 DEF Queue
    <3>2. CASE popped # {}
      <4>1. PICK mf \in MemFetch : popped = {mf}
        BY <3>2 DEF Arrivals, Typed
      <4>2. (CHOOSE m \in popped : TRUE) \in MemFetch
        BY <4>1
      <4>3. Append(m_l1_to_l2, CHOOSE m \in popped : TRUE) # <<>>
        BY <4>2, AppendWithin DEF Typed
      <4> QED BY <1>3, <3>2, <4>3 DEF Queue
    <3> QED BY <3>1, <3>2
  <2> QED BY <2>1, <2>2 DEF NoLookup, Stays
<1>4. CASE Queue(popped) # <<>>
  <2>0. Lookup(now, popped)
    BY <1>4 DEF l2_cache_cycle
  <2>1. CASE StoreHit(now, popped)
    BY <1>1, <1>4, <2>1 DEF StoreHit, Leaves
  <2>2. CASE StoreIdle(now, popped)
    BY <1>1, <1>4, <2>2 DEF StoreIdle, Leaves
  <2>3. CASE StoreMiss(now, popped)
    BY <1>1, <1>4, <2>3 DEF StoreMiss, Leaves
  <2>4. CASE LoadHit(now, popped)
    BY <1>2, <1>4, <2>4 DEF LoadHit, Leaves
  <2>5. CASE LoadMiss(now, popped)
    BY <1>1, <1>2, <1>4, <2>5 DEF LoadMiss, Joins
  <2>6. CASE LookupFails(now, popped)
    BY <2>6 DEF LookupFails, Stays
  <2> QED BY <2>0, <2>1, <2>2, <2>3, <2>4, <2>5, <2>6 DEF Lookup
<1> QED BY <1>3, <1>4

\* The queue after one Pop.
LEMMA QueueWithin ==
    ASSUME Typed, Apart, NEW popped \in Arrivals
    PROVE  /\ Queue(popped) \in Seq(MemFetch) /\ Distinct(Queue(popped))
           /\ Within(Queue(popped)) = Waiting \cup popped
           /\ popped \subseteq unsent
<1>1. CASE popped = {}
  BY <1>1 DEF Queue, Typed, Apart, Waiting
<1>2. CASE popped # {}
  <2>1. PICK mf \in MemFetch : popped = {mf} /\ mf \in unsent
    BY <1>2 DEF Arrivals, Typed
  <2>2. Queue(popped) = Append(m_l1_to_l2, mf)
    BY <1>2, <2>1 DEF Queue
  <2>3. mf \notin Waiting
    BY <2>1 DEF Apart
  <2>4. m_l1_to_l2 \in Seq(MemFetch) /\ Distinct(m_l1_to_l2) /\ Waiting = Within(m_l1_to_l2)
    BY DEF Typed, Apart, Waiting
  <2>5. /\ Append(m_l1_to_l2, mf) \in Seq(MemFetch)
        /\ Within(Append(m_l1_to_l2, mf)) = Within(m_l1_to_l2) \cup {mf}
        /\ Distinct(Append(m_l1_to_l2, mf))
    BY <2>1, <2>3, <2>4, AppendWithin
  <2> QED BY <2>1, <2>2, <2>4, <2>5
<1> QED BY <1>1, <1>2

\* The request at the front, and the queue behind it.
LEMMA FrontFacts ==
    ASSUME Typed, Apart, NEW popped \in Arrivals, Queue(popped) # <<>>
    PROVE  /\ FrontRequest(popped) \in MemFetch
           /\ FrontRequest(popped) \notin Coming
           /\ Tail(Queue(popped)) \in Seq(MemFetch) /\ Distinct(Tail(Queue(popped)))
           /\ Waiting \cup popped = Within(Tail(Queue(popped))) \cup {FrontRequest(popped)}
           /\ FrontRequest(popped) \notin Within(Tail(Queue(popped)))
<1> DEFINE q == Queue(popped)
<1>1. /\ q \in Seq(MemFetch) /\ Distinct(q) /\ Within(q) = Waiting \cup popped
      /\ popped \subseteq unsent
  BY QueueWithin
<1>2. FrontRequest(popped) = Head(q)
  BY DEF FrontRequest
<1>3. q # <<>>
  OBVIOUS
<1> HIDE DEF q
<1>4. /\ Head(q) \in MemFetch /\ Tail(q) \in Seq(MemFetch) /\ Head(q) \in Within(q)
      /\ Within(q) = Within(Tail(q)) \cup {Head(q)}
      /\ Head(q) \notin Within(Tail(q)) /\ Distinct(Tail(q))
  BY <1>1, <1>3, TailWithin
<1>5. Head(q) \notin Coming
  BY <1>1, <1>4 DEF Apart
<1> QED BY <1>1, <1>2, <1>4, <1>5 DEF q

\* The table after the return loop: an entry that is left is as it was, and
\* none of its requests has just been answered.  For if one of them had, the
\* first such answer for the sector would have released the entry.
LEMMA ReturnFacts ==
    ASSUME Typed, MshrCovered, NEW now \in Nat
    PROVE  /\ MshrsAfterReturn(now) \in [SectorAddr -> Seq(MemFetch)]
           /\ \A x \in SectorAddr : MshrsAfterReturn(now)[x] \in {<<>>, l2_mshrs[x]}
           /\ \A x \in SectorAddr, i \in Nat, e \in Returned(now) :
                 i \in DOMAIN MshrsAfterReturn(now)[x] => e.mf # MshrsAfterReturn(now)[x][i]
<1> DEFINE m == MshrsAfterReturn(now)
<1>1. m \in [SectorAddr -> Seq(MemFetch)] /\ \A x \in SectorAddr : m[x] \in {<<>>, l2_mshrs[x]}
  BY DEF MshrsAfterReturn, Typed
<1>2. ASSUME NEW x \in SectorAddr, NEW i \in Nat, i \in DOMAIN m[x],
             NEW e \in Returned(now), e.mf = m[x][i]
      PROVE  FALSE
  <2>1. m[x] = l2_mshrs[x] /\ i \in DOMAIN l2_mshrs[x] /\ e.mf = l2_mshrs[x][i]
    BY <1>1, <1>2
  <2>2. /\ m_sector_address(e.mf) = x /\ m_status[e.mf] = L2_MISS
    BY <2>1 DEF MshrCovered
  <2>3. mshr_probe(l2_mshrs, x)
    BY <2>1 DEF mshr_probe
  <2> DEFINE missed == {f \in Returned(now) : /\ m_status[f.mf] # L2_HIT
                                              /\ mshr_probe(l2_mshrs, m_sector_address(f.mf))}
             mine   == {f \in missed : m_sector_address(f.mf) = x}
             times  == {f.at : f \in mine}
  <2>4. e \in mine
    BY <2>2, <2>3 DEF L2_MISS, L2_HIT
  <2>5. \A f \in l2_to_sm : f.at \in Nat
    BY DEF Typed, Answers
  <2>6. times \in SUBSET Nat /\ times # {}
    BY <2>4, <2>5 DEF Returned
  <2>7. PICK n \in times : \A k \in times : n <= k
    <3> HIDE DEF times
    <3> QED BY <2>6, Least
  <2>8. PICK f \in mine : f.at = n
    BY <2>7
  <2>9. f \in Releasing(now)
    <3>1. \A g \in missed : m_sector_address(g.mf) = m_sector_address(f.mf) => f.at <= g.at
      BY <2>7, <2>8
    <3> QED BY <2>8, <3>1 DEF Releasing
  <2>10. m[x] = <<>>
    BY <2>8, <2>9 DEF MshrsAfterReturn
  <2> QED BY <1>2, <2>10
<1> QED BY <1>1, <1>2

-----------------------------------------------------------------------------
(* A cycle preserves the invariant, part by part.                          *)

\* What the three outcomes have in common, with the request that gets an
\* answer in a set (empty when there is none).
Moved(now, popped, front) ==
    /\ m_l1_to_l2' \in Seq(MemFetch) /\ Distinct(m_l1_to_l2')
    /\ front \subseteq MemFetch /\ front \cap Coming = {} /\ front \cap Within(m_l1_to_l2') = {}
    /\ Waiting \cup popped = Within(m_l1_to_l2') \cup front
    /\ popped \subseteq unsent
    /\ \A mf, mg \in front : mf = mg
    /\ \E latency \in Nat \ {0} :
          l2_to_sm' = (l2_to_sm \ Returned(now))
                         \cup {[mf |-> mf, at |-> now, due |-> now + latency] : mf \in front}
    /\ m_status' \in [MemFetch -> {INIT, L2_HIT, L2_MISS}]
    /\ \A mf \in MemFetch : mf \notin front => m_status'[mf] = m_status[mf]

LEMMA MovedAnswer ==
    ASSUME Typed, Apart, NEW popped \in Arrivals, NEW now, Queue(popped) # <<>>,
           NEW status \in {L2_HIT, L2_MISS}, NEW latency \in Nat \ {0},
           Answer(now, popped, status, latency)
    PROVE  /\ Moved(now, popped, {FrontRequest(popped)})
           /\ m_status'[FrontRequest(popped)] = status
<1> DEFINE mf == FrontRequest(popped)
<1>1. /\ mf \in MemFetch /\ mf \notin Coming
      /\ Tail(Queue(popped)) \in Seq(MemFetch) /\ Distinct(Tail(Queue(popped)))
      /\ Waiting \cup popped = Within(Tail(Queue(popped))) \cup {mf}
      /\ mf \notin Within(Tail(Queue(popped)))
  BY FrontFacts
<1>2. popped \subseteq unsent
  BY QueueWithin
<1>3. /\ m_l1_to_l2' = Tail(Queue(popped))
      /\ l2_to_sm' = (l2_to_sm \ Returned(now))
                        \cup {[mf |-> mf, at |-> now, due |-> now + latency]}
      /\ m_status' = [m_status EXCEPT ![mf] = status]
  BY DEF Answer
<1> HIDE DEF mf
<1>4. {[mf |-> f, at |-> now, due |-> now + latency] : f \in {mf}}
         = {[mf |-> mf, at |-> now, due |-> now + latency]}
  OBVIOUS
<1>5. /\ m_status' \in [MemFetch -> {INIT, L2_HIT, L2_MISS}]
      /\ \A f \in MemFetch : f \notin {mf} => m_status'[f] = m_status[f]
      /\ m_status'[mf] = status
  BY <1>1, <1>3 DEF Typed
<1>6. l2_to_sm' = (l2_to_sm \ Returned(now))
                     \cup {[mf |-> f, at |-> now, due |-> now + latency] : f \in {mf}}
  BY <1>3, <1>4
<1>7. Moved(now, popped, {mf})
  BY <1>1, <1>2, <1>3, <1>5, <1>6 DEF Moved
<1> QED BY <1>5, <1>7 DEF mf

LEMMA MovedStays ==
    ASSUME Typed, Apart, NEW popped \in Arrivals, NEW now, Stays(now, popped)
    PROVE  Moved(now, popped, {})
<1>1. /\ Queue(popped) \in Seq(MemFetch) /\ Distinct(Queue(popped))
      /\ Within(Queue(popped)) = Waiting \cup popped /\ popped \subseteq unsent
  BY QueueWithin
<1>2. l2_to_sm' = (l2_to_sm \ Returned(now))
                     \cup {[mf |-> mf, at |-> now, due |-> now + 1] : mf \in {}}
  BY DEF Stays
<1>3. 1 \in Nat \ {0}
  OBVIOUS
<1> QED BY <1>1, <1>2, <1>3 DEF Moved, Stays, Typed

\* The answers on the way, one by one: an old one that was not due, or the
\* new one of the request at the front.
LEMMA MovedAnswers ==
    ASSUME Typed, AnswersAhead, NEW popped, NEW now, now = gpu_sim_cycles + 1,
           NEW front, Moved(now, popped, front)
    PROVE  /\ l2_to_sm' \in SUBSET Answers
           /\ \A e \in l2_to_sm' : \/ e \in l2_to_sm /\ e.due > now /\ e.mf \in Coming
                                   \/ e.mf \in front /\ e.at = now /\ e.due > now
           /\ \A e, f \in l2_to_sm' : e.mf \in front /\ f.mf = e.mf => f = e
           /\ \A mf \in front : \E e \in l2_to_sm' : e.mf = mf
           /\ \A e \in l2_to_sm : e \notin Returned(now) => e \in l2_to_sm'
           /\ \A e \in Returned(now) : e \in l2_to_sm /\ e \notin l2_to_sm'
<1>1. PICK latency \in Nat \ {0} :
          l2_to_sm' = (l2_to_sm \ Returned(now))
                         \cup {[mf |-> mf, at |-> now, due |-> now + latency] : mf \in front}
  BY DEF Moved
<1>2. now \in Nat /\ latency \in Nat /\ now + latency > now
  BY DEF Typed
<1>3. \A e \in l2_to_sm : e.mf \in MemFetch /\ e.at \in Nat /\ e.due \in Nat /\ e.at <= gpu_sim_cycles
  BY DEF Typed, Answers, AnswersAhead
<1>4. \A mf \in front : mf \in MemFetch
  BY DEF Moved
<1>5. \A e \in l2_to_sm' : \/ e \in l2_to_sm /\ e \notin Returned(now)
                           \/ \E mf \in front : e = [mf |-> mf, at |-> now, due |-> now + latency]
  BY <1>1
<1>6. \A e \in l2_to_sm : e \notin Returned(now) => e.due > now
  BY <1>2, <1>3 DEF Returned
<1>7. \A e \in l2_to_sm : e.mf \in Coming
  BY DEF Coming
<1>8. \A e \in l2_to_sm' : \/ e \in l2_to_sm /\ e.due > now /\ e.mf \in Coming
                           \/ e.mf \in front /\ e.at = now /\ e.due > now
  BY <1>2, <1>5, <1>6, <1>7
<1>9. l2_to_sm' \in SUBSET Answers
  BY <1>1, <1>2, <1>4 DEF Typed, Answers
<1>10. \A e \in l2_to_sm' : e.mf \in front =>
           e = [mf |-> e.mf, at |-> now, due |-> now + latency]
  BY <1>5, <1>7 DEF Moved
<1>11. \A e, f \in l2_to_sm' : e.mf \in front /\ f.mf = e.mf => f = e
  BY <1>10
<1>12. \A mf \in front : \E e \in l2_to_sm' : e.mf = mf
  <2> TAKE mf \in front
  <2> DEFINE e == [mf |-> mf, at |-> now, due |-> now + latency]
  <2>1. e \in l2_to_sm' /\ e.mf = mf
    BY <1>1
  <2> QED BY <2>1
<1>13. \A e \in Returned(now) : e \in l2_to_sm /\ e \notin l2_to_sm'
  <2> TAKE e \in Returned(now)
  <2>1. e \in l2_to_sm /\ e.mf \in Coming
    BY <1>7 DEF Returned
  <2>2. e.mf \notin front
    BY <2>1 DEF Moved
  <2> QED BY <1>5, <2>1, <2>2
<1> QED BY <1>1, <1>8, <1>9, <1>11, <1>12, <1>13

LEMMA ApartStep ==
    ASSUME Typed, Apart, AnswersAhead, NEW popped \in Arrivals, Cycle(popped),
           NEW front, Moved(gpu_sim_cycles + 1, popped, front)
    PROVE  Apart'
<1> DEFINE now == gpu_sim_cycles + 1
<1>1. /\ \A e \in l2_to_sm' : \/ e \in l2_to_sm /\ e.due > now /\ e.mf \in Coming
                              \/ e.mf \in front /\ e.at = now /\ e.due > now
      /\ \A e, f \in l2_to_sm' : e.mf \in front /\ f.mf = e.mf => f = e
  BY MovedAnswers
<1>2. /\ front \cap Coming = {} /\ front \cap Within(m_l1_to_l2') = {}
      /\ Waiting \cup popped = Within(m_l1_to_l2') \cup front
      /\ popped \subseteq unsent /\ Distinct(m_l1_to_l2')
  BY DEF Moved
<1>3. unsent' = unsent \ popped
  BY DEF Cycle
<1>4. Distinct(m_l1_to_l2)'
  BY <1>2 DEF Distinct
<1>5. Waiting' = Within(m_l1_to_l2')
  BY DEF Waiting, Within
<1>6. \A mf : mf \in Coming' => mf \in Coming \/ mf \in front
  BY <1>1 DEF Coming
<1>7. \A e, f \in l2_to_sm' : e.mf = f.mf => e = f
  BY <1>1 DEF Apart
<1>8. \A mf \in MemFetch : /\ ~(mf \in unsent' /\ mf \in Waiting')
                           /\ ~(mf \in unsent' /\ mf \in Coming')
                           /\ ~(mf \in Waiting' /\ mf \in Coming')
  <2> TAKE mf \in MemFetch
  <2>1. mf \in unsent' => mf \in unsent /\ mf \notin popped /\ mf \notin Waiting /\ mf \notin Coming
    BY <1>3 DEF Apart
  <2>2. mf \in Coming => mf \notin Waiting /\ mf \notin popped
    BY <1>2 DEF Apart
  <2> QED BY <1>2, <1>5, <1>6, <2>1, <2>2
<1> QED BY <1>4, <1>7, <1>8 DEF Apart

LEMMA RepliedStep ==
    ASSUME Typed, Apart, AnswersAhead, Replied, NEW popped \in Arrivals, Cycle(popped),
           NEW front, Moved(gpu_sim_cycles + 1, popped, front)
    PROVE  Replied'
<1> DEFINE now    == gpu_sim_cycles + 1
           of(mf) == {e \in Returned(now) : e.mf = mf}
<1>1. replied' = [mf \in MemFetch |-> replied[mf] + Cardinality(of(mf))]
  BY DEF Cycle
<1>2. /\ \A e \in l2_to_sm' : \/ e \in l2_to_sm /\ e.due > now /\ e.mf \in Coming
                              \/ e.mf \in front /\ e.at = now /\ e.due > now
      /\ \A mf \in front : \E e \in l2_to_sm' : e.mf = mf
      /\ \A e \in l2_to_sm : e \notin Returned(now) => e \in l2_to_sm'
      /\ \A e \in Returned(now) : e \in l2_to_sm /\ e \notin l2_to_sm'
  BY MovedAnswers
<1>3. /\ front \cap Coming = {}
      /\ Waiting \cup popped = Within(m_l1_to_l2') \cup front
      /\ popped \subseteq unsent
  BY DEF Moved
<1>4. unsent' = unsent \ popped /\ Waiting' = Within(m_l1_to_l2')
  BY DEF Cycle, Waiting, Within
<1> HIDE DEF now
<1>5. ASSUME NEW mf \in MemFetch
      PROVE  replied'[mf] = IF mf \in unsent' \/ mf \in Waiting' \/ mf \in Coming' THEN 0 ELSE 1
  <2>1. CASE of(mf) = {}
    <3>1. replied'[mf] = replied[mf]
      <4>1. Cardinality(of(mf)) = 0
        BY <2>1, FS_EmptySet
      <4>2. replied[mf] \in {0, 1}
        BY DEF Replied
      <4> HIDE DEF of
      <4> QED BY <1>1, <4>1, <4>2
    <3>2. mf \in Coming' <=> mf \in Coming \/ mf \in front
      <4>1. ASSUME mf \in Coming PROVE mf \in Coming'
        <5>1. PICK e \in l2_to_sm : e.mf = mf
          BY <4>1 DEF Coming
        <5>2. e \in l2_to_sm'
          BY <1>2, <2>1, <5>1
        <5> QED BY <5>1, <5>2 DEF Coming
      <4>2. mf \in front => mf \in Coming'
        BY <1>2 DEF Coming
      <4>3. mf \in Coming' => mf \in Coming \/ mf \in front
        BY <1>2 DEF Coming
      <4> QED BY <4>1, <4>2, <4>3
    <3>3. replied[mf] = IF mf \in unsent \/ mf \in Waiting \/ mf \in Coming THEN 0 ELSE 1
      BY DEF Replied
    <3> QED BY <1>3, <1>4, <3>1, <3>2, <3>3
  <2>2. CASE of(mf) # {}
    <3>1. PICK e \in Returned(now) : e.mf = mf
      BY <2>2
    <3>2. e \in l2_to_sm /\ e \notin l2_to_sm'
      BY <1>2, <3>1
    <3>3. \A f \in l2_to_sm : f.mf = mf => f = e
      BY <3>1, <3>2 DEF Apart
    <3>4. of(mf) = {e}
      BY <1>2, <3>1, <3>3
    <3>5. Cardinality(of(mf)) = 1
      BY <3>4, FS_Singleton
    <3>6. mf \in Coming /\ mf \notin unsent /\ mf \notin Waiting
      BY <3>1, <3>2 DEF Coming, Apart
    <3>7. replied[mf] = 0
      BY <3>6 DEF Replied
    <3>8. mf \notin Coming'
      BY <1>2, <1>3, <3>2, <3>3, <3>6 DEF Coming
    <3>9. mf \notin unsent' /\ mf \notin Waiting'
      BY <1>3, <1>4, <3>6
    <3> HIDE DEF of
    <3> QED BY <1>1, <3>5, <3>7, <3>8, <3>9
  <2> QED BY <2>1, <2>2
<1>6. DOMAIN replied' = MemFetch
  BY <1>1
<1> QED BY <1>5, <1>6 DEF Replied

LEMMA AheadStep ==
    ASSUME Typed, Apart, AnswersAhead, NEW popped \in Arrivals, Cycle(popped),
           NEW front, Moved(gpu_sim_cycles + 1, popped, front)
    PROVE  AnswersAhead'
<1> DEFINE now == gpu_sim_cycles + 1
<1>1. /\ \A e \in l2_to_sm' : \/ e \in l2_to_sm /\ e.due > now /\ e.mf \in Coming
                              \/ e.mf \in front /\ e.at = now /\ e.due > now
      /\ \A e, f \in l2_to_sm' : e.mf \in front /\ f.mf = e.mf => f = e
  BY MovedAnswers
<1>2. gpu_sim_cycles' = now /\ gpu_sim_cycles \in Nat
  BY DEF Cycle, Typed
<1>3. \A e \in l2_to_sm : e.at \in Nat /\ e.at <= gpu_sim_cycles
  BY DEF AnswersAhead, Typed, Answers
<1>4. \A mf, mg \in front : mf = mg
  BY DEF Moved
<1>5. \A e \in l2_to_sm' : e.at <= now /\ now < e.due
  BY <1>1, <1>2, <1>3
<1>6. \A e, f \in l2_to_sm' : e.at = f.at => e = f
  <2> TAKE e, f \in l2_to_sm'
  <2> HAVE e.at = f.at
  <2>1. CASE e \in l2_to_sm /\ f \in l2_to_sm
    BY <2>1 DEF AnswersAhead
  <2>2. CASE e.mf \in front /\ f.mf \in front
    <3>1. f.mf = e.mf
      BY <1>4, <2>2
    <3> QED BY <1>1, <2>2, <3>1
  <2>3. CASE e \in l2_to_sm /\ f.at = now
    BY <1>2, <1>3, <2>3
  <2>4. CASE e.at = now /\ f \in l2_to_sm
    <3>1. f.at \in Nat /\ f.at <= gpu_sim_cycles /\ f.at = now
      BY <1>3, <2>4
    <3> QED BY <1>2, <3>1
  <2> QED BY <1>1, <2>1, <2>2, <2>3, <2>4
<1> QED BY <1>2, <1>5, <1>6 DEF AnswersAhead

\* An entry that the return loop leaves keeps its requests, and their
\* answers stay on the way.
LEMMA KeptEntries ==
    ASSUME Typed, AnswersAhead, MshrCovered, NEW now, now = gpu_sim_cycles + 1,
           NEW popped, NEW front, Moved(now, popped, front),
           NEW x \in SectorAddr, NEW i \in DOMAIN MshrsAfterReturn(now)[x]
    PROVE  LET mf == MshrsAfterReturn(now)[x][i] IN
           /\ mf \in MemFetch /\ m_sector_address(mf) = x /\ ~is_write[mf]
           /\ m_status'[mf] = L2_MISS
           /\ \E e \in l2_to_sm' : e.mf = mf
<1> DEFINE m  == MshrsAfterReturn(now)
           mf == m[x][i]
<1>0. now \in Nat
  BY DEF Typed
<1>1. /\ m \in [SectorAddr -> Seq(MemFetch)] /\ m[x] \in {<<>>, l2_mshrs[x]}
      /\ \A e \in Returned(now), j \in Nat : j \in DOMAIN m[x] => e.mf # m[x][j]
  BY <1>0, ReturnFacts
<1>2. m[x] = l2_mshrs[x] /\ i \in Nat /\ mf \in MemFetch
  <2> HIDE DEF m
  <2>1. m[x] \in Seq(MemFetch) /\ i \in DOMAIN m[x]
    BY <1>1 DEF m
  <2>2. i \in 1 .. Len(m[x])
    BY <2>1
  <2>3. m[x] # <<>>
    BY <2>1
  <2> QED BY <1>1, <2>1, <2>2, <2>3
<1>3. /\ m_sector_address(mf) = x /\ m_status[mf] = L2_MISS /\ ~is_write[mf]
      /\ \E e \in l2_to_sm : e.mf = mf
  BY <1>2 DEF MshrCovered
<1>4. PICK e \in l2_to_sm : e.mf = mf
  BY <1>3
<1>5. e \notin Returned(now)
  BY <1>1, <1>2, <1>4
<1>6. e \in l2_to_sm'
  BY <1>5, MovedAnswers
<1>7. mf \notin front
  BY <1>4 DEF Moved, Coming
<1>8. m_status'[mf] = m_status[mf]
  BY <1>2, <1>7 DEF Moved
<1> QED BY <1>2, <1>3, <1>4, <1>6, <1>8

\* The return loop leaves no more entries than there were, and no longer
\* ones.
LEMMA KeptBounded ==
    ASSUME Typed, MshrCovered, MshrBounded, IsFiniteSet(Entries(l2_mshrs)), NEW now \in Nat
    PROVE  /\ IsFiniteSet(Entries(MshrsAfterReturn(now)))
           /\ Cardinality(Entries(MshrsAfterReturn(now))) <= l2_m_mshr_entries
           /\ \A x \in SectorAddr : Len(MshrsAfterReturn(now)[x]) <= l2_m_mshr_max_merge
<1> DEFINE m == MshrsAfterReturn(now)
<1>1. /\ m \in [SectorAddr -> Seq(MemFetch)]
      /\ \A x \in SectorAddr : m[x] \in {<<>>, l2_mshrs[x]}
  BY ReturnFacts
<1>2. DOMAIN m = SectorAddr /\ DOMAIN l2_mshrs = SectorAddr
  BY <1>1 DEF Typed
<1>3. Entries(m) \subseteq Entries(l2_mshrs)
  BY <1>1, <1>2 DEF Entries
<1>4. /\ IsFiniteSet(Entries(m))
      /\ Cardinality(Entries(m)) <= Cardinality(Entries(l2_mshrs))
      /\ Cardinality(Entries(m)) \in Nat /\ Cardinality(Entries(l2_mshrs)) \in Nat
  BY <1>3, FS_Subset, FS_CardinalityType
<1>5. Cardinality(Entries(m)) <= l2_m_mshr_entries
  BY <1>4, L2Assumption DEF MshrBounded
<1>6. ASSUME NEW x \in SectorAddr PROVE Len(m[x]) <= l2_m_mshr_max_merge
  <2>1. CASE m[x] = <<>>
    BY <2>1, L2Assumption
  <2>2. CASE m[x] = l2_mshrs[x]
    BY <2>2 DEF MshrBounded
  <2> QED BY <1>1, <2>1, <2>2
<1> QED BY <1>4, <1>5, <1>6

\* A load that joins the table is covered by its own answer, and the table
\* had room for it.
LEMMA JoinStep ==
    ASSUME IInv, NEW now, now = gpu_sim_cycles + 1, NEW popped \in Arrivals, Joins(now, popped),
           Moved(now, popped, {FrontRequest(popped)}),
           m_status'[FrontRequest(popped)] = L2_MISS
    PROVE  /\ l2_mshrs' \in [SectorAddr -> Seq(MemFetch)]
           /\ MshrCovered' /\ MshrBounded' /\ IsFiniteSet(Entries(l2_mshrs'))
<1> DEFINE m  == MshrsAfterReturn(now)
           mf == FrontRequest(popped)
           y  == m_sector_address(mf)
<1>0. now \in Nat /\ Typed /\ Apart /\ AnswersAhead /\ MshrCovered /\ MshrBounded
  BY DEF IInv, Typed
<1>1. mf \in MemFetch /\ ~is_write[mf] /\ l2_mshrs' = [m EXCEPT ![y] = Append(@, mf)]
  BY <1>0, FrontFacts DEF Joins, mshr_add
<1>2. y \in SectorAddr
  BY <1>1, RequestsAssumption DEF m_sector_address, SectorAddr
<1>3. m \in [SectorAddr -> Seq(MemFetch)]
  BY <1>0, ReturnFacts
<1>4. /\ IsFiniteSet(Entries(m)) /\ Cardinality(Entries(m)) <= l2_m_mshr_entries
      /\ \A x \in SectorAddr : Len(m[x]) <= l2_m_mshr_max_merge
  BY <1>0, KeptBounded DEF IInv
<1>5. ASSUME NEW x \in SectorAddr, NEW i \in DOMAIN m[x]
      PROVE  /\ m[x][i] \in MemFetch /\ m_sector_address(m[x][i]) = x /\ ~is_write[m[x][i]]
             /\ m_status'[m[x][i]] = L2_MISS
             /\ \E e \in l2_to_sm' : e.mf = m[x][i]
  BY <1>0, KeptEntries
<1>6. \E e \in l2_to_sm' : e.mf = mf
  <2>1. mf \in {mf}
    OBVIOUS
  <2> QED BY <1>0, <2>1, MovedAnswers
<1>7. IF mshr_probe(m, y) THEN ~(Len(m[y]) >= l2_m_mshr_max_merge)
                          ELSE ~(Cardinality(Entries(m)) >= l2_m_mshr_entries)
  BY DEF Joins, Full, mshr_full
<1>8. m_status'[mf] = L2_MISS
  OBVIOUS
<1>9. m_sector_address(mf) = y
  OBVIOUS
<1> HIDE DEF m, mf, y
<1>10. /\ m[y] \in Seq(MemFetch) /\ Len(m[y]) \in Nat /\ DOMAIN m[y] = 1 .. Len(m[y])
       /\ Append(m[y], mf) \in Seq(MemFetch)
       /\ Append(m[y], mf) # <<>>
       /\ Len(Append(m[y], mf)) = Len(m[y]) + 1
       /\ DOMAIN Append(m[y], mf) = 1 .. Len(m[y]) + 1
       /\ Append(m[y], mf)[Len(m[y]) + 1] = mf
       /\ \A i \in 1 .. Len(m[y]) : Append(m[y], mf)[i] = m[y][i]
  <2>1. m[y] \in Seq(MemFetch)
    BY <1>2, <1>3
  <2>2. Append(m[y], mf) # <<>>
    BY <1>1, <2>1, AppendWithin
  <2> QED BY <1>1, <2>1, <2>2
<1>11. /\ l2_mshrs' \in [SectorAddr -> Seq(MemFetch)]
       /\ l2_mshrs'[y] = Append(m[y], mf)
       /\ \A x \in SectorAddr : x # y => l2_mshrs'[x] = m[x]
  BY <1>1, <1>2, <1>3, <1>10
<1>12. MshrCovered'
  <2>1. ASSUME NEW x \in SectorAddr, NEW i \in DOMAIN l2_mshrs'[x]
        PROVE  /\ m_sector_address(l2_mshrs'[x][i]) = x
               /\ m_status'[l2_mshrs'[x][i]] = L2_MISS
               /\ ~is_write[l2_mshrs'[x][i]]
               /\ \E e \in l2_to_sm' : e.mf = l2_mshrs'[x][i]
    <3>1. CASE x # y
      BY <1>5, <1>11, <2>1, <3>1
    <3>2. CASE x = y /\ i \in DOMAIN m[y]
      <4>1. l2_mshrs'[x][i] = m[x][i]
        BY <1>10, <1>11, <3>2
      <4> QED BY <1>5, <3>2, <4>1
    <3>3. CASE x = y /\ i = Len(m[y]) + 1
      <4>1. l2_mshrs'[x][i] = mf
        BY <1>10, <1>11, <3>3
      <4> QED BY <1>1, <1>6, <1>8, <1>9, <3>3, <4>1
    <3>4. x = y => i \in DOMAIN m[y] \/ i = Len(m[y]) + 1
      BY <1>10, <1>11, <2>1
    <3> QED BY <3>1, <3>2, <3>3, <3>4
  <2> QED BY <2>1 DEF MshrCovered
<1>13. DOMAIN m = SectorAddr /\ DOMAIN l2_mshrs' = SectorAddr
  BY <1>3, <1>11
<1>14. Entries(l2_mshrs') = Entries(m) \cup {y}
  BY <1>2, <1>10, <1>11, <1>13 DEF Entries
<1>15. /\ IsFiniteSet(Entries(l2_mshrs'))
       /\ Cardinality(Entries(l2_mshrs')) =
             IF y \in Entries(m) THEN Cardinality(Entries(m)) ELSE Cardinality(Entries(m)) + 1
  BY <1>4, <1>14, FS_AddElement
<1>16. Cardinality(Entries(l2_mshrs')) <= l2_m_mshr_entries
  <2>1. Cardinality(Entries(m)) \in Nat
    BY <1>4, FS_CardinalityType
  <2>2. y \in Entries(m) <=> mshr_probe(m, y)
    BY <1>2, <1>13 DEF Entries, mshr_probe
  <2> QED BY <1>4, <1>7, <1>15, <2>1, <2>2, L2Assumption
<1>17. ASSUME NEW x \in SectorAddr PROVE Len(l2_mshrs'[x]) <= l2_m_mshr_max_merge
  <2>1. CASE x # y
    BY <1>4, <1>11, <2>1
  <2>2. CASE x = y /\ mshr_probe(m, y)
    BY <1>7, <1>10, <1>11, <2>2, L2Assumption
  <2>3. CASE x = y /\ ~mshr_probe(m, y)
    <3>1. Len(m[y]) = 0
      BY <2>3 DEF mshr_probe
    <3> QED BY <1>10, <1>11, <2>3, <3>1, L2Assumption
  <2> QED BY <2>1, <2>2, <2>3
<1>18. MshrBounded'
  <2>1. Entries(l2_mshrs)' = Entries(l2_mshrs')
    BY DEF Entries
  <2> QED BY <1>16, <1>17, <2>1 DEF MshrBounded
<1> QED BY <1>11, <1>12, <1>15, <1>18

LEMMA CycleInv ==
    ASSUME IInv, NEW popped \in Arrivals, Cycle(popped)
    PROVE  IInv'
<1> DEFINE now == gpu_sim_cycles + 1
<1>0. /\ Typed /\ Apart /\ Replied /\ AnswersAhead /\ MshrCovered /\ MshrBounded
      /\ IsFiniteSet(Entries(l2_mshrs)) /\ now \in Nat
  BY DEF IInv, Typed
<1>1. Stays(now, popped) \/ Leaves(now, popped) \/ Joins(now, popped)
  BY <1>0, Outcomes DEF Cycle
<1>2. ASSUME NEW front, Moved(now, popped, front)
      PROVE  /\ Apart' /\ Replied' /\ AnswersAhead'
             /\ m_l1_to_l2' \in Seq(MemFetch) /\ l2_to_sm' \in SUBSET Answers
             /\ m_status' \in [MemFetch -> {INIT, L2_HIT, L2_MISS}]
             /\ gpu_sim_cycles' \in Nat /\ unsent' \in SUBSET MemFetch
  <2>1. Apart' /\ Replied' /\ AnswersAhead'
    BY <1>0, <1>2, ApartStep, RepliedStep, AheadStep
  <2>2. l2_to_sm' \in SUBSET Answers
    BY <1>0, <1>2, MovedAnswers
  <2>3. gpu_sim_cycles' \in Nat /\ unsent' \in SUBSET MemFetch
    BY <1>0 DEF Cycle, Typed
  <2> QED BY <1>2, <2>1, <2>2, <2>3 DEF Moved
<1>3. ASSUME NEW front, Moved(now, popped, front), l2_mshrs' = MshrsAfterReturn(now)
      PROVE  IInv'
  <2>1. l2_mshrs' \in [SectorAddr -> Seq(MemFetch)]
    BY <1>0, <1>3, ReturnFacts
  <2>2. MshrCovered'
    <3>1. ASSUME NEW x \in SectorAddr, NEW i \in DOMAIN l2_mshrs'[x]
          PROVE  /\ m_sector_address(l2_mshrs'[x][i]) = x
                 /\ m_status'[l2_mshrs'[x][i]] = L2_MISS
                 /\ ~is_write[l2_mshrs'[x][i]]
                 /\ \E e \in l2_to_sm' : e.mf = l2_mshrs'[x][i]
      BY <1>0, <1>3, <3>1, KeptEntries
    <3> QED BY <3>1 DEF MshrCovered
  <2>3. /\ IsFiniteSet(Entries(l2_mshrs')) /\ Cardinality(Entries(l2_mshrs')) <= l2_m_mshr_entries
        /\ \A x \in SectorAddr : Len(l2_mshrs'[x]) <= l2_m_mshr_max_merge
    BY <1>0, <1>3, KeptBounded
  <2>4. Entries(l2_mshrs)' = Entries(l2_mshrs')
    BY DEF Entries
  <2>5. MshrBounded' /\ IsFiniteSet(Entries(l2_mshrs))'
    BY <2>3, <2>4 DEF MshrBounded
  <2>6. Typed'
    BY <1>2, <1>3, <2>1 DEF Typed
  <2> QED BY <1>2, <1>3, <2>2, <2>5, <2>6 DEF IInv
<1>4. CASE Stays(now, popped)
  BY <1>0, <1>3, <1>4, MovedStays DEF Stays
<1>5. CASE Leaves(now, popped)
  <2>1. PICK status \in {L2_HIT, L2_MISS}, latency \in Nat \ {0} :
            Answer(now, popped, status, latency)
    BY <1>5 DEF Leaves
  <2>2. Queue(popped) # <<>> /\ l2_mshrs' = MshrsAfterReturn(now)
    BY <1>5 DEF Leaves
  <2>3. Moved(now, popped, {FrontRequest(popped)})
    BY <1>0, <2>1, <2>2, MovedAnswer
  <2> QED BY <1>3, <2>2, <2>3
<1>6. CASE Joins(now, popped)
  <2>1. PICK latency \in Nat \ {0} : Answer(now, popped, L2_MISS, latency)
    BY <1>6 DEF Joins
  <2>2. Queue(popped) # <<>>
    BY <1>6 DEF Joins
  <2>3. /\ Moved(now, popped, {FrontRequest(popped)})
        /\ m_status'[FrontRequest(popped)] = L2_MISS
    BY <1>0, <2>1, <2>2, MovedAnswer
  <2>4. /\ l2_mshrs' \in [SectorAddr -> Seq(MemFetch)]
        /\ MshrCovered' /\ MshrBounded' /\ IsFiniteSet(Entries(l2_mshrs'))
    BY <1>6, <2>3, JoinStep
  <2>5. Entries(l2_mshrs)' = Entries(l2_mshrs')
    BY DEF Entries
  <2>6. Typed'
    BY <1>2, <2>3, <2>4 DEF Typed
  <2> QED BY <1>2, <2>3, <2>4, <2>5, <2>6 DEF IInv
<1> QED BY <1>1, <1>4, <1>5, <1>6

LEMMA StepInv == IInv /\ [Next]_vars => IInv'
<1> SUFFICES ASSUME IInv, [Next]_vars PROVE IInv'
  OBVIOUS
<1>1. CASE Next
  BY <1>1, CycleInv DEF Next
<1>2. CASE UNCHANGED vars
  BY <1>2 DEF vars, l2Vars, IInv, Typed, Apart, Replied, AnswersAhead, MshrCovered,
              MshrBounded, Entries, Waiting, Coming, Within, Distinct
<1> QED BY <1>1, <1>2

LEMMA InvAlways == Spec => []IInv
<1> QED BY InitInv, StepInv, PTL DEF Spec

-----------------------------------------------------------------------------
(* The theorems.                                                           *)

\* Whatever the requests, the configuration and the latencies: a request in
\* an MSHR entry is a load that missed whose answer is still on the way, so
\* no entry outlives its requests.
THEOREM EntriesCovered == Spec => []MshrCovered
<1>1. IInv => MshrCovered
  BY DEF IInv
<1> QED BY <1>1, InvAlways, PTL

\* The limits of the MSHR table hold for every table size: a full entry or
\* a full table never takes another load.
THEOREM TableBounded == Spec => []MshrBounded
<1>1. IInv => MshrBounded
  BY DEF IInv
<1> QED BY <1>1, InvAlways, PTL

\* No answer stays behind its countdown, and no two lookups share a cycle.
THEOREM CountdownAhead == Spec => []AnswersAhead
<1>1. IInv => AnswersAhead
  BY DEF IInv
<1> QED BY <1>1, InvAlways, PTL

\* How often a request is in a queue without repetitions.
LEMMA CountValue ==
    ASSUME NEW mf, Distinct(m_l1_to_l2)
    PROVE  Count(m_l1_to_l2, mf) = IF mf \in Waiting THEN 1 ELSE 0
<1> DEFINE I == {i \in DOMAIN m_l1_to_l2 : m_l1_to_l2[i] = mf}
<1>1. CASE mf \in Waiting
  <2>1. PICK i \in I : TRUE
    BY <1>1 DEF Waiting, Within
  <2>2. I = {i}
    BY <2>1 DEF Distinct
  <2>3. Cardinality(I) = 1
    <3> HIDE DEF I
    <3> QED BY <2>2, FS_Singleton
  <2> QED BY <1>1, <2>3 DEF Count
<1>2. CASE mf \notin Waiting
  <2>1. I = {}
    BY <1>2 DEF Waiting, Within
  <2>2. Cardinality(I) = 0
    <3> HIDE DEF I
    <3> QED BY <2>1, FS_EmptySet
  <2> QED BY <1>2, <2>2 DEF Count
<1> QED BY <1>1, <1>2

LEMMA OnePlaceOnce == IInv => ExactlyOnce
<1> SUFFICES ASSUME IInv, NEW mf \in MemFetch
             PROVE  Cardinality({mf} \cap unsent) + Count(m_l1_to_l2, mf)
                      + Cardinality({e \in l2_to_sm : e.mf = mf}) + replied[mf] = 1
  BY DEF ExactlyOnce
<1>1. Apart /\ Replied
  BY DEF IInv
<1>2. Cardinality({mf} \cap unsent) = IF mf \in unsent THEN 1 ELSE 0
  <2>1. {mf} \cap unsent = IF mf \in unsent THEN {mf} ELSE {}
    OBVIOUS
  <2> QED BY <2>1, FS_Singleton, FS_EmptySet
<1>3. Count(m_l1_to_l2, mf) = IF mf \in Waiting THEN 1 ELSE 0
  BY <1>1, CountValue DEF Apart
<1>4. Cardinality({e \in l2_to_sm : e.mf = mf}) = IF mf \in Coming THEN 1 ELSE 0
  <2> DEFINE E == {e \in l2_to_sm : e.mf = mf}
  <2>1. CASE mf \in Coming
    <3>1. PICK e \in E : TRUE
      BY <2>1 DEF Coming
    <3>2. E = {e}
      BY <1>1, <3>1 DEF Apart
    <3> HIDE DEF E
    <3> QED BY <2>1, <3>2, FS_Singleton DEF E
  <2>2. CASE mf \notin Coming
    <3>1. E = {}
      BY <2>2 DEF Coming
    <3> HIDE DEF E
    <3> QED BY <2>2, <3>1, FS_EmptySet DEF E
  <2> QED BY <2>1, <2>2
<1>5. replied[mf] = IF mf \in unsent \/ mf \in Waiting \/ mf \in Coming THEN 0 ELSE 1
  BY <1>1 DEF Replied
<1> QED BY <1>1, <1>2, <1>3, <1>4, <1>5 DEF Apart

\* Every request is answered at most once, and is at exactly one place until
\* then: nothing is lost between the crossbar, the queue and the answers,
\* whatever the lookups find and however often they fail.
THEOREM AnsweredOnce == Spec => []ExactlyOnce
<1> QED BY InvAlways, OnePlaceOnce, PTL
-----------------------------------------------------------------------------
(* The tags.  They are kept apart from the invariant above, which does not *)
(* need them: what they need of it is where the requests are.              *)

Cleaned ==
    /\ CleanTags(l2_config, l2_tags)
    /\ IsFiniteSet(l2_to_sm)

\* A request is for a line and a sector that the slice has.
LEMMA RequestPlace ==
    ASSUME NEW mf \in MemFetch
    PROVE  /\ m_address[mf] \in DOMAIN l2_config.set_index /\ m_address[mf] # NoTag
           /\ m_sector_mask[mf] \in l2_config.sectors
<1>1. m_address[mf] \in LineAddr /\ m_sector_mask[mf] \in Sector
  BY RequestsAssumption
<1> QED BY <1>1, RequestsAssumption, L2ConfigAssumption DEF NoTag

\* The fills of a cycle, one for every answer that releases an entry: the
\* recursion of the fold has a solution, since a fill keeps the tags clean.
LEMMA ReturnFold ==
    ASSUME Typed, Cleaned, NEW now \in Nat
    PROVE  /\ IsFiniteSet(Releasing(now))
           /\ \A e \in Releasing(now) : e.mf \in MemFetch
           /\ \E g : /\ TagsAfterReturn(now) = g[Releasing(now)]
                     /\ g[{}] = l2_tags
                     /\ \A s \in SUBSET Releasing(now) : s # {} => \E e \in s :
                           g[s] = tag_array_fill(l2_config, g[s \ {e}], m_address[e.mf],
                                                 m_sector_mask[e.mf], now)
<1> DEFINE S == Releasing(now)
           V == {t \in [Sets(l2_config) -> [Ways(l2_config) -> CleanLine(l2_config)]] :
                    CleanTags(l2_config, t)}
           FillFor(e, t) == tag_array_fill(l2_config, t, m_address[e.mf],
                                           m_sector_mask[e.mf], now)
           Last(s) == CHOOSE e \in s : \A f \in s : f.at <= e.at
           Fills(g) == g = [s \in SUBSET S |->
                              IF s = {} THEN l2_tags ELSE FillFor(Last(s), g[s \ {Last(s)}])]
           iter == CHOOSE g : Fills(g)
<1>1. TagsAfterReturn(now) = iter[S]
  BY DEF TagsAfterReturn, MapThenFoldSet
<1>2. S \subseteq l2_to_sm /\ IsFiniteSet(S)
  <2>1. S \subseteq l2_to_sm
    BY DEF Releasing, Returned
  <2> HIDE DEF S
  <2> QED BY <2>1, FS_Subset DEF Cleaned
<1>3. \A e \in S : e.mf \in MemFetch /\ e.at \in Nat
  <2>1. l2_to_sm \in SUBSET Answers
    BY DEF Typed
  <2> HIDE DEF S
  <2> QED BY <1>2, <2>1 DEF Answers
<1>4. \A t : t \in V <=> CleanTags(l2_config, t)
  BY DEF CleanTags
<1>5. ASSUME NEW e \in S, NEW t \in V PROVE FillFor(e, t) \in V
  <2>1. e.mf \in MemFetch /\ CleanTags(l2_config, t)
    BY <1>3, <1>4, <1>5
  <2>2. CleanTags(l2_config, FillFor(e, t))
    BY <2>1, RequestPlace, FillClean
  <2> HIDE DEF FillFor, V
  <2> QED BY <1>4, <2>2
<1>6. l2_tags \in V
  <2> HIDE DEF V
  <2> QED BY <1>4 DEF Cleaned
<1> HIDE DEF S, V, FillFor
<1>7. ASSUME NEW s \in SUBSET S, s # {} PROVE Last(s) \in s
  <2> DEFINE at == [e \in s |-> e.at]
  <2>1. IsFiniteSet(s)
    BY <1>2, FS_Subset
  <2>2. \A e \in s : at[e] \in Int
    BY <1>3
  <2>3. \E e \in s : \A f \in s : at[f] <= at[e]
    <3> HIDE DEF at
    <3> QED BY <1>7, <2>1, <2>2, Greatest
  <2>4. \E e \in s : \A f \in s : f.at <= e.at
    BY <2>3
  <2> QED BY <2>4
<1> HIDE DEF Last
<1>8. \E g : Fills(g)
  <2> DEFINE pick == [s \in SUBSET S |-> Last(s)]
             op   == [e \in S |-> [t \in V |-> FillFor(e, t)]]
  <2>1. Picks(pick, S)
    BY <1>7 DEF Picks
  <2>2. Keeps(op, S, V)
    BY <1>5 DEF Keeps
  <2>3. \E g \in [SUBSET S -> V] : Folds(g, S, l2_tags, pick, op)
    <3> HIDE DEF pick, op, Fills, iter
    <3> QED BY <1>2, <1>6, <2>1, <2>2, FoldExists
  <2>4. PICK g \in [SUBSET S -> V] :
           /\ g[{}] = l2_tags
           /\ \A s \in SUBSET S : s # {} => g[s] = op[pick[s]][g[s \ {pick[s]}]]
    BY <2>3 DEF Folds
  <2>5. ASSUME NEW s \in SUBSET S
        PROVE  g[s] = IF s = {} THEN l2_tags ELSE FillFor(Last(s), g[s \ {Last(s)}])
    <3>1. CASE s = {}
      BY <2>4, <3>1
    <3>2. CASE s # {}
      <4>1. pick[s] = Last(s) /\ Last(s) \in S /\ g[s \ {Last(s)}] \in V
        BY <1>7, <2>4, <3>2
      <4>2. op[Last(s)][g[s \ {Last(s)}]] = FillFor(Last(s), g[s \ {Last(s)}])
        BY <4>1
      <4> HIDE DEF pick, op
      <4> QED BY <2>4, <3>2, <4>1, <4>2
    <3> QED BY <3>1, <3>2
  <2>6. Fills(g)
    BY <2>4, <2>5
  <2> QED BY <2>6
<1>9. Fills(iter)
  <2> HIDE DEF Fills
  <2> QED BY <1>8
<1>10. \A s \in SUBSET S : iter[s] = IF s = {} THEN l2_tags
                                     ELSE FillFor(Last(s), iter[s \ {Last(s)}])
  <2> HIDE DEF iter
  <2> QED BY <1>9
<1> HIDE DEF iter
<1>11. iter[{}] = l2_tags
  BY <1>10
<1>12. \A s \in SUBSET S : s # {} => Last(s) \in s /\ iter[s] = FillFor(Last(s), iter[s \ {Last(s)}])
  BY <1>7, <1>10
<1>13. \A s \in SUBSET S : s # {} => \E e \in s : iter[s] = FillFor(e, iter[s \ {e}])
  BY <1>12
<1> QED BY <1>1, <1>2, <1>3, <1>11, <1>13 DEF S, FillFor

\* Every fill leaves the tags clean, so all of them do.
LEMMA ReturnClean ==
    ASSUME Typed, Cleaned, NEW now \in Nat
    PROVE  CleanTags(l2_config, TagsAfterReturn(now))
<1> DEFINE S == Releasing(now)
           V == {t \in [Sets(l2_config) -> [Ways(l2_config) -> CleanLine(l2_config)]] :
                    CleanTags(l2_config, t)}
           W == [s \in SUBSET S |-> V]
<1>1. IsFiniteSet(S) /\ \A e \in S : e.mf \in MemFetch
  BY ReturnFold
<1>2. PICK g : /\ TagsAfterReturn(now) = g[S]
               /\ g[{}] = l2_tags
               /\ \A s \in SUBSET S : s # {} => \E e \in s :
                     g[s] = tag_array_fill(l2_config, g[s \ {e}], m_address[e.mf],
                                           m_sector_mask[e.mf], now)
  BY ReturnFold
<1>3. \A t : t \in V <=> CleanTags(l2_config, t)
  BY DEF CleanTags
<1> HIDE DEF S, V
<1>4. g[{}] \in W[{}]
  BY <1>2, <1>3 DEF Cleaned
<1>5. ASSUME NEW s \in SUBSET S, s # {}
      PROVE  \E e \in s : g[s \ {e}] \in W[s \ {e}] => g[s] \in W[s]
  <2>1. PICK e \in s : g[s] = tag_array_fill(l2_config, g[s \ {e}], m_address[e.mf],
                                             m_sector_mask[e.mf], now)
    BY <1>2, <1>5
  <2>2. ASSUME CleanTags(l2_config, g[s \ {e}]) PROVE CleanTags(l2_config, g[s])
    BY <1>1, <2>1, <2>2, RequestPlace, FillClean
  <2>3. W[s \ {e}] = V /\ W[s] = V
    OBVIOUS
  <2> HIDE DEF W
  <2> QED BY <1>3, <2>2, <2>3
<1>6. \A s \in SUBSET S : g[s] \in W[s]
  <2> HIDE DEF W
  <2> QED BY <1>1, <1>4, <1>5, FoldKeeps
<1>7. g[S] \in V
  BY <1>6
<1> QED BY <1>2, <1>3, <1>7

\* The line a store allocates: of its own when the line was absent, and a
\* way that keeps its tag when only the sector was.
LEMMA StoredClean ==
    ASSUME Typed, Cleaned, NEW now \in Nat, NEW mf \in MemFetch, NEW w
    PROVE  CleanTags(l2_config, WithLine(l2_config, TagsAfterReturn(now), m_address[mf], w,
                                         StoredLine(now, mf, w)))
<1> DEFINE c == l2_config
           t == TagsAfterReturn(now)
           a == m_address[mf]
           x == m_sector_mask[mf]
           l == Line(c, t, a, w)
           p == tag_array_probe(c, t, a, x).status
           b == CASE p = MISS        -> allocate_line(l, a, now, x)
                  [] p = SECTOR_MISS -> allocate_sector(l, now, x)
                  [] OTHER           -> l
           m == set_last_access_time(set_status(b, MODIFIED, x), now)
<1>1. StoredLine(now, mf, w) = m
  BY Zenon DEF StoredLine, Probe
<1>2. /\ a \in DOMAIN c.set_index /\ a # NoTag /\ x \in c.sectors
      /\ CleanTags(c, t)
  BY RequestPlace, ReturnClean
<1>3. p = MISS => \A v \in Ways(c) : Line(c, t, a, v).m_tag # a
  <2> HIDE DEF c, t, a, x
  <2> QED BY <1>2, MissNoMatch
<1>4. \/ p = MISS /\ b = allocate_line(l, a, now, x)
      \/ b = allocate_sector(l, now, x)
      \/ b = l
  <2>1. MISS # SECTOR_MISS
    BY DEF MISS, SECTOR_MISS
  <2> HIDE DEF p, l
  <2> QED BY <2>1
<1> HIDE DEF p, b, c, t, a, x
<1>5. ASSUME w \in Ways(c)
      PROVE  /\ m \in CleanLine(c) /\ HoldsSomething(m)
             /\ \/ m.m_tag = l.m_tag
                \/ \A v \in Ways(c) : Line(c, t, a, v).m_tag # m.m_tag
  <2>1. l \in CleanLine(c)
    BY <1>2, <1>5, CleanWay
  <2> HIDE DEF l
  <2>2. /\ l.m_tag \in DOMAIN c.set_index \cup {NoTag}
        /\ l.m_status \in [c.sectors -> {INVALID, VALID, MODIFIED}]
        /\ l.last_access \in Nat /\ l.alloc_time \in Nat
        /\ l = [m_tag |-> l.m_tag, m_status |-> l.m_status,
                last_access |-> l.last_access, alloc_time |-> l.alloc_time]
    BY <2>1 DEF CleanLine
  <2>3. CASE p = MISS /\ b = allocate_line(l, a, now, x)
    <3> DEFINE f == [y \in c.sectors |-> IF y = x THEN MODIFIED ELSE INVALID]
    <3>1. m = [m_tag |-> a, m_status |-> f, last_access |-> now, alloc_time |-> now]
      <4>1. set_status(b, MODIFIED, x)
               = [m_tag |-> a, m_status |-> f, last_access |-> now, alloc_time |-> now]
        BY <2>2, <2>3 DEF set_status, allocate_line
      <4> HIDE DEF f
      <4> QED BY <4>1 DEF set_last_access_time
    <3>2. f \in [c.sectors -> {INVALID, VALID, MODIFIED}] /\ f[x] # INVALID /\ DOMAIN f = c.sectors
      BY <1>2 DEF INVALID, MODIFIED
    <3> HIDE DEF f, m
    <3>3. m \in CleanLine(c)
      BY <1>2, <3>1, <3>2 DEF CleanLine
    <3>4. HoldsSomething(m)
      BY <1>2, <3>1, <3>2 DEF HoldsSomething, is_invalid_line
    <3> QED BY <1>3, <2>3, <3>1, <3>3, <3>4
  <2>4. CASE b = allocate_sector(l, now, x) \/ b = l
    <3> DEFINE f == [l.m_status EXCEPT ![x] = MODIFIED]
    <3>1. \E s, k : /\ b = [m_tag |-> l.m_tag, m_status |-> s, last_access |-> k,
                            alloc_time |-> l.alloc_time]
                   /\ [s EXCEPT ![x] = MODIFIED] = f
      <4>1. CASE b = l
        BY <2>2, <4>1
      <4>2. CASE b = allocate_sector(l, now, x)
        <5> DEFINE s == [l.m_status EXCEPT ![x] = RESERVED]
        <5>1. b = [m_tag |-> l.m_tag, m_status |-> s, last_access |-> now,
                   alloc_time |-> l.alloc_time]
          BY <2>2, <4>2 DEF allocate_sector
        <5>2. [s EXCEPT ![x] = MODIFIED] = f
          BY <2>2
        <5> HIDE DEF s, f
        <5> QED BY <5>1, <5>2
      <4> QED BY <2>4, <4>1, <4>2
    <3> HIDE DEF f
    <3>2. m = [m_tag |-> l.m_tag, m_status |-> f, last_access |-> now, alloc_time |-> l.alloc_time]
      <4>1. PICK s, k : /\ b = [m_tag |-> l.m_tag, m_status |-> s, last_access |-> k,
                                alloc_time |-> l.alloc_time]
                        /\ [s EXCEPT ![x] = MODIFIED] = f
        BY <3>1
      <4>2. set_status(b, MODIFIED, x)
               = [m_tag |-> l.m_tag, m_status |-> f, last_access |-> k, alloc_time |-> l.alloc_time]
        BY <4>1 DEF set_status
      <4> QED BY <4>2 DEF set_last_access_time
    <3>3. f \in [c.sectors -> {INVALID, VALID, MODIFIED}] /\ f[x] # INVALID /\ DOMAIN f = c.sectors
      BY <1>2, <2>2 DEF INVALID, MODIFIED, f
    <3> HIDE DEF m
    <3>4. m \in CleanLine(c)
      BY <2>2, <3>2, <3>3 DEF CleanLine
    <3>5. HoldsSomething(m)
      BY <1>2, <3>2, <3>3 DEF HoldsSomething, is_invalid_line
    <3> QED BY <3>2, <3>4, <3>5
  <2> QED BY <1>4, <2>3, <2>4 DEF l
<1> HIDE DEF m, l
<1>6. CleanTags(c, WithLine(c, t, a, w, m))
  <2>1. w \in Ways(c) => /\ m \in CleanLine(c) /\ HoldsSomething(m)
                         /\ \/ m.m_tag = Line(c, t, a, w).m_tag
                            \/ \A v \in Ways(c) : Line(c, t, a, v).m_tag # m.m_tag
    BY <1>5 DEF l
  <2> QED BY <1>2, <2>1, WithLineClean
<1> QED BY <1>1, <1>6 DEF c, t, a

LEMMA InitCleaned == Init => Cleaned
BY NewClean, FS_EmptySet DEF Init, InitL2, Cleaned

\* Whatever a lookup does to the tags, they stay clean.
LEMMA CleanedStep ==
    ASSUME IInv, Cleaned, NEW popped \in Arrivals, Cycle(popped)
    PROVE  Cleaned'
<1> DEFINE now == gpu_sim_cycles + 1
           mf  == FrontRequest(popped)
           t   == TagsAfterReturn(now)
<1>0. /\ Typed /\ Apart /\ AnswersAhead /\ now \in Nat
      /\ l2_cache_cycle(now, popped)
  BY DEF IInv, Typed, Cycle
<1>1. CleanTags(l2_config, t)
  BY <1>0, ReturnClean
<1>2. ASSUME Queue(popped) # <<>>
      PROVE  /\ mf \in MemFetch
             /\ m_address[mf] \in DOMAIN l2_config.set_index
             /\ m_sector_mask[mf] \in l2_config.sectors
             /\ CleanTags(l2_config, Touched(now, mf))
  <2>1. mf \in MemFetch
    BY <1>0, <1>2, FrontFacts
  <2>2. /\ m_address[mf] \in DOMAIN l2_config.set_index
        /\ m_sector_mask[mf] \in l2_config.sectors
    BY <2>1, RequestPlace
  <2>3. CleanTags(l2_config, Touched(now, mf))
    <3> HIDE DEF now, mf, t
    <3> QED BY <1>0, <1>1, <2>2, AccessClean DEF Touched, t
  <2> QED BY <2>1, <2>2, <2>3
<1>3. CleanTags(l2_config, l2_tags')
  <2>1. CASE Queue(popped) = <<>>
    <3>1. NoLookup(now)
      BY <1>0, <2>1 DEF l2_cache_cycle
    <3> QED BY <1>1, <3>1 DEF NoLookup
  <2>2. CASE Queue(popped) # <<>>
    <3>0. Lookup(now, popped)
      BY <1>0, <2>2 DEF l2_cache_cycle
    <3>1. CASE StoreHit(now, popped)
      <4> DEFINE i == Probe(now, mf).idx
      <4>1. l2_tags' = WithLine(l2_config, Touched(now, mf), m_address[mf], i,
                           set_status(Line(l2_config, Touched(now, mf), m_address[mf], i),
                                      MODIFIED, m_sector_mask[mf]))
        BY <3>1 DEF StoreHit
      <4> HIDE DEF i, mf, now, t
      <4> QED BY <1>2, <2>2, <4>1, MarkClean
    <3>2. CASE StoreIdle(now, popped)
      <4> DEFINE i == Min(Idle(now, mf))
      <4>1. l2_tags' = WithLine(l2_config, t, m_address[mf], i, StoredLine(now, mf, i))
        BY <3>2 DEF StoreIdle
      <4> HIDE DEF i, mf, now
      <4> QED BY <1>0, <1>2, <2>2, <4>1, StoredClean
    <3>3. CASE StoreMiss(now, popped)
      BY <1>1, <3>3 DEF StoreMiss
    <3>4. CASE LoadHit(now, popped)
      BY <1>2, <2>2, <3>4 DEF LoadHit
    <3>5. CASE LoadMiss(now, popped)
      BY <1>2, <2>2, <3>5 DEF LoadMiss
    <3>6. CASE LookupFails(now, popped)
      BY <1>1, <3>6 DEF LookupFails
    <3> QED BY <3>0, <3>1, <3>2, <3>3, <3>4, <3>5, <3>6 DEF Lookup
  <2> QED BY <2>1, <2>2
<1>4. IsFiniteSet(l2_to_sm')
  <2>1. IsFiniteSet(l2_to_sm \ Returned(now))
    BY FS_Difference DEF Cleaned
  <2>2. ASSUME NEW e PROVE IsFiniteSet((l2_to_sm \ Returned(now)) \cup {e})
    BY <2>1, FS_AddElement
  <2>3. CASE Stays(now, popped)
    BY <2>1, <2>3 DEF Stays
  <2>4. CASE Leaves(now, popped)
    BY <2>2, <2>4 DEF Leaves, Answer
  <2>5. CASE Joins(now, popped)
    BY <2>2, <2>5 DEF Joins, Answer
  <2> QED BY <1>0, <2>3, <2>4, <2>5, Outcomes
<1> QED BY <1>3, <1>4 DEF Cleaned

\* What is left of the types: the writes to DRAM, the TLB hits, the history.
Rest ==
    /\ l2_to_dram \in SUBSET DramWrites
    /\ m_tlb_hit  \in [MemFetch -> BOOLEAN]
    /\ replied    \in [MemFetch -> Nat]

LEMMA InitRest == Init => Rest
BY OutcomesAssumption DEF Init, InitL2, Rest

LEMMA RestStep ==
    ASSUME IInv, IInv', Rest, NEW popped \in Arrivals, Cycle(popped)
    PROVE  Rest'
<1> DEFINE now == gpu_sim_cycles + 1
<1>0. /\ Typed /\ Apart /\ now \in Nat /\ l2_cache_cycle(now, popped)
  BY DEF IInv, Typed, Cycle
<1>1. m_tlb_hit' \in [MemFetch -> BOOLEAN]
  BY DEF Cycle, Rest
<1>2. replied' \in [MemFetch -> Nat]
  <2>1. \A mf \in MemFetch : replied'[mf] \in Nat
    BY DEF IInv, Replied
  <2>2. replied' = [mf \in MemFetch |-> replied'[mf]]
    BY DEF Cycle
  <2> QED BY <2>1, <2>2
<1>3. l2_to_dram' \in SUBSET DramWrites
  <2>0. CountedDown(l2_to_dram) \in SUBSET DramWrites
    BY DEF Rest, CountedDown, DramWrites
  <2>1. CASE l2_to_dram' = CountedDown(l2_to_dram)
    BY <2>0, <2>1
  <2>2. CASE Queue(popped) # <<>> /\ StoreIdle(now, popped)
    <3>1. FrontRequest(popped) \in MemFetch
      BY <1>0, <2>2, FrontFacts
    <3>2. DramWrite(now, FrontRequest(popped)) \in DramWrites
      BY <1>0, <3>1, L2Assumption DEF DramWrite, DramWrites
    <3> QED BY <2>0, <2>2, <3>2 DEF StoreIdle, Written
  <2> QED BY <1>0, <2>1, <2>2 DEF l2_cache_cycle, NoLookup, Lookup, StoreHit, StoreMiss,
                                  LoadHit, LoadMiss, LookupFails
<1> QED BY <1>1, <1>2, <1>3 DEF Rest

LEMMA CleanedAlways == Spec => [](Cleaned /\ Rest)
<1>1. Init => IInv /\ Cleaned /\ Rest
  BY InitInv, InitCleaned, InitRest
<1>2. IInv /\ Cleaned /\ Rest /\ [Next]_vars => (IInv /\ Cleaned /\ Rest)'
  <2> SUFFICES ASSUME IInv, Cleaned, Rest, [Next]_vars PROVE IInv' /\ Cleaned' /\ Rest'
    OBVIOUS
  <2>1. IInv'
    BY StepInv
  <2>2. CASE Next
    BY <2>1, <2>2, CleanedStep, RestStep DEF Next
  <2>3. CASE UNCHANGED vars
    BY <2>1, <2>3 DEF vars, l2Vars, Cleaned, Rest
  <2> QED BY <2>1, <2>2, <2>3
<1> QED BY <1>1, <1>2, PTL DEF Spec

\* No line is in a set of the slice twice and no sector is left RESERVED,
\* for every number of sets, ways and sectors: a store that takes an idle
\* way and a fill that comes after it never make a second copy.
THEOREM LinesUnique == Spec => []UniqueLine
<1>1. Cleaned => UniqueLine
  <2> SUFFICES ASSUME Cleaned PROVE UniqueLine
    OBVIOUS
  <2>1. CleanTags(l2_config, l2_tags)
    BY DEF Cleaned
  <2>2. /\ DOMAIN l2_tags = Sets(l2_config)
        /\ \A s \in Sets(l2_config) : DOMAIN l2_tags[s] = Ways(l2_config)
        /\ \A s \in Sets(l2_config), w \in Ways(l2_config) : l2_tags[s][w] \in CleanLine(l2_config)
    BY <2>1 DEF CleanTags
  <2>3. ASSUME NEW s \in Sets(l2_config), NEW w \in Ways(l2_config)
        PROVE  ~is_reserved_line(l2_tags[s][w])
    <3>1. l2_tags[s][w].m_status \in [l2_config.sectors -> {INVALID, VALID, MODIFIED}]
      BY <2>2 DEF CleanLine
    <3> QED BY <3>1 DEF is_reserved_line, INVALID, VALID, MODIFIED, RESERVED
  <2> QED BY <2>1, <2>2, <2>3 DEF UniqueLine, CleanTags
<1> QED BY <1>1, CleanedAlways, PTL

\* Type correctness of the slice and its environment.
THEOREM TypeCorrect == Spec => []TypeOK
<1>1. IInv /\ Cleaned /\ Rest => TypeOK
  <2> SUFFICES ASSUME IInv, Cleaned, Rest PROVE TypeOK
    OBVIOUS
  <2>1. TagArrayOK(l2_config, l2_tags)
    <3>1. CleanTags(l2_config, l2_tags)
      BY DEF Cleaned
    <3>2. \A l \in CleanLine(l2_config) :
             /\ l.m_tag \in DOMAIN l2_config.set_index \cup {NoTag}
             /\ l.m_status \in [l2_config.sectors -> BlockStates]
             /\ l.last_access \in Nat /\ l.alloc_time \in Nat
      BY DEF CleanLine, BlockStates
    <3> QED BY <3>1, <3>2 DEF TagArrayOK, CleanTags
  <2> QED BY <2>1 DEF IInv, Typed, Rest, TypeOK, L2TypeOK
<1> QED BY <1>1, InvAlways, CleanedAlways, PTL

-----------------------------------------------------------------------------
(* Fills stay.  While the answers of a cycle are filled in one by one, a   *)
(* line as young as the cycle is one of those that are filled in its set,  *)
(* and any other is still what it was before.  So as long as they have     *)
(* room, a fill that evicts a line finds an older one.                     *)

Aged == AgedTags(l2_config, l2_tags, gpu_sim_cycles)

Room(e, now) == Cardinality(FilledLines(m_address[e.mf], now)) <= l2_config.m_assoc

\* A way that holds the sector and is as young as the cycle.
Settled(t, a, x, now) ==
    \E w \in Ways(l2_config) :
        LET l == Line(l2_config, t, a, w) IN
        l.m_tag = a /\ l.m_status[x] # INVALID /\ Age(l2_config, l) = now

\* A line nobody has touched in this cycle.
Untouched(l, old) ==
    /\ l.m_tag = old.m_tag
    /\ l2_config.m_replacement_policy = "LRU" =>
          \A y \in l2_config.sectors : l.m_status[y] # INVALID => old.m_status[y] # INVALID

\* The tags t after the fills of the answers in s.
Filling(s, t, now) ==
    /\ CleanTags(l2_config, t) /\ AgedTags(l2_config, t, now)
    /\ \A a \in DOMAIN l2_config.set_index, w \in Ways(l2_config) :
          LET l == Line(l2_config, t, a, w) IN
          IF Age(l2_config, l) = now THEN l.m_tag \in FilledLines(a, now)
                                     ELSE Untouched(l, Line(l2_config, l2_tags, a, w))
    /\ \A e \in s : Room(e, now) /\ Absent(m_address[e.mf], m_sector_mask[e.mf])
                    => Settled(t, m_address[e.mf], m_sector_mask[e.mf], now)

LEMMA FilledFinite ==
    ASSUME NEW now, IsFiniteSet(Releasing(now)), NEW a
    PROVE  IsFiniteSet(FilledLines(a, now))
<1> DEFINE S == {f \in Releasing(now) :
                    l2_config.set_index[m_address[f.mf]] = l2_config.set_index[a]}
           g == [e \in S |-> m_address[e.mf]]
<1>1. IsFiniteSet(S)
  <2>1. S \in SUBSET Releasing(now)
    OBVIOUS
  <2> HIDE DEF S
  <2> QED BY <2>1, FS_Subset
<1>2. FilledLines(a, now) = {m_address[e.mf] : e \in S}
  BY DEF FilledLines
<1>3. g \in Surjection(S, FilledLines(a, now))
  <2> HIDE DEF S
  <2> QED BY <1>2 DEF Surjection
<1> HIDE DEF S, g
<1> QED BY <1>1, <1>3, FS_Surjection

\* The oldest way is older than the cycle, when a line that is not there is
\* to be filled and the lines filled in its set have room: they are at most
\* m_assoc, one of them is not there yet, and no way holds what another does.
LEMMA OlderWay ==
    ASSUME NEW now, IsFiniteSet(Releasing(now)), NEW s, NEW t, Filling(s, t, now),
           NEW a \in DOMAIN l2_config.set_index, a \in FilledLines(a, now),
           Cardinality(FilledLines(a, now)) <= l2_config.m_assoc,
           FilledLines(a, now) \subseteq LineAddr,
           \A v \in Ways(l2_config) : Line(l2_config, t, a, v).m_tag # a
    PROVE  \E v \in Ways(l2_config) : Age(l2_config, Line(l2_config, t, a, v)) # now
<1> SUFFICES ASSUME \A v \in Ways(l2_config) : Age(l2_config, Line(l2_config, t, a, v)) = now
             PROVE  FALSE
  OBVIOUS
<1> DEFINE F == FilledLines(a, now)
           W == Ways(l2_config)
           tag == [v \in W |-> Line(l2_config, t, a, v).m_tag]
<1>1. IsFiniteSet(F) /\ IsFiniteSet(F \ {a}) /\ Cardinality(F \ {a}) = Cardinality(F) - 1
      /\ Cardinality(F) \in Nat
  <2>1. IsFiniteSet(F)
    BY FilledFinite
  <2> HIDE DEF F
  <2> QED BY <2>1, FS_RemoveElement, FS_CardinalityType DEF F
<1>2. IsFiniteSet(W) /\ Cardinality(W) = l2_config.m_assoc
  <2> DEFINE n == l2_config.m_assoc - 1
  <2>1. 0 \in Int /\ n \in Int /\ (IF 0 > n THEN 0 ELSE n - 0 + 1) = l2_config.m_assoc
    BY L2ConfigAssumption
  <2> HIDE DEF n
  <2>2. IsFiniteSet(0 .. n) /\ Cardinality(0 .. n) = l2_config.m_assoc
    BY <2>1, FS_Interval
  <2> QED BY <2>2 DEF Ways, n
<1>3. tag \in [W -> F \ {a}]
  BY DEF Filling
<1>4. Cardinality(F \ {a}) < Cardinality(W)
  BY <1>1, <1>2, L2ConfigAssumption
<1>5. PICK v, w \in W : v # w /\ tag[v] = tag[w]
  <2> HIDE DEF F, W, tag
  <2> QED BY <1>1, <1>2, <1>3, <1>4, FS_PigeonHole
<1>6. Line(l2_config, t, a, v).m_tag = Line(l2_config, t, a, w).m_tag
  BY <1>5
<1>7. Line(l2_config, t, a, v).m_tag # NoTag
  <2>1. Line(l2_config, t, a, v).m_tag \in F
    BY <1>3, <1>5
  <2> QED BY <2>1, RequestsAssumption DEF NoTag
<1>8. CleanTags(l2_config, t)
  BY DEF Filling
<1>9. l2_config.set_index[a] \in Sets(l2_config)
  BY DEF Sets
<1> QED BY <1>5, <1>6, <1>7, <1>8, <1>9 DEF CleanTags, Line

\* One more fill.
LEMMA FillingStep ==
    ASSUME Typed, Cleaned, NEW now \in Nat, l2_config.m_assoc # 0,
           IsFiniteSet(Releasing(now)), \A e \in Releasing(now) : e.mf \in MemFetch,
           NEW s \in SUBSET Releasing(now), NEW e \in s, NEW t, Filling(s \ {e}, t, now)
    PROVE  Filling(s, tag_array_fill(l2_config, t, m_address[e.mf], m_sector_mask[e.mf], now), now)
<1> DEFINE c == l2_config
           a == m_address[e.mf]
           x == m_sector_mask[e.mf]
           u == tag_array_fill(c, t, a, x, now)
<1>1. /\ a \in DOMAIN c.set_index /\ a # NoTag /\ x \in c.sectors
      /\ c.m_assoc \in Nat \ {0}
  BY RequestPlace, L2ConfigAssumption
<1>2. /\ CleanTags(c, t) /\ AgedTags(c, t, now)
      /\ \A b \in DOMAIN c.set_index, w \in Ways(c) :
            /\ Age(c, Line(c, t, b, w)) = now => Line(c, t, b, w).m_tag \in FilledLines(b, now)
            /\ Age(c, Line(c, t, b, w)) # now => Untouched(Line(c, t, b, w), Line(c, l2_tags, b, w))
      /\ \A f \in s : f # e /\ Room(f, now) /\ Absent(m_address[f.mf], m_sector_mask[f.mf])
                      => Settled(t, m_address[f.mf], m_sector_mask[f.mf], now)
  BY DEF Filling
<1>3. CleanTags(c, u)
  BY <1>1, <1>2, FillClean
<1>4. PICK i \in Ways(c), m \in CleanLine(c) :
         LET l == Line(c, t, a, i) IN
         /\ u = WithLine(c, t, a, i, m)
         /\ m.m_tag = a /\ m.m_status[x] # INVALID
         /\ \/ /\ \A v \in Ways(c) : Line(c, t, a, v).m_tag # a
               /\ m.last_access = now /\ m.alloc_time = now
               /\ \/ is_invalid_line(l)
                  \/ \A v \in Ways(c) : Age(c, l) <= Age(c, Line(c, t, a, v))
            \/ /\ l.m_tag = a
               /\ m.alloc_time = l.alloc_time
               /\ \A y \in c.sectors : y # x => m.m_status[y] = l.m_status[y]
               /\ \/ m.last_access = now
                  \/ m.last_access = l.last_access /\ l.m_status[x] # INVALID
  BY <1>1, <1>2, FillEffect
<1> DEFINE l == Line(c, t, a, i)
<1>5. \A b \in DOMAIN c.set_index, w \in Ways(c) :
         Line(c, u, b, w) = IF c.set_index[b] = c.set_index[a] /\ w = i THEN m ELSE Line(c, t, b, w)
  BY <1>1, <1>2, <1>4, WithLineLine
<1>6. /\ a \in FilledLines(a, now) /\ FilledLines(a, now) \subseteq LineAddr
      /\ \A b : c.set_index[b] = c.set_index[a] => FilledLines(b, now) = FilledLines(a, now)
  BY RequestsAssumption DEF FilledLines
<1>7. /\ l \in CleanLine(c) /\ Age(c, l) \in Nat /\ Age(c, l) <= now
  <2>1. l \in CleanLine(c) /\ Age(c, l) <= now
    BY <1>1, <1>2, CleanWay DEF AgedTags
  <2> HIDE DEF l
  <2>2. Age(c, l) \in Nat
    BY <2>1 DEF Age, CleanLine
  <2> QED BY <2>1, <2>2
<1>8. \/ Age(c, m) = now
      \/ /\ Age(c, m) = Age(c, l) /\ l.m_tag = a
         /\ c.m_replacement_policy = "LRU" =>
               /\ l.m_status[x] # INVALID
               /\ \A y \in c.sectors : m.m_status[y] # INVALID => l.m_status[y] # INVALID
  <2> HIDE DEF c, a, x, u, l
  <2> QED BY <1>4 DEF Age, l
<1>9. AgedTags(c, u, now)
  <2>1. Age(c, m) <= now
    BY <1>7, <1>8
  <2> HIDE DEF u, l
  <2> QED BY <1>1, <1>2, <1>4, <2>1, WithLineAged
<1>10. ASSUME NEW b \in DOMAIN c.set_index, NEW w \in Ways(c)
       PROVE  /\ Age(c, Line(c, u, b, w)) = now => Line(c, u, b, w).m_tag \in FilledLines(b, now)
              /\ Age(c, Line(c, u, b, w)) # now
                    => Untouched(Line(c, u, b, w), Line(c, l2_tags, b, w))
  <2>1. CASE ~(c.set_index[b] = c.set_index[a] /\ w = i)
    <3>1. Line(c, u, b, w) = Line(c, t, b, w)
      BY <1>5, <2>1
    <3> HIDE DEF c, u
    <3> QED BY <1>2, <3>1
  <2>2. CASE c.set_index[b] = c.set_index[a] /\ w = i
    <3>1. Line(c, u, b, w) = m /\ FilledLines(b, now) = FilledLines(a, now)
      BY <1>5, <1>6, <2>2
    <3>2. Line(c, t, b, w) = l /\ Line(c, l2_tags, b, w) = Line(c, l2_tags, a, i)
      BY <2>2 DEF Line
    <3>3. m.m_tag = a
      BY <1>4
    <3>4. ASSUME Age(c, m) # now PROVE Untouched(m, Line(c, l2_tags, b, w))
      <4>1. /\ Age(c, l) # now /\ l.m_tag = a
            /\ c.m_replacement_policy = "LRU" =>
                  \A y \in c.sectors : m.m_status[y] # INVALID => l.m_status[y] # INVALID
        BY <1>8, <3>4
      <4>2. Untouched(l, Line(c, l2_tags, b, w))
        BY <1>2, <3>2, <4>1
      <4> HIDE DEF l, a, u
      <4> QED BY <3>3, <4>1, <4>2 DEF Untouched
    <3> HIDE DEF c, u, l, a
    <3> QED BY <1>6, <3>1, <3>3, <3>4
  <2> QED BY <2>1, <2>2
<1>11. ASSUME NEW f \in s, f # e, Room(f, now), Absent(m_address[f.mf], m_sector_mask[f.mf])
       PROVE  Settled(u, m_address[f.mf], m_sector_mask[f.mf], now)
  <2> DEFINE b == m_address[f.mf]
             y == m_sector_mask[f.mf]
  <2>1. b \in DOMAIN c.set_index /\ y \in c.sectors
    BY RequestPlace
  <2>2. PICK w \in Ways(c) : /\ Line(c, t, b, w).m_tag = b
                             /\ Line(c, t, b, w).m_status[y] # INVALID
                             /\ Age(c, Line(c, t, b, w)) = now
    BY <1>2, <1>11 DEF Settled
  <2>3. CASE ~(c.set_index[b] = c.set_index[a] /\ w = i)
    <3>1. Line(c, u, b, w) = Line(c, t, b, w)
      BY <1>5, <2>1, <2>3
    <3> HIDE DEF u
    <3> QED BY <2>2, <3>1 DEF Settled
  <2>4. CASE c.set_index[b] = c.set_index[a] /\ w = i
    <3>1. Line(c, u, b, w) = m /\ Line(c, t, b, w) = l
      <4>1. Line(c, t, b, w) = l
        BY <2>4 DEF Line
      <4> QED BY <1>5, <2>1, <2>4, <4>1
    <3>2. l.m_tag = b /\ l.m_status[y] # INVALID /\ Age(c, l) = now
      BY <2>2, <3>1
    <3>3. ~is_invalid_line(l)
      BY <1>7, <2>1, <3>2 DEF is_invalid_line, CleanLine
    <3>4. l.m_tag = a
      <4> SUFFICES ASSUME l.m_tag # a PROVE FALSE
        OBVIOUS
      <4>1. /\ \A v \in Ways(c) : Line(c, t, a, v).m_tag # a
            /\ \A v \in Ways(c) : Age(c, l) <= Age(c, Line(c, t, a, v))
        BY <1>4, <3>3
      <4>2. FilledLines(b, now) = FilledLines(a, now)
        BY <1>6, <2>4
      <4>3. Cardinality(FilledLines(a, now)) <= c.m_assoc
        BY <1>11, <4>2 DEF Room
      <4>4. PICK v \in Ways(c) : Age(c, Line(c, t, a, v)) # now
        BY <1>1, <1>6, <4>1, <4>3, OlderWay
      <4>5. Age(c, Line(c, t, a, v)) <= now /\ Age(c, Line(c, t, a, v)) \in Nat
        <5>1. Line(c, t, a, v) \in CleanLine(c)
          BY <1>1, <1>2, CleanWay
        <5>2. Age(c, Line(c, t, a, v)) \in Nat
          BY <5>1 DEF Age, CleanLine
        <5> QED BY <1>1, <1>2, <5>2 DEF AgedTags
      <4>6. now <= Age(c, Line(c, t, a, v))
        BY <3>2, <4>1
      <4> QED BY <4>4, <4>5, <4>6
    <3>5. m.m_tag = b /\ m.m_status[y] # INVALID
      <4>1. m.m_tag = a /\ m.m_status[x] # INVALID
        BY <1>4
      <4>2. l.m_tag = a => \A k \in c.sectors : k # x => m.m_status[k] = l.m_status[k]
        BY <1>4
      <4> HIDE DEF l, u, c, x, a, b, y
      <4> QED BY <2>1, <3>2, <3>4, <4>1, <4>2
    <3>6. Age(c, m) = now
      BY <1>8, <3>2
    <3> HIDE DEF u, l
    <3> QED BY <3>1, <3>5, <3>6 DEF Settled
  <2> QED BY <2>3, <2>4
<1>12. ASSUME Room(e, now), Absent(a, x) PROVE Settled(u, a, x, now)
  <2>1. Line(c, u, a, i) = m
    BY <1>1, <1>5
  <2>2. m.m_tag = a /\ m.m_status[x] # INVALID
    BY <1>4
  <2>3. Age(c, m) = now
    <3> SUFFICES ASSUME Age(c, m) # now PROVE FALSE
      OBVIOUS
    <3>1. /\ Age(c, l) # now /\ l.m_tag = a
          /\ c.m_replacement_policy = "LRU" => l.m_status[x] # INVALID
      BY <1>8
    <3>2. Untouched(l, Line(c, l2_tags, a, i))
      BY <1>1, <1>2, <3>1
    <3>3. Line(c, l2_tags, a, i).m_tag = a
      BY <3>1, <3>2 DEF Untouched
    <3>4. c.m_replacement_policy = "LRU" => Line(c, l2_tags, a, i).m_status[x] # INVALID
      BY <1>1, <3>1, <3>2 DEF Untouched
    <3>5. CASE c.m_replacement_policy = "LRU"
      <4>1. i \in Holders(c, l2_tags, a, x)
        <5>1. CleanTags(c, l2_tags)
          BY DEF Cleaned
        <5> QED BY <1>1, <3>3, <3>4, <3>5, <5>1, HoldersClean
      <4> QED BY <1>12, <3>5, <4>1 DEF Absent
    <3>6. CASE c.m_replacement_policy # "LRU"
      BY <1>12, <3>3, <3>6 DEF Absent
    <3> QED BY <3>5, <3>6
  <2> HIDE DEF u
  <2> QED BY <2>1, <2>2, <2>3 DEF Settled
<1> HIDE DEF u, l
<1>13. \A f \in s : Room(f, now) /\ Absent(m_address[f.mf], m_sector_mask[f.mf])
                    => Settled(u, m_address[f.mf], m_sector_mask[f.mf], now)
  BY <1>11, <1>12
<1>14. Filling(s, u, now)
  BY <1>3, <1>9, <1>10, <1>13 DEF Filling
<1> QED BY <1>14 DEF u

LEMMA ReturnFills ==
    ASSUME Typed, Cleaned, Aged, NEW now, now = gpu_sim_cycles + 1, l2_config.m_assoc # 0
    PROVE  Filling(Releasing(now), TagsAfterReturn(now), now)
<1> DEFINE S == Releasing(now)
           V == {t \in [Sets(l2_config) -> [Ways(l2_config) -> CleanLine(l2_config)]] :
                    CleanTags(l2_config, t)}
           W == [s \in SUBSET S |-> {t \in V : Filling(s, t, now)}]
<1>0. now \in Nat /\ gpu_sim_cycles \in Nat
  BY DEF Typed
<1>1. IsFiniteSet(S) /\ \A e \in S : e.mf \in MemFetch
  BY <1>0, ReturnFold
<1>2. PICK g : /\ TagsAfterReturn(now) = g[S]
               /\ g[{}] = l2_tags
               /\ \A s \in SUBSET S : s # {} => \E e \in s :
                     g[s] = tag_array_fill(l2_config, g[s \ {e}], m_address[e.mf],
                                           m_sector_mask[e.mf], now)
  BY <1>0, ReturnFold
<1>3. \A s \in SUBSET S : \A t : t \in W[s] <=> Filling(s, t, now)
  BY DEF CleanTags, Filling
<1>4. Filling({}, l2_tags, now)
  <2>1. CleanTags(l2_config, l2_tags) /\ AgedTags(l2_config, l2_tags, gpu_sim_cycles)
    BY DEF Cleaned, Aged
  <2>2. ASSUME NEW a \in DOMAIN l2_config.set_index, NEW w \in Ways(l2_config)
        PROVE  /\ Age(l2_config, Line(l2_config, l2_tags, a, w)) <= now
               /\ Age(l2_config, Line(l2_config, l2_tags, a, w)) # now
    <3>1. Line(l2_config, l2_tags, a, w) \in CleanLine(l2_config)
      BY <2>1, CleanWay
    <3>2. Age(l2_config, Line(l2_config, l2_tags, a, w)) \in Nat
      BY <3>1 DEF Age, CleanLine
    <3>3. Age(l2_config, Line(l2_config, l2_tags, a, w)) <= gpu_sim_cycles
      BY <2>1 DEF AgedTags
    <3> QED BY <1>0, <3>2, <3>3
  <2>3. \A l : Untouched(l, l)
    BY DEF Untouched
  <2> QED BY <2>1, <2>2, <2>3 DEF Filling, AgedTags
<1> HIDE DEF S, V
<1>5. g[{}] \in W[{}]
  <2> HIDE DEF W
  <2> QED BY <1>2, <1>3, <1>4
<1>6. ASSUME NEW s \in SUBSET S, s # {}
      PROVE  \E e \in s : g[s \ {e}] \in W[s \ {e}] => g[s] \in W[s]
  <2>1. PICK e \in s : g[s] = tag_array_fill(l2_config, g[s \ {e}], m_address[e.mf],
                                             m_sector_mask[e.mf], now)
    BY <1>2, <1>6
  <2>2. ASSUME Filling(s \ {e}, g[s \ {e}], now) PROVE Filling(s, g[s], now)
    <3>1. Filling(s, tag_array_fill(l2_config, g[s \ {e}], m_address[e.mf],
                                    m_sector_mask[e.mf], now), now)
      BY <1>0, <1>1, <2>2, FillingStep DEF S
    <3> QED BY <2>1, <3>1
  <2> HIDE DEF W
  <2> QED BY <1>3, <2>2
<1>7. \A s \in SUBSET S : g[s] \in W[s]
  <2> HIDE DEF W
  <2> QED BY <1>1, <1>5, <1>6, FoldKeeps
<1>8. Filling(S, g[S], now)
  <2> HIDE DEF W
  <2> QED BY <1>3, <1>7
<1> QED BY <1>2, <1>8 DEF S

\* What the lookup of the cycle does to the tags the fills leave: it does not
\* take a sector out of the cache, and it only makes lines younger.
LEMMA LookupTags ==
    ASSUME IInv, Cleaned, NEW popped \in Arrivals, Cycle(popped)
    PROVE  LET now == gpu_sim_cycles + 1
               t   == TagsAfterReturn(now)
           IN  /\ \A a \in DOMAIN l2_config.set_index, x \in l2_config.sectors :
                     Holders(l2_config, t, a, x) # {} => Holders(l2_config, l2_tags', a, x) # {}
               /\ AgedTags(l2_config, t, now) => AgedTags(l2_config, l2_tags', now)
<1> DEFINE now == gpu_sim_cycles + 1
           mf  == FrontRequest(popped)
           t   == TagsAfterReturn(now)
           c   == l2_config
           b   == m_address[mf]
           y   == m_sector_mask[mf]
           Good(u) == /\ \A a \in DOMAIN c.set_index, x \in c.sectors :
                            Holders(c, t, a, x) # {} => Holders(c, u, a, x) # {}
                      /\ AgedTags(c, t, now) => AgedTags(c, u, now)
<1>0. /\ Typed /\ Apart /\ now \in Nat /\ l2_cache_cycle(now, popped)
  BY DEF IInv, Typed, Cycle
<1>1. CleanTags(c, t)
  BY <1>0, ReturnClean
<1>2. Queue(popped) # <<>> => mf \in MemFetch /\ b \in DOMAIN c.set_index /\ y \in c.sectors
  BY <1>0, FrontFacts, RequestPlace
<1>3. Good(t)
  OBVIOUS
<1>4. ASSUME Queue(popped) # <<>>
      PROVE  Good(Touched(now, mf)) /\ CleanTags(c, Touched(now, mf))
  <2>1. Touched(now, mf) = tag_array_access(c, t, b, y, now)
    BY DEF Touched
  <2> HIDE DEF now, mf, t, c, b, y
  <2>2. CleanTags(c, Touched(now, mf))
    BY <1>0, <1>1, <1>2, <1>4, <2>1, AccessClean
  <2>3. ASSUME NEW a \in DOMAIN c.set_index, NEW x \in c.sectors, Holders(c, t, a, x) # {}
        PROVE  Holders(c, Touched(now, mf), a, x) # {}
    BY <1>0, <1>1, <1>2, <1>4, <2>1, <2>3, AccessHolds
  <2>4. AgedTags(c, t, now) => AgedTags(c, Touched(now, mf), now)
    BY <1>0, <1>1, <1>2, <1>4, <2>1, AccessAged
  <2> QED BY <2>2, <2>3, <2>4
<1>5. Good(l2_tags')
  <2>1. CASE Queue(popped) = <<>>
    <3>1. NoLookup(now)
      BY <1>0, <2>1 DEF l2_cache_cycle
    <3>2. l2_tags' = t
      BY <3>1 DEF NoLookup
    <3> QED BY <1>3, <3>2
  <2>2. CASE Queue(popped) # <<>>
    <3>0. Lookup(now, popped)
      BY <1>0, <2>2 DEF l2_cache_cycle
    <3>1. CASE StoreHit(now, popped)
      <4> DEFINE i == Probe(now, mf).idx
                 u == Touched(now, mf)
                 l == Line(c, u, b, i)
                 m == set_status(l, MODIFIED, y)
      <4>1. l2_tags' = WithLine(c, u, b, i, m)
        BY <3>1 DEF StoreHit
      <4>2. Good(u) /\ CleanTags(c, u)
        BY <1>4, <2>2
      <4> HIDE DEF now, mf, t, c, b, y, u, i
      <4>3. CleanTags(c, WithLine(c, u, b, i, m))
        BY <1>2, <2>2, <4>2, MarkClean
      <4>4. i \in Ways(c) => /\ m.m_tag = l.m_tag /\ Age(c, m) = Age(c, l)
                             /\ \A k \in c.sectors : l.m_status[k] # INVALID
                                                     => m.m_status[k] # INVALID
        <5> SUFFICES ASSUME i \in Ways(c)
                     PROVE  /\ m.m_tag = l.m_tag /\ Age(c, m) = Age(c, l)
                            /\ \A k \in c.sectors : l.m_status[k] # INVALID
                                                    => m.m_status[k] # INVALID
          OBVIOUS
        <5>1. l \in CleanLine(c)
          BY <1>2, <2>2, <4>2, CleanWay
        <5> HIDE DEF l
        <5>2. /\ m.m_tag = l.m_tag /\ m.last_access = l.last_access /\ m.alloc_time = l.alloc_time
              /\ m.m_status = [l.m_status EXCEPT ![y] = MODIFIED]
              /\ l.m_status \in [c.sectors -> {INVALID, VALID, MODIFIED}]
          BY <5>1 DEF CleanLine, set_status
        <5> HIDE DEF m
        <5> QED BY <5>2 DEF Age, INVALID, MODIFIED
      <4> HIDE DEF m
      <4>5. ASSUME NEW a \in DOMAIN c.set_index, NEW x \in c.sectors, Holders(c, t, a, x) # {}
            PROVE  Holders(c, WithLine(c, u, b, i, m), a, x) # {}
        <5>1. Holders(c, u, a, x) # {}
          BY <4>2, <4>5
        <5> QED BY <1>2, <2>2, <4>2, <4>3, <4>4, <5>1, HeldStays
      <4>6. ASSUME AgedTags(c, t, now) PROVE AgedTags(c, WithLine(c, u, b, i, m), now)
        <5>1. AgedTags(c, u, now)
          BY <4>2, <4>6
        <5>2. i \in Ways(c) => Age(c, m) <= now
          BY <1>2, <2>2, <4>4, <5>1 DEF AgedTags
        <5> HIDE DEF l
        <5> QED BY <1>0, <1>2, <2>2, <4>2, <5>1, <5>2, WithLineAged
      <4> QED BY <4>1, <4>5, <4>6
    <3>2. CASE StoreIdle(now, popped)
      <4> DEFINE i == Min(Idle(now, mf))
                 l == Line(c, t, b, i)
                 m == StoredLine(now, mf, i)
      <4>1. l2_tags' = WithLine(c, t, b, i, m) /\ Idle(now, mf) # {}
        BY <3>2 DEF StoreIdle
      <4>2. i \in Ways(c) /\ is_invalid_line(l)
        <5>1. /\ Idle(now, mf) \in SUBSET Nat
              /\ Idle(now, mf) = {w \in Ways(c) : is_invalid_line(Line(c, t, b, w))}
          BY DEF Idle, IdleWays, Ways
        <5>2. i \in Idle(now, mf)
          <6> HIDE DEF mf, now, t, b
          <6> QED BY <4>1, <5>1, MinLeast
        <5> HIDE DEF i
        <5> QED BY <5>1, <5>2
      <4>3. CleanTags(c, WithLine(c, t, b, i, m))
        <5> HIDE DEF i, mf, now
        <5> QED BY <1>0, <1>2, <2>2, StoredClean
      <4>4. ASSUME AgedTags(c, t, now) PROVE Age(c, m) <= now
        <5> DEFINE p == tag_array_probe(c, t, b, y).status
                   k == CASE p = MISS        -> allocate_line(l, b, now, y)
                          [] p = SECTOR_MISS -> allocate_sector(l, now, y)
                          [] OTHER           -> l
        <5>1. m = set_last_access_time(set_status(k, MODIFIED, y), now)
          BY Zenon DEF StoredLine, Probe
        <5>2. \/ k = allocate_line(l, b, now, y)
              \/ k = allocate_sector(l, now, y)
              \/ k = l
          <6> HIDE DEF p, l
          <6> QED OBVIOUS
        <5>3. l \in CleanLine(c) /\ Age(c, l) <= now
          <6> HIDE DEF i
          <6> QED BY <1>1, <1>2, <2>2, <4>2, <4>4, CleanWay DEF AgedTags
        <5> HIDE DEF l, k, m, now, p, i, mf, b, y
        <5>4. m.last_access = now /\ (m.alloc_time = now \/ m.alloc_time = l.alloc_time)
          <6>1. CASE k = allocate_line(l, b, now, y)
            BY <5>1, <6>1 DEF allocate_line, set_status, set_last_access_time
          <6>2. CASE k = allocate_sector(l, now, y)
            BY <5>1, <5>3, <6>2 DEF allocate_sector, set_status, set_last_access_time, CleanLine
          <6>3. CASE k = l
            BY <5>1, <5>3, <6>3 DEF set_status, set_last_access_time, CleanLine
          <6> QED BY <5>2, <6>1, <6>2, <6>3
        <5> QED BY <1>0, <5>3, <5>4 DEF Age
      <4> HIDE DEF now, mf, t, c, b, y, i, m
      <4>5. ASSUME NEW a \in DOMAIN c.set_index, NEW x \in c.sectors, Holders(c, t, a, x) # {}
            PROVE  Holders(c, WithLine(c, t, b, i, m), a, x) # {}
        BY <1>1, <1>2, <2>2, <4>2, <4>3, <4>5, HeldStays
      <4>6. ASSUME AgedTags(c, t, now) PROVE AgedTags(c, WithLine(c, t, b, i, m), now)
        BY <1>0, <1>1, <1>2, <2>2, <4>4, <4>6, WithLineAged
      <4> QED BY <4>1, <4>5, <4>6
    <3>3. CASE StoreMiss(now, popped)
      <4>1. l2_tags' = t
        BY <3>3 DEF StoreMiss
      <4> QED BY <1>3, <4>1
    <3>4. CASE LoadHit(now, popped)
      <4>1. l2_tags' = Touched(now, mf)
        BY <3>4 DEF LoadHit
      <4> QED BY <1>4, <2>2, <4>1
    <3>5. CASE LoadMiss(now, popped)
      <4>1. l2_tags' = Touched(now, mf)
        BY <3>5 DEF LoadMiss
      <4> QED BY <1>4, <2>2, <4>1
    <3>6. CASE LookupFails(now, popped)
      <4>1. l2_tags' = t
        BY <3>6 DEF LookupFails
      <4> QED BY <1>3, <4>1
    <3> QED BY <3>0, <3>1, <3>2, <3>3, <3>4, <3>5, <3>6 DEF Lookup
  <2> QED BY <2>1, <2>2
<1> QED BY <1>5

LEMMA AgedStep ==
    ASSUME IInv, Cleaned, Aged, NEW popped \in Arrivals, Cycle(popped)
    PROVE  Aged'
<1> DEFINE now == gpu_sim_cycles + 1
           t   == TagsAfterReturn(now)
<1>0. Typed /\ gpu_sim_cycles' = now
  BY DEF IInv, Cycle
<1>1. AgedTags(l2_config, t, now)
  <2>1. CASE l2_config.m_assoc # 0
    BY <1>0, <2>1, ReturnFills DEF Filling
  <2>2. CASE l2_config.m_assoc = 0
    <3>1. Ways(l2_config) = {}
      BY <2>2 DEF Ways
    <3> QED BY <3>1 DEF AgedTags
  <2> QED BY <2>1, <2>2
<1>2. AgedTags(l2_config, l2_tags', now)
  BY <1>1, LookupTags
<1> QED BY <1>0, <1>2 DEF Aged

LEMMA InitAged == Init => Aged
<1> SUFFICES ASSUME Init PROVE Aged
  OBVIOUS
<1>1. l2_tags = NewTagArray(l2_config) /\ gpu_sim_cycles = 0
  BY DEF Init, InitL2
<1>2. NewLine(l2_config).last_access = 0 /\ NewLine(l2_config).alloc_time = 0
  BY DEF NewLine
<1> DEFINE l == NewLine(l2_config)
<1> HIDE DEF l
<1>3. ASSUME NEW a \in DOMAIN l2_config.set_index, NEW w \in Ways(l2_config)
      PROVE  Line(l2_config, l2_tags, a, w) = l
  <2>1. l2_config.set_index[a] \in Sets(l2_config)
    BY DEF Sets
  <2> QED BY <1>1, <2>1 DEF NewTagArray, Line, l
<1>4. Age(l2_config, l) = 0
  BY <1>2 DEF Age, l
<1> QED BY <1>1, <1>3, <1>4 DEF Aged, AgedTags

LEMMA AgedAlways == Spec => [](IInv /\ Cleaned /\ Aged)
<1>1. Init => IInv /\ Cleaned /\ Aged
  BY InitInv, InitCleaned, InitAged
<1>2. IInv /\ Cleaned /\ Aged /\ [Next]_vars => (IInv /\ Cleaned /\ Aged)'
  <2> SUFFICES ASSUME IInv, Cleaned, Aged, [Next]_vars PROVE IInv' /\ Cleaned' /\ Aged'
    OBVIOUS
  <2>1. IInv'
    BY StepInv
  <2>2. CASE Next
    BY <2>1, <2>2, CleanedStep, AgedStep DEF Next
  <2>3. CASE UNCHANGED vars
    BY <2>1, <2>3 DEF vars, l2Vars, Cleaned, Aged
  <2> QED BY <2>1, <2>2, <2>3
<1> QED BY <1>1, <1>2, PTL DEF Spec

\* A load that missed finds its sector in the cache when it is answered,
\* whatever else is filled in the same cycle, for every geometry, both
\* replacement policies and all latencies: if the sector was not there, its
\* fill is not the victim of another one while the set has room for the
\* lines of the cycle.
THEOREM FillsStay == Spec => FillStays
<1> DEFINE Stay == \A e \in Releasing(gpu_sim_cycles') :
               /\ Cardinality(FilledLines(m_address[e.mf], gpu_sim_cycles')) <= l2_config.m_assoc
               /\ Absent(m_address[e.mf], m_sector_mask[e.mf])
               => Holders(l2_config, l2_tags', m_address[e.mf], m_sector_mask[e.mf]) # {}
<1>1. ASSUME IInv, Cleaned, Aged, NEW popped \in Arrivals, Cycle(popped) PROVE Stay
  <2> DEFINE now == gpu_sim_cycles + 1
             t   == TagsAfterReturn(now)
  <2>1. Typed /\ now \in Nat /\ gpu_sim_cycles' = now
    BY <1>1 DEF IInv, Typed, Cycle
  <2>2. IsFiniteSet(Releasing(now)) /\ \A e \in Releasing(now) : e.mf \in MemFetch
    BY <1>1, <2>1, ReturnFold
  <2>3. ASSUME NEW e \in Releasing(now), Room(e, now), Absent(m_address[e.mf], m_sector_mask[e.mf])
        PROVE  Holders(l2_config, l2_tags', m_address[e.mf], m_sector_mask[e.mf]) # {}
    <3>1. m_address[e.mf] \in DOMAIN l2_config.set_index /\ m_sector_mask[e.mf] \in l2_config.sectors
      BY <2>2, RequestPlace
    <3>2. l2_config.m_assoc # 0
      <4> DEFINE F == FilledLines(m_address[e.mf], now)
      <4>1. m_address[e.mf] \in F
        BY DEF FilledLines
      <4>2. IsFiniteSet(F) /\ Cardinality(F) <= l2_config.m_assoc
        BY <2>2, <2>3, FilledFinite DEF Room
      <4> HIDE DEF F
      <4>3. Cardinality(F) \in Nat /\ Cardinality(F) # 0
        BY <4>1, <4>2, FS_CardinalityType, FS_EmptySet
      <4> QED BY <4>2, <4>3
    <3>3. Settled(t, m_address[e.mf], m_sector_mask[e.mf], now)
      BY <1>1, <2>1, <2>3, <3>2, ReturnFills DEF Filling
    <3>4. CleanTags(l2_config, t)
      BY <1>1, <2>1, ReturnClean
    <3>5. Holders(l2_config, t, m_address[e.mf], m_sector_mask[e.mf]) # {}
      BY <3>1, <3>3, <3>4, HoldersClean DEF Settled
    <3> QED BY <1>1, <3>1, <3>5, LookupTags
  <2> QED BY <2>1, <2>3 DEF Room
<1>2. IInv /\ Cleaned /\ Aged /\ [Next]_vars => [Stay]_vars
  BY <1>1 DEF Next
<1>3. Spec => [][Stay]_vars
  BY AgedAlways, <1>2, PTL DEF Spec
<1> QED BY <1>3 DEF FillStays
=============================================================================
