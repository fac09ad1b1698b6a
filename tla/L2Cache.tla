------------------------------ MODULE L2Cache ------------------------------
(***************************************************************************)
(* One slice of the L2 cache: l2_data_cache (cache.h, cache.cpp).  Every   *)
(* cycle of the GPU it runs l2_cache_cycle once: the answers that are due  *)
(* leave for the crossbar, one request arrives from it, and the request at *)
(* the front of m_l1_to_l2 is looked up.                                   *)
(*                                                                         *)
(* l2_to_sm is a vector in the code, its elements counted down once per    *)
(* cycle.  Here it is a set of records with the cycle of the access (at    *)
(* most one per cycle, so "at" is the position in the vector) and the      *)
(* cycle in which the countdown reaches zero.  DRAM is only the latency    *)
(* that a miss is charged.  l2_to_dram, another vector, only ever grows;   *)
(* its countdowns ("left") go on below zero and are read once, when the    *)
(* kernel has ended.  There "at" is history: the cycle of the write.       *)
(*                                                                         *)
(* Stores marked WRITE_THROUGH do not occur: only an L1 hit marks a store, *)
(* and a hit is not sent on.                                               *)
(***************************************************************************)
EXTENDS Requests, SectorCache, MshrTable, Folds, Integers

CONSTANTS
    l2_config,                      \* cache_config of the slice
    l2_m_mshr_entries, l2_m_mshr_max_merge,
    tlb_hit_l2_hit_latency, tlb_miss_l2_write_hit_latency,
    tlb_hit_l2_miss_latency, tlb_miss_l2_miss_latency,
    dram_latency                    \* 427, in cache_access

ASSUME L2Assumption ==
    /\ l2_m_mshr_entries \in Nat \ {0}
    /\ l2_m_mshr_max_merge \in Nat \ {0}
    /\ tlb_hit_l2_hit_latency \in Nat \ {0}
    /\ tlb_miss_l2_write_hit_latency \in Nat \ {0}
    /\ tlb_hit_l2_miss_latency \in Nat \ {0}
    /\ tlb_miss_l2_miss_latency \in Nat \ {0}
    /\ dram_latency \in Nat \ {0}

\* set_index is computed for any address (cache_config::set_index), and a
\* line has SECTOR_CHUNCK_SIZE sectors.
ASSUME L2ConfigAssumption ==
    /\ l2_config.sectors = Sector
    /\ DOMAIN l2_config.set_index = LineAddr
    /\ l2_config.m_assoc \in Nat

INIT    == "INIT"
L2_HIT  == "L2_HIT"
L2_MISS == "L2_MISS"

VARIABLES
    l2_tags,        \* m_tag_array
    l2_mshrs,       \* m_mshrs
    m_l1_to_l2,     \* requests popped from the crossbar, not yet looked up
    l2_to_sm,       \* requests looked up, their answer on the way
    l2_to_dram,     \* stores written to DRAM as well
    m_status        \* m_status of the requests

l2Vars == <<l2_tags, l2_mshrs, m_l1_to_l2, l2_to_sm, l2_to_dram, m_status>>

InitL2 ==
    /\ l2_tags    = NewTagArray(l2_config)
    /\ l2_mshrs   = EmptyMshr(SectorAddr)
    /\ m_l1_to_l2 = <<>>
    /\ l2_to_sm   = {}
    /\ l2_to_dram = {}
    /\ m_status   = [mf \in MemFetch |-> INIT]

-----------------------------------------------------------------------------
(* The return loop of l2_cache_cycle, in cycle now.                        *)

\* The answers that are due are pushed into the crossbar, in the order of at.
Returned(now) == {e \in l2_to_sm : e.due <= now}

\* Those that release the MSHR entry of their sector: all but L2 hits; the
\* first answer for a sector leaves no entry to the next one.
Releasing(now) ==
    LET missed == {e \in Returned(now) :
                     /\ m_status[e.mf] # L2_HIT
                     /\ mshr_probe(l2_mshrs, m_sector_address(e.mf))}
    IN  {e \in missed : \A f \in missed :
            m_sector_address(f.mf) = m_sector_address(e.mf) => e.at <= f.at}

\* Mutant: the entry is not released.
MshrsAfterReturn_Kept(now) == l2_mshrs

MshrsAfterReturn(now) ==
    LET released == {m_sector_address(e.mf) : e \in Releasing(now)}
    IN  [x \in SectorAddr |-> IF x \in released THEN <<>> ELSE l2_mshrs[x]]

\* One cache_fill for every request of a released entry; they are all for
\* the same sector, so filling once is the same.
TagsAfterReturn(now) ==
    LET FillFor(e, t) == tag_array_fill(l2_config, t, m_address[e.mf],
                                        m_sector_mask[e.mf], now)
        Last(S)  == CHOOSE e \in S : \A f \in S : f.at <= e.at
        Self(e)  == e
    IN  MapThenFoldSet(FillFor, l2_tags, Self, Last, Releasing(now))

-----------------------------------------------------------------------------
(* cache_access for the request at the front of m_l1_to_l2, in cycle now,  *)
(* after the return loop and after one Pop (popped is the request in a     *)
(* set, or empty).                                                         *)

Queue(popped) ==
    IF popped = {} THEN m_l1_to_l2
    ELSE Append(m_l1_to_l2, CHOOSE mf \in popped : TRUE)

FrontRequest(popped) == Head(Queue(popped))

Probe(now, mf) == tag_array_probe(l2_config, TagsAfterReturn(now),
                                  m_address[mf], m_sector_mask[mf])

Touched(now, mf) == tag_array_access(l2_config, TagsAfterReturn(now),
                                     m_address[mf], m_sector_mask[mf], now)

Idle(now, mf) == IdleWays(l2_config, TagsAfterReturn(now), m_address[mf])

MissLatency(mf) == IF m_tlb_hit[mf] THEN tlb_hit_l2_miss_latency
                                    ELSE tlb_miss_l2_miss_latency
StoreHitLatency(mf) == IF m_tlb_hit[mf] THEN tlb_hit_l2_hit_latency
                                        ELSE tlb_miss_l2_write_hit_latency

\* Mutant: what was returned is not erased.
Answer_NoErase(now, popped, status, latency) ==
    LET mf == FrontRequest(popped) IN
    /\ m_l1_to_l2' = Tail(Queue(popped))
    /\ l2_to_sm' = l2_to_sm \cup {[mf |-> mf, at |-> now, due |-> now + latency]}
    /\ m_status' = [m_status EXCEPT ![mf] = status]

\* The countdowns of the writes to DRAM, at the start of a cycle.
CountedDown(writes) == {[e EXCEPT !.left = @ - 1] : e \in writes}

DramWrite(now, mf) == [mf |-> mf, at |-> now, left |-> dram_latency]

\* Mutant: counted down after the lookup, the new write included.
Written_CountedLast(now, mf) ==
    CountedDown(l2_to_dram \cup (IF m_tlb_hit[mf] THEN {DramWrite(now, mf)} ELSE {}))

\* A store is written to DRAM as well when its page was in the TLB.
Written(now, mf) ==
    CountedDown(l2_to_dram) \cup (IF m_tlb_hit[mf] THEN {DramWrite(now, mf)} ELSE {})

\* The request leaves the queue and its answer will be due after latency.
Answer(now, popped, status, latency) ==
    LET mf == FrontRequest(popped) IN
    /\ m_l1_to_l2' = Tail(Queue(popped))
    /\ l2_to_sm' = (l2_to_sm \ Returned(now))
                      \cup {[mf |-> mf, at |-> now, due |-> now + latency]}
    /\ m_status' = [m_status EXCEPT ![mf] = status]

\* A store finds its sector: it becomes MODIFIED.
StoreHit(now, popped) ==
    LET mf == FrontRequest(popped)
        p  == Probe(now, mf)
        t  == Touched(now, mf)
        l  == Line(l2_config, t, m_address[mf], p.idx)
    IN  /\ is_write[mf]
        /\ p.status = HIT
        /\ Answer(now, popped, L2_HIT, StoreHitLatency(mf))
        /\ l2_tags' = WithLine(l2_config, t, m_address[mf], p.idx,
                               set_status(l, MODIFIED, m_sector_mask[mf]))
        /\ l2_mshrs' = MshrsAfterReturn(now)
        /\ l2_to_dram' = CountedDown(l2_to_dram)

\* Mutant: the idle way gets the tag of the line in both cases.
StoredLine_Tagged(now, mf, w) ==
    LET l == Line(l2_config, TagsAfterReturn(now), m_address[mf], w)
    IN  set_status(allocate_line(l, m_address[mf], now, m_sector_mask[mf]),
                   MODIFIED, m_sector_mask[mf])

\* The line an idle way holds after a store that missed: a line of its own
\* when the line was absent; when only the sector was, the sector alone is
\* allocated, and the idle way keeps the tag it had.
StoredLine(now, mf, w) ==
    LET l == Line(l2_config, TagsAfterReturn(now), m_address[mf], w)
        found == Probe(now, mf).status
        a == CASE found = MISS        -> allocate_line(l, m_address[mf], now, m_sector_mask[mf])
               [] found = SECTOR_MISS -> allocate_sector(l, now, m_sector_mask[mf])
               [] OTHER               -> l
    IN  set_last_access_time(set_status(a, MODIFIED, m_sector_mask[mf]), now)

\* A store misses and the set has an idle way: it counts as a hit.
StoreIdle(now, popped) ==
    LET mf == FrontRequest(popped)
        w  == Min(Idle(now, mf))
    IN  /\ is_write[mf]
        /\ Probe(now, mf).status \notin {HIT, RESERVATION_FAIL}
        /\ Idle(now, mf) # {}
        /\ Answer(now, popped, L2_HIT, StoreHitLatency(mf))
        /\ l2_tags' = WithLine(l2_config, TagsAfterReturn(now), m_address[mf], w,
                               StoredLine(now, mf, w))
        /\ l2_mshrs' = MshrsAfterReturn(now)
        /\ l2_to_dram' = Written(now, mf)

\* A store misses and there is no idle way: nothing is allocated.
StoreMiss(now, popped) ==
    LET mf == FrontRequest(popped) IN
    /\ is_write[mf]
    /\ Probe(now, mf).status \notin {HIT, RESERVATION_FAIL}
    /\ Idle(now, mf) = {}
    /\ Answer(now, popped, L2_MISS, MissLatency(mf))
    /\ l2_tags' = TagsAfterReturn(now)
    /\ l2_mshrs' = MshrsAfterReturn(now)
    /\ l2_to_dram' = CountedDown(l2_to_dram)

LoadHit(now, popped) ==
    LET mf == FrontRequest(popped) IN
    /\ ~is_write[mf]
    /\ Probe(now, mf).status = HIT
    /\ Answer(now, popped, L2_HIT, tlb_hit_l2_hit_latency)
    /\ l2_tags' = Touched(now, mf)
    /\ l2_mshrs' = MshrsAfterReturn(now)
    /\ l2_to_dram' = CountedDown(l2_to_dram)

\* A load misses: the first one for its sector opens an MSHR entry and pays
\* for the TLB, the next ones join it and pay the latency of a TLB hit.
Full(now, mf) == mshr_full(MshrsAfterReturn(now), m_sector_address(mf),
                           l2_m_mshr_entries, l2_m_mshr_max_merge)

LoadMiss(now, popped) ==
    LET mf     == FrontRequest(popped)
        sector == m_sector_address(mf)
        m      == MshrsAfterReturn(now)
    IN  /\ ~is_write[mf]
        /\ Probe(now, mf).status \notin {HIT, RESERVATION_FAIL}
        /\ ~Full(now, mf)
        /\ Answer(now, popped, L2_MISS,
                  IF mshr_probe(m, sector) THEN tlb_hit_l2_miss_latency
                                           ELSE MissLatency(mf))
        /\ l2_mshrs' = mshr_add(m, sector, mf)
        /\ l2_tags' = Touched(now, mf)
        /\ l2_to_dram' = CountedDown(l2_to_dram)

\* Mutant: the request is popped although the lookup failed.
LookupFails_Pops(now, popped) ==
    LET mf == FrontRequest(popped) IN
    /\ \/ Probe(now, mf).status = RESERVATION_FAIL
       \/ /\ ~is_write[mf]
          /\ Probe(now, mf).status # HIT
          /\ Full(now, mf)
    /\ m_l1_to_l2' = Tail(Queue(popped))
    /\ l2_to_sm' = l2_to_sm \ Returned(now)
    /\ l2_tags' = TagsAfterReturn(now)
    /\ l2_mshrs' = MshrsAfterReturn(now)
    /\ l2_to_dram' = CountedDown(l2_to_dram)
    /\ UNCHANGED m_status

\* RESERVATION_FAIL: the request stays at the front and is looked up again
\* in the next cycle.
LookupFails(now, popped) ==
    LET mf == FrontRequest(popped) IN
    /\ \/ Probe(now, mf).status = RESERVATION_FAIL
       \/ /\ ~is_write[mf]
          /\ Probe(now, mf).status # HIT
          /\ Full(now, mf)
    /\ m_l1_to_l2' = Queue(popped)
    /\ l2_to_sm' = l2_to_sm \ Returned(now)
    /\ l2_tags' = TagsAfterReturn(now)
    /\ l2_mshrs' = MshrsAfterReturn(now)
    /\ l2_to_dram' = CountedDown(l2_to_dram)
    /\ UNCHANGED m_status

\* No request is waiting.
NoLookup(now) ==
    /\ l2_to_sm' = l2_to_sm \ Returned(now)
    /\ l2_tags' = TagsAfterReturn(now)
    /\ l2_mshrs' = MshrsAfterReturn(now)
    /\ l2_to_dram' = CountedDown(l2_to_dram)
    /\ UNCHANGED <<m_l1_to_l2, m_status>>

Lookup(now, popped) ==
    \/ StoreHit(now, popped)
    \/ StoreIdle(now, popped)
    \/ StoreMiss(now, popped)
    \/ LoadHit(now, popped)
    \/ LoadMiss(now, popped)
    \/ LookupFails(now, popped)

l2_cache_cycle(now, popped) ==
    IF Queue(popped) = <<>> THEN NoLookup(now) ELSE Lookup(now, popped)

\* The end of gpu_cycle: the largest countdown that is left.
stg_cycles == Max({0} \cup {e.left : e \in l2_to_dram})

-----------------------------------------------------------------------------
Answers    == [mf : MemFetch, at : Nat, due : Nat]
DramWrites == [mf : MemFetch, at : Nat, left : Int]

L2TypeOK ==
    /\ TagArrayOK(l2_config, l2_tags)
    /\ l2_mshrs   \in [SectorAddr -> Seq(MemFetch)]
    /\ m_l1_to_l2 \in Seq(MemFetch)
    /\ l2_to_sm   \in SUBSET Answers
    /\ l2_to_dram \in SUBSET DramWrites
    /\ m_status   \in [MemFetch -> {INIT, L2_HIT, L2_MISS}]
    /\ m_tlb_hit  \in [MemFetch -> BOOLEAN]
=============================================================================
