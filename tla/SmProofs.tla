------------------------------ MODULE SmProofs ------------------------------
(***************************************************************************)
(* Proofs about SmCycle: a block is kept as long as a request or a unit    *)
(* has something of it, it is on one SM, the loop ends when all blocks are *)
(* finished, and the last writers that get_inst_dependency looks at are    *)
(* enough for all registers to be settled.                                 *)
(***************************************************************************)
EXTENDS SmCycle, FiniteSetTheorems, WellFoundedInduction, TLAPS

-----------------------------------------------------------------------------
(* The inductive invariant.                                                *)

\* The units that hold an instruction of warp w.
UnitsOf(w) == {p \in SMs \X LdsUnits : unit[p[1]][p[2]].w = w}

\* What a unit holds was issued, by a warp whose block is on its SM.
UnitInv ==
    \A s \in SMs, u \in LdsUnits : unit[s][u].w # None =>
        /\ unit[s][u].k \in 1 .. warp_point[unit[s][u].w] /\ unit[s][u].left > 0
        /\ HasBlock(s, unit[s][u].w)

\* The two counters of a warp say what they count.
CountInv ==
    \A w \in Warps :
        /\ IsFiniteSet(UnderWay(w)) /\ m_pending_mem_request_num[w] = Cardinality(UnderWay(w))
        /\ IsFiniteSet(UnitsOf(w)) /\ pending_inst[w] = Cardinality(UnitsOf(w))

\* The scheduler looks at active warps of blocks of the SM.
ReadyInv ==
    /\ ~At("schedule_warp", 0) => ready_warps = {}
    /\ \A w \in ready_warps : w \in active /\ HasBlock(sm, w)

\* What has a request under way was issued, and its block is on an SM.
RequestInv ==
    \A w \in Warps : \A k \in Insts(w) : pending_request[w][k] > 0 =>
        k <= warp_point[w] /\ \E s \in SMs : HasBlock(s, w)

\* A block is in one place, was taken, and stays until it is not active.
HomeInv ==
    /\ \A s, t \in SMs : \A i \in DOMAIN block_vec[s], j \in DOMAIN block_vec[t] :
          block_vec[s][i] = block_vec[t][j] => s = t /\ i = j
    /\ \A s \in SMs : /\ Len(block_vec[s]) <= max_blocks
                      /\ \A i \in DOMAIN block_vec[s] : block_vec[s][i] < block_pointer
    /\ \A b \in Blocks : b < block_pointer /\ BlockActive(b) =>
          \E s \in SMs : b \in Range(block_vec[s])

DoneInv == \A w \in Warps : w \notin active => warp_point[w] = Len(m_insts[w])

\* While sm_active is FALSE the SMs that had their turn have nothing to do,
\* and at the end of the cycle these are all.
LoopInv ==
    /\ At("gpu_cycle", 0) => sm = 0
    /\ ~sm_active => \A s \in SMs : (s < sm \/ At("gpu_cycle", 0)) => ~SmActive(s)

\* An instruction with a request under way or in a unit is not complete,
\* unless it was completed too early.
WaitInv ==
    \A w \in Warps : \A k \in Insts(w) :
        /\ <<w, k>> \notin early
        /\ pending_request[w][k] > 0 \/ (\E s \in SMs : Holds(s, w, k))
        => k <= warp_point[w] /\ completions[w][k] = INT_MAX

\* Everything an issued instruction conflicts with is over, or was completed
\* too early itself.
SettledInv ==
    \A w \in Warps : \A k \in 1 .. warp_point[w] : \A j \in 1 .. k - 1 :
        Conflict(m_insts[w], j, k) => Settled(w, j) \/ <<w, j>> \in early

IInv == /\ TypeOK /\ UnitInv /\ CountInv /\ ReadyInv /\ RequestInv
        /\ HomeInv /\ DoneInv /\ LoopInv /\ WaitInv /\ SettledInv

-----------------------------------------------------------------------------
(* Least and greatest numbers.                                             *)

LEMMA Least ==
    ASSUME NEW S \in SUBSET Nat, S # {}
    PROVE  \E n \in S : \A m \in S : n <= m
<1>1. PICK n \in S : \A m \in S : ~ (<<m, n>> \in OpToRel(<, Nat))
  BY WFMin, NatLessThanWellFounded
<1>2. ASSUME NEW m \in S PROVE n <= m
  <2>1. ~ (m < n)
    BY <1>1 DEF OpToRel
  <2> QED BY <2>1
<1> QED BY <1>2

LEMMA MinIsIn ==
    ASSUME NEW S \in SUBSET Nat, S # {}
    PROVE  Min(S) \in S
<1>1. \E n \in S : \A m \in S : n <= m
  BY Least
<1> QED BY <1>1 DEF Min

\* The greatest number below a bound is the bound minus the least distance.
LEMMA MaxIsMax ==
    ASSUME NEW n \in Nat, NEW S \in SUBSET (1 .. n), S # {}
    PROVE  Max(S) \in S /\ \A m \in S : m <= Max(S)
<1> DEFINE D == {n - m : m \in S}
<1>1. D \in SUBSET Nat /\ D # {}
  <2>1. \A m \in S : n - m \in Nat
    OBVIOUS
  <2>2. PICK m \in S : TRUE
    OBVIOUS
  <2>3. n - m \in D
    BY <2>2
  <2> QED BY <2>1, <2>3, Zenon
<1>2. PICK d \in D : \A e \in D : d <= e
  BY <1>1, Least
<1>3. PICK x \in S : d = n - x
  BY <1>2
<1>4. \A m \in S : x >= m
  <2> SUFFICES ASSUME NEW m \in S PROVE x >= m
    OBVIOUS
  <2>1. d <= n - m
    BY <1>2
  <2> QED BY <1>3, <2>1
<1>5. Max(S) \in S /\ \A m \in S : Max(S) >= m
  BY <1>4 DEF Max
<1> QED BY <1>5

LEMMA MinOfTwo ==
    ASSUME NEW a \in Int, NEW b \in Int
    PROVE  Min({a, b}) = IF a <= b THEN a ELSE b
  BY DEF Min

LEMMA Constants ==
    /\ sm_num \in Nat /\ sm_num > 0 /\ grid_size \in Nat /\ grid_size > 0
    /\ max_blocks \in Nat /\ max_blocks > 0
    /\ active_sms \in Nat /\ active_sms > 0 /\ active_sms <= sm_num /\ active_sms <= grid_size
    /\ SMs = 0 .. sm_num - 1 /\ Blocks = 0 .. grid_size - 1
    /\ \A w \in Warps : w[1] \in Blocks /\ w[2] \in WarpIds /\ w = <<w[1], w[2]>>
    /\ \A w \in Warps : /\ m_insts[w] \in Seq(Inst) /\ Len(m_insts[w]) \in Nat
                        /\ Insts(w) = 1 .. Len(m_insts[w])
    /\ \A w \in Warps : \A k \in Insts(w) : m_insts[w][k] \in Inst
    /\ \A n \in UnitName : num_units[n] \in Nat /\ num_units[n] > 0
    /\ LDS \in UnitName /\ LdsUnits = 1 .. num_units[LDS] /\ 1 \in LdsUnits
<1>1. \A w \in Warps : /\ m_insts[w] \in Seq(Inst) /\ Len(m_insts[w]) \in Nat
                       /\ Insts(w) = 1 .. Len(m_insts[w])
  BY SmAssumption DEF Insts
<1>2. \A w \in Warps : \A k \in Insts(w) : m_insts[w][k] \in Inst
  BY <1>1
<1>3. \A w \in Warps : w[1] \in Blocks /\ w[2] \in WarpIds /\ w = <<w[1], w[2]>>
  BY DEF Warps
<1>4. \A n \in UnitName : num_units[n] \in Nat /\ num_units[n] > 0
  BY SmAssumption
<1> QED BY <1>1, <1>2, <1>3, <1>4, SmAssumption DEF active_sms, SMs, Blocks, LdsUnits

-----------------------------------------------------------------------------
(* The first blocks.                                                       *)

LEMMA Products ==
    ASSUME NEW a \in Nat, NEW i \in Nat, NEW j \in Nat, i <= j
    PROVE  i * a <= j * a /\ i * a \in Nat /\ (i + 1) * a = i * a + a
  OBVIOUS

\* Two numbers of SMs and rounds that give the same block are the same.
LEMMA Rounds ==
    ASSUME NEW a \in Nat, NEW s \in Nat, NEW t \in Nat, NEW i \in Nat, NEW j \in Nat,
           s < a, t < a, s + i * a = t + j * a
    PROVE  s = t /\ i = j
<1>1. CASE i < j
  <2>1. (i + 1) * a <= j * a /\ (i + 1) * a = i * a + a
    BY <1>1, Products
  <2>2. i * a \in Nat /\ j * a \in Nat
    BY Products
  <2> QED BY <2>1, <2>2
<1>2. CASE j < i
  <2>1. (j + 1) * a <= i * a /\ (j + 1) * a = j * a + a
    BY <1>2, Products
  <2>2. i * a \in Nat /\ j * a \in Nat
    BY Products
  <2> QED BY <2>1, <2>2
<1>3. CASE i = j
  <2>1. i * a \in Nat
    BY Products
  <2> QED BY <1>3, <2>1
<1> QED BY <1>1, <1>2, <1>3

\* Every number has such an SM and round.
LEMMA RoundOf ==
    ASSUME NEW a \in Nat, a > 0, NEW b \in Nat
    PROVE  \E i \in Nat, s \in 0 .. a - 1 : b = s + i * a
<1> DEFINE S == {i \in Nat : b < (i + 1) * a}
<1>1. b \in S
  <2>1. (b + 1) * a >= (b + 1) * 1
    BY Z3
  <2> QED BY <2>1
<1>2. PICK i \in S : \A j \in S : i <= j
  <2> HIDE DEF S
  <2>1. S \in SUBSET Nat
    BY DEF S
  <2> QED BY <1>1, <2>1, Least
<1>3. i * a <= b
  <2>1. CASE i = 0
    BY <2>1
  <2>2. CASE i > 0
    <3>1. i - 1 \in Nat /\ i - 1 \notin S
      BY <1>2, <2>2
    <3>2. ~ (b < (i - 1 + 1) * a)
      BY <3>1
    <3>3. i * a \in Nat /\ i - 1 + 1 = i
      BY Products
    <3> QED BY <3>2, <3>3
  <2> QED BY <2>1, <2>2
<1>4. b < i * a + a /\ i * a \in Nat
  BY Products
<1>5. b - i * a \in 0 .. a - 1 /\ b = (b - i * a) + i * a
  BY <1>3, <1>4
<1> QED BY <1>5

LEMMA FirstBlocksAre ==
    ASSUME NEW s \in SMs
    PROVE  /\ FirstBlocks(s) \in Seq(Blocks) /\ Len(FirstBlocks(s)) <= max_blocks
           /\ DOMAIN FirstBlocks(s) = {j \in 1 .. max_blocks :
                                          s < active_sms /\ s + (j - 1) * active_sms < grid_size}
           /\ \A i \in DOMAIN FirstBlocks(s) : FirstBlocks(s)[i] = s + (i - 1) * active_sms
<1> DEFINE Place(i) == s + (i - 1) * active_sms
           D == {j \in 1 .. max_blocks : s < active_sms /\ Place(j) < grid_size}
           f == [i \in D |-> Place(i)]
<1>0. FirstBlocks(s) = f
  BY DEF FirstBlocks
<1>1. \A i \in 1 .. max_blocks : Place(i) \in Nat
  BY Constants
<1>2. ASSUME NEW i \in 1 .. max_blocks, NEW j \in 1 .. max_blocks, i <= j PROVE Place(i) <= Place(j)
  <2>0. i - 1 \in Nat /\ j - 1 \in Nat /\ i - 1 <= j - 1 /\ active_sms \in Nat
    BY <1>2, Constants
  <2>1. (i - 1) * active_sms <= (j - 1) * active_sms
    BY <2>0, Products
  <2>2. (i - 1) * active_sms \in Nat /\ (j - 1) * active_sms \in Nat
    BY <2>0, Products
  <2> QED BY <2>1, <2>2, Constants
<1> HIDE DEF Place
<1> DEFINE S == {m \in Nat : m + 1 \notin D}
<1>3. PICK n \in S : \A m \in S : n <= m
  <2>1. max_blocks \in S
    BY Constants
  <2>2. S \in SUBSET Nat
    OBVIOUS
  <2> HIDE DEF S
  <2> QED BY <2>1, <2>2, Least
<1>4. D = 1 .. n /\ n \in Nat /\ n <= max_blocks
  <2>0. n \in Nat /\ n + 1 \notin D
    BY <1>3
  <2>1. ASSUME NEW j \in 1 .. n PROVE j \in D
    <3>1. j - 1 \in Nat /\ j - 1 \notin S
      BY <1>3
    <3> QED BY <3>1
  <2>2. ASSUME NEW j \in D PROVE j \in 1 .. n
    <3>1. CASE j <= n
      BY <2>0, <3>1
    <3>2. CASE j > n
      <4>1. n + 1 \in 1 .. max_blocks /\ n + 1 <= j
        BY <2>0, <3>2, Constants
      <4>2. Place(n + 1) <= Place(j) /\ Place(n + 1) \in Nat /\ Place(j) \in Nat
        BY <1>1, <1>2, <4>1
      <4> QED BY <2>0, <4>1, <4>2, Constants
    <3> QED BY <2>0, <3>1, <3>2
  <2>3. n \in D \/ n = 0
    BY <2>0, <2>1
  <2>4. D = 1 .. n
    <3> HIDE DEF D
    <3> QED BY <2>1, <2>2
  <2> QED BY <2>0, <2>3, <2>4, Constants
<1>5. \A i \in D : Place(i) \in Blocks
  BY <1>1, Constants
<1>6. f \in Seq(Blocks) /\ Len(f) = n
  <2> HIDE DEF D
  <2>1. f = [i \in 1 .. n |-> Place(i)]
    BY <1>4
  <2>2. \A i \in 1 .. n : Place(i) \in Blocks
    BY <1>4, <1>5
  <2> QED BY <1>4, <2>1, <2>2
<1>7. DOMAIN f = D /\ \A i \in D : f[i] = Place(i)
  OBVIOUS
<1>8. Len(f) <= max_blocks
  BY <1>4, <1>6
<1>9. /\ FirstBlocks(s) \in Seq(Blocks) /\ Len(FirstBlocks(s)) <= max_blocks
      /\ DOMAIN FirstBlocks(s) = D /\ \A i \in D : FirstBlocks(s)[i] = Place(i)
  <2> HIDE DEF f, D
  <2> QED BY <1>0, <1>6, <1>7, <1>8
<1> QED BY <1>9 DEF Place

\* The last block the first loop gives out.
LEMMA SpawnedBlocks ==
    /\ Cardinality(Spawned) \in 0 .. grid_size
    /\ \A b \in Blocks : b < Cardinality(Spawned) <=> b < active_sms * max_blocks
<1> DEFINE n == active_sms * max_blocks
           g == IF grid_size < n THEN grid_size ELSE n
<1>1. n \in Nat
  BY Constants
<1> HIDE DEF n
<1>2. g \in 0 .. grid_size /\ \A b \in Blocks : b < g <=> b < n
  BY <1>1, Constants
<1>3. Spawned = 0 .. g - 1
  BY <1>1, <1>2, Constants DEF Spawned, n
<1>4. Cardinality(0 .. g - 1) = g
  <2>1. g \in Int /\ g - 1 \in Int
    BY <1>2, Constants
  <2> HIDE DEF g
  <2>2. Cardinality(0 .. g - 1) = IF 0 > g - 1 THEN 0 ELSE g - 1 - 0 + 1
    BY <2>1, FS_Interval
  <2> QED BY <1>2, <2>2, Constants
<1> QED BY <1>2, <1>3, <1>4 DEF n

\* The first loop puts every block it gives out in one place.
LEMMA FirstHomes ==
    ASSUME block_vec = [s \in SMs |-> FirstBlocks(s)], block_pointer = Cardinality(Spawned)
    PROVE  HomeInv
<1>0. ASSUME NEW s \in SMs, NEW i \in DOMAIN block_vec[s]
      PROVE  /\ s \in Nat /\ i \in 1 .. max_blocks /\ i - 1 \in Nat /\ s < active_sms
             /\ block_vec[s][i] = s + (i - 1) * active_sms /\ block_vec[s][i] \in Blocks
  <2>1. block_vec[s] = FirstBlocks(s) /\ FirstBlocks(s) \in Seq(Blocks)
    BY FirstBlocksAre
  <2>2. i \in DOMAIN FirstBlocks(s) /\ FirstBlocks(s)[i] \in Blocks
    BY <2>1
  <2>3. i \in 1 .. max_blocks /\ s < active_sms /\ FirstBlocks(s)[i] = s + (i - 1) * active_sms
    BY <2>2, FirstBlocksAre
  <2>4. \A n \in SMs : n \in Nat
    BY Constants
  <2>5. \A n \in 1 .. max_blocks : n - 1 \in Nat
    BY Constants
  <2> QED BY <2>1, <2>2, <2>3, <2>4, <2>5
<1>1. ASSUME NEW s \in SMs, NEW t \in SMs, NEW i \in DOMAIN block_vec[s],
             NEW j \in DOMAIN block_vec[t], block_vec[s][i] = block_vec[t][j]
      PROVE  s = t /\ i = j
  <2>0. s + (i - 1) * active_sms = t + (j - 1) * active_sms
    BY <1>0, <1>1
  <2>1. s = t /\ i - 1 = j - 1
    <3>1. /\ s \in Nat /\ t \in Nat /\ i - 1 \in Nat /\ j - 1 \in Nat /\ active_sms \in Nat
          /\ s < active_sms /\ t < active_sms
      BY <1>0, Constants
    <3> QED BY <2>0, <3>1, Rounds
  <2>2. i \in Nat /\ j \in Nat
    BY <1>0
  <2> QED BY <2>1, <2>2
<1>2. ASSUME NEW s \in SMs
      PROVE  /\ Len(block_vec[s]) <= max_blocks
             /\ \A i \in DOMAIN block_vec[s] : block_vec[s][i] < block_pointer
  <2>1. Len(block_vec[s]) <= max_blocks
    BY FirstBlocksAre
  <2>2. ASSUME NEW i \in DOMAIN block_vec[s] PROVE block_vec[s][i] < block_pointer
    <3>1. /\ s \in Nat /\ i \in 1 .. max_blocks /\ i - 1 \in Nat /\ s < active_sms
          /\ block_vec[s][i] = s + (i - 1) * active_sms /\ block_vec[s][i] \in Blocks
      BY <1>0
    <3>0. i \in Nat /\ max_blocks \in Nat /\ i <= max_blocks /\ active_sms \in Nat
      BY <3>1, Constants
    <3>2. i * active_sms <= max_blocks * active_sms /\ i * active_sms \in Nat
      BY <3>0, Products
    <3>3. (i - 1 + 1) * active_sms = (i - 1) * active_sms + active_sms /\ (i - 1) * active_sms \in Nat
      BY <3>1, Constants, Products
    <3>4. i - 1 + 1 = i /\ max_blocks * active_sms = active_sms * max_blocks /\ max_blocks * active_sms \in Nat
      BY <3>0
    <3>5. s + (i - 1) * active_sms < active_sms * max_blocks
      <4> DEFINE p == (i - 1) * active_sms
                 q == i * active_sms
                 m == max_blocks * active_sms
      <4>1. p \in Nat /\ q \in Nat /\ m \in Nat /\ q <= m /\ q = p + active_sms /\ active_sms \in Nat
        BY <3>0, <3>2, <3>3, <3>4
      <4>2. m = active_sms * max_blocks
        BY <3>4
      <4> HIDE DEF p, q, m
      <4>3. s + p < m
        BY <3>1, <4>1
      <4> QED BY <4>2, <4>3 DEF p
    <3> QED BY <3>1, <3>5, SpawnedBlocks
  <2> QED BY <2>1, <2>2
<1>3. ASSUME NEW b \in Blocks, b < block_pointer
      PROVE  \E s \in SMs : b \in Range(block_vec[s])
  <2>1. b \in Nat /\ b < active_sms * max_blocks /\ b < grid_size
    BY <1>3, SpawnedBlocks, Constants
  <2>2. PICK r \in Nat, s \in 0 .. active_sms - 1 : b = s + r * active_sms
    BY <2>1, Constants, RoundOf
  <2>3. r < max_blocks
    <3>1. SUFFICES ASSUME max_blocks <= r PROVE FALSE
      BY <2>2, Constants
    <3>2. max_blocks * active_sms <= r * active_sms /\ r * active_sms \in Nat
      BY <3>1, Constants, Products
    <3>3. max_blocks * active_sms = active_sms * max_blocks /\ max_blocks * active_sms \in Nat
      BY Constants
    <3> QED BY <2>1, <2>2, <3>2, <3>3, Constants
  <2>4. s \in SMs /\ s < active_sms
    BY <2>2, Constants
  <2>5. PICK k \in 1 .. max_blocks : k - 1 = r
    <3>1. r + 1 \in 1 .. max_blocks /\ r + 1 - 1 = r
      BY <2>3, Constants
    <3> QED BY <3>1
  <2>6. k \in DOMAIN FirstBlocks(s) /\ FirstBlocks(s)[k] = b
    <3>1. s + (k - 1) * active_sms = b
      BY <2>2, <2>5
    <3>2. DOMAIN FirstBlocks(s) = {j \in 1 .. max_blocks :
                                      s < active_sms /\ s + (j - 1) * active_sms < grid_size}
      BY <2>4, FirstBlocksAre
    <3>3. k \in DOMAIN FirstBlocks(s)
      BY <2>1, <2>4, <3>1, <3>2
    <3>4. FirstBlocks(s)[k] = s + (k - 1) * active_sms
      BY <2>4, <3>3, FirstBlocksAre
    <3> QED BY <3>1, <3>3, <3>4
  <2>7. b \in Range(block_vec[s])
    BY <2>4, <2>6 DEF Range
  <2> QED BY <2>4, <2>7
<1> QED BY <1>1, <1>2, <1>3 DEF HomeInv

LEMMA InitInv == Init => IInv
<1> SUFFICES ASSUME Init PROVE IInv
  OBVIOUS
<1>0. /\ step = <<"sm_cycle", 0>> /\ sm = 0 /\ sm_active = FALSE /\ ready_warps = {}
      /\ block_pointer = Cardinality(Spawned) /\ block_vec = [s \in SMs |-> FirstBlocks(s)]
      /\ warp_point = [w \in Warps |-> 0] /\ active = Warps
      /\ completions = [w \in Warps |-> <<>>]
      /\ pending_request = [w \in Warps |-> [k \in Insts(w) |-> 0]]
      /\ m_pending_mem_request_num = [w \in Warps |-> 0]
      /\ pending_inst = [w \in Warps |-> 0]
      /\ ready_time = [s \in SMs |-> [n \in UnitName |-> [i \in 1 .. num_units[n] |-> 0]]]
      /\ unit = [s \in SMs |-> [u \in LdsUnits |-> NoInst]]
      /\ busy = FALSE /\ warp_executed = 0 /\ early = {}
  BY DEF Init
<1>1. NoInst \in Held /\ NoInst.w = None
  BY DEF NoInst, Held
<1>2. TypeOK
  <2>1. 0 \in SMs /\ block_pointer \in 0 .. grid_size
    BY <1>0, Constants, SpawnedBlocks
  <2>2. block_vec \in [SMs -> Seq(Blocks)]
    BY <1>0, FirstBlocksAre
  <2>3. \A w \in Warps : warp_point[w] <= Len(m_insts[w])
    BY <1>0, Constants
  <2>4. /\ completions \in [Warps -> Seq(Nat \cup {INT_MAX})]
        /\ \A w \in Warps : Len(completions[w]) = warp_point[w]
    BY <1>0
  <2>5. /\ DOMAIN pending_request = Warps
        /\ \A w \in Warps : pending_request[w] \in [Insts(w) -> Nat]
    BY <1>0
  <2>6. /\ DOMAIN ready_time = SMs
        /\ \A s \in SMs : /\ DOMAIN ready_time[s] = UnitName
                          /\ \A n \in UnitName : ready_time[s][n] \in [1 .. num_units[n] -> Int]
    BY <1>0
  <2>7. unit \in [SMs -> [LdsUnits -> Held]]
    BY <1>0, <1>1
  <2>8. /\ warp_point \in [Warps -> Nat] /\ m_pending_mem_request_num \in [Warps -> Nat]
        /\ pending_inst \in [Warps -> Nat] /\ warp_executed \in 0 .. num_warp_schedulers_per_SM
    BY <1>0, SmAssumption
  <2> QED BY <1>0, <2>1, <2>2, <2>3, <2>4, <2>5, <2>6, <2>7, <2>8 DEF TypeOK
<1>3. \A s \in SMs, u \in LdsUnits : unit[s][u].w = None
  BY <1>0, <1>1
<1>4. UnitInv
  BY <1>3 DEF UnitInv
<1>5. CountInv
  <2> SUFFICES ASSUME NEW w \in Warps
               PROVE  UnderWay(w) = {} /\ UnitsOf(w) = {}
    BY <1>0, FS_EmptySet DEF CountInv
  <2>1. UnderWay(w) = {}
    BY <1>0 DEF UnderWay
  <2>2. w # None
    BY SmAssumption
  <2> QED BY <1>3, <2>1, <2>2 DEF UnitsOf
<1>6. ReadyInv /\ RequestInv /\ DoneInv /\ SettledInv
  BY <1>0 DEF ReadyInv, RequestInv, DoneInv, SettledInv
<1>7. HomeInv
  BY <1>0, FirstHomes
<1>8. LoopInv
  BY <1>0, Constants DEF LoopInv, At
<1>9. WaitInv
  <2>1. \A w \in Warps : w # None
    BY SmAssumption
  <2> QED BY <1>0, <1>3, <2>1 DEF WaitInv, Holds
<1> QED BY <1>2, <1>4, <1>5, <1>6, <1>7, <1>8, <1>9 DEF IInv

-----------------------------------------------------------------------------
(* What follows from the invariant, and what steps have in common.         *)

\* Where the counters are zero there is nothing.
LEMMA Counted ==
    ASSUME CountInv, NEW w \in Warps
    PROVE  /\ m_pending_mem_request_num[w] \in Nat /\ pending_inst[w] \in Nat
           /\ \A k \in Insts(w), i \in Nat :
                 i \in 1 .. pending_request[w][k] => m_pending_mem_request_num[w] > 0
           /\ \A s \in SMs, u \in LdsUnits : unit[s][u].w = w => pending_inst[w] > 0
<1>1. /\ IsFiniteSet(UnderWay(w)) /\ m_pending_mem_request_num[w] = Cardinality(UnderWay(w))
      /\ IsFiniteSet(UnitsOf(w)) /\ pending_inst[w] = Cardinality(UnitsOf(w))
  BY DEF CountInv
<1>2. /\ Cardinality(UnderWay(w)) \in Nat /\ Cardinality(UnitsOf(w)) \in Nat
      /\ Cardinality(UnderWay(w)) = 0 => UnderWay(w) = {}
      /\ Cardinality(UnitsOf(w)) = 0 => UnitsOf(w) = {}
  BY <1>1, FS_CardinalityType, FS_EmptySet
<1>3. ASSUME NEW k \in Insts(w), NEW i \in Nat, i \in 1 .. pending_request[w][k]
      PROVE  m_pending_mem_request_num[w] > 0
  <2>1. <<k, i>> \in {k} \X (1 .. pending_request[w][k])
    BY <1>3
  <2>2. <<k, i>> \in UnderWay(w)
    BY <2>1 DEF UnderWay
  <2> QED BY <1>1, <1>2, <2>2
<1>4. ASSUME NEW s \in SMs, NEW u \in LdsUnits, unit[s][u].w = w PROVE pending_inst[w] > 0
  <2>1. <<s, u>> \in UnitsOf(w)
    BY <1>4 DEF UnitsOf
  <2> QED BY <1>1, <1>2, <2>1
<1> QED BY <1>1, <1>2, <1>3, <1>4

\* A block that is not active has nothing under way.
LEMMA InactiveIsQuiet ==
    ASSUME IInv, NEW w \in Warps, ~BlockActive(w[1])
    PROVE  Quiet(w) /\ w \notin active
<1>1. w \in WarpsOf(w[1])
  BY Constants DEF WarpsOf
<1>2. w \notin active /\ ~ (m_pending_mem_request_num[w] > 0) /\ ~ (pending_inst[w] > 0)
  BY <1>1 DEF BlockActive
<1>3. \A s \in SMs, u \in LdsUnits : unit[s][u].w # w
  BY <1>2, Counted DEF IInv
<1>4. ASSUME NEW k \in Insts(w) PROVE pending_request[w][k] = 0
  <2>1. pending_request[w][k] \in Nat
    BY DEF IInv, TypeOK
  <2>2. pending_request[w][k] > 0 => 1 \in 1 .. pending_request[w][k]
    BY <2>1
  <2>3. ~ (pending_request[w][k] > 0)
    BY <1>2, <2>2, Counted DEF IInv
  <2> QED BY <2>1, <2>3
<1> QED BY <1>2, <1>3, <1>4 DEF Quiet

\* No warp of a block becomes busy from nothing, so no block does.
LEMMA StaysInactive ==
    ASSUME active' \subseteq active,
           \A w \in Warps : m_pending_mem_request_num'[w] > 0 \/ pending_inst'[w] > 0 =>
               w \in active \/ m_pending_mem_request_num[w] > 0 \/ pending_inst[w] > 0
    PROVE  \A b \in Blocks : BlockActive(b)' => BlockActive(b)
<1> SUFFICES ASSUME NEW b \in Blocks, BlockActive(b)' PROVE BlockActive(b)
  OBVIOUS
<1>1. PICK w \in WarpsOf(b) : w \in active' \/ m_pending_mem_request_num'[w] > 0 \/ pending_inst'[w] > 0
  BY DEF BlockActive, WarpsOf
<1>2. w \in Warps
  BY DEF WarpsOf, Warps
<1> QED BY <1>1, <1>2 DEF BlockActive

\* Steps that leave the blocks where they are.
LEMMA HomesKept ==
    ASSUME HomeInv, UNCHANGED blockVars, \A b \in Blocks : BlockActive(b)' => BlockActive(b)
    PROVE  HomeInv'
<1>1. block_vec' = block_vec /\ block_pointer' = block_pointer
  BY DEF blockVars
<1> QED BY <1>1 DEF HomeInv

LEMMA LoopKept ==
    ASSUME TypeOK, LoopInv, sm' = sm, sm_active' = sm_active, UNCHANGED blockVars,
           \A b \in Blocks : BlockActive(b)' => BlockActive(b),
           ~At("gpu_cycle", 0)'
    PROVE  LoopInv'
<1>1. block_vec' = block_vec /\ block_pointer' = block_pointer
  BY DEF blockVars
<1>2. ASSUME NEW s \in SMs, SmActive(s)' PROVE SmActive(s)
  <2>1. \A b \in Range(block_vec[s]) : b \in Blocks
    <3>1. block_vec[s] \in Seq(Blocks)
      BY DEF TypeOK
    <3> QED BY <3>1 DEF Range
  <2> QED BY <1>1, <1>2, <2>1 DEF SmActive
<1> QED BY <1>2 DEF LoopInv

\* Steps that change nothing of the blocks, warps and units.
LEMMA StateKept ==
    ASSUME IInv, UNCHANGED <<blockVars, warpVars, unitVars>>
    PROVE  /\ UnitInv' /\ CountInv' /\ RequestInv' /\ HomeInv' /\ DoneInv' /\ WaitInv' /\ SettledInv'
           /\ \A s \in SMs : SmActive(s)' <=> SmActive(s)
<1>1. /\ block_vec' = block_vec /\ block_pointer' = block_pointer
      /\ warp_point' = warp_point /\ active' = active /\ completions' = completions
      /\ pending_request' = pending_request
      /\ m_pending_mem_request_num' = m_pending_mem_request_num /\ pending_inst' = pending_inst
      /\ ready_time' = ready_time /\ early' = early /\ unit' = unit /\ busy' = busy
  BY DEF blockVars, warpVars, unitVars
<1>2. \A b : BlockActive(b)' <=> BlockActive(b)
  BY <1>1 DEF BlockActive, WarpsOf
<1>3. UnitInv'
  BY <1>1 DEF IInv, UnitInv, HasBlock, Range
<1>4. CountInv'
  <2>1. \A w \in Warps : UnderWay(w)' = UnderWay(w) /\ UnitsOf(w)' = UnitsOf(w)
    BY <1>1 DEF UnderWay, UnitsOf
  <2> QED BY <1>1, <2>1 DEF IInv, CountInv
<1>5. RequestInv'
  BY <1>1 DEF IInv, RequestInv, HasBlock
<1>6. HomeInv'
  BY <1>2, HomesKept DEF IInv
<1>7. DoneInv'
  BY <1>1 DEF IInv, DoneInv
<1>8. WaitInv'
  BY <1>1 DEF IInv, WaitInv, Holds
<1>9. SettledInv'
  BY <1>1 DEF IInv, SettledInv, Settled, Holds
<1>10. \A s \in SMs : SmActive(s)' <=> SmActive(s)
  BY <1>1, <1>2 DEF SmActive
<1> QED BY <1>3, <1>4, <1>5, <1>6, <1>7, <1>8, <1>9, <1>10

-----------------------------------------------------------------------------
(* The loop of gpu_cycle.                                                  *)

LEMMA NextSmStep ==
    ASSUME IInv, NextSm, UNCHANGED <<blockVars, warpVars, unitVars, warp_executed>>,
           ready_warps' = {}
    PROVE  IInv'
<1>1. /\ UnitInv' /\ CountInv' /\ RequestInv' /\ HomeInv' /\ DoneInv' /\ WaitInv' /\ SettledInv'
      /\ \A s \in SMs : SmActive(s)' <=> SmActive(s)
  BY StateKept
<1>2. /\ block_vec' = block_vec /\ block_pointer' = block_pointer
      /\ warp_point' = warp_point /\ active' = active /\ completions' = completions
      /\ pending_request' = pending_request
      /\ m_pending_mem_request_num' = m_pending_mem_request_num /\ pending_inst' = pending_inst
      /\ ready_time' = ready_time /\ early' = early /\ unit' = unit /\ busy' = busy /\ warp_executed' = warp_executed
  BY DEF blockVars, warpVars, unitVars
<1>3. sm \in 0 .. sm_num - 1 /\ sm_num \in Nat
  BY Constants DEF IInv, TypeOK
<1>4. /\ sm_active' \in BOOLEAN
      /\ ~sm_active' => ~sm_active /\ ~SmActive(sm)
  BY DEF NextSm, SmActive
<1>5. \/ sm + 1 \in SMs /\ step' = <<"sm_cycle", 0>> /\ sm' = sm + 1
      \/ sm + 1 \notin SMs /\ step' = <<"gpu_cycle", 0>> /\ sm' = 0
  BY DEF NextSm, Goto
<1>6. sm' \in SMs
  BY <1>3, <1>5, Constants
<1>7. TypeOK'
  BY <1>2, <1>4, <1>6 DEF IInv, TypeOK
<1>8. ReadyInv'
  BY DEF ReadyInv
<1>9. LoopInv'
  <2>1. At("gpu_cycle", 0)' => sm' = 0
    BY <1>5 DEF At
  <2>2. ASSUME ~sm_active', NEW s \in SMs, s < sm' \/ At("gpu_cycle", 0)'
        PROVE  ~SmActive(s)
    <3>1. s \in 0 .. sm_num - 1 /\ (s < sm + 1 \/ ~ (sm + 1 \in 0 .. sm_num - 1))
      BY <1>3, <1>5, <2>2, Constants DEF At
    <3>2. s < sm \/ s = sm
      BY <1>3, <3>1
    <3>3. ~sm_active /\ ~SmActive(sm)
      BY <1>4, <2>2
    <3> QED BY <3>2, <3>3 DEF IInv, LoopInv
  <2> QED BY <1>1, <2>1, <2>2 DEF LoopInv
<1> QED BY <1>1, <1>7, <1>8, <1>9 DEF IInv

LEMMA SkipSmStep == ASSUME IInv, SkipSm PROVE IInv'
<1>1. ready_warps = {}
  BY DEF SkipSm, IInv, ReadyInv, At
<1>2. NextSm /\ UNCHANGED <<blockVars, warpVars, unitVars, warp_executed>> /\ ready_warps' = {}
  BY <1>1 DEF SkipSm, schedVars
<1> QED BY <1>2, NextSmStep

LEMMA ScheduleDoneStep == ASSUME IInv, schedule_done PROVE IInv'
<1>1. NextSm /\ UNCHANGED <<blockVars, warpVars, unitVars, warp_executed>> /\ ready_warps' = {}
  BY DEF schedule_done
<1> QED BY <1>1, NextSmStep

\* Another cycle, or nothing at all.
LEMMA NextCycleStep == ASSUME IInv, NextCycle \/ UNCHANGED vars PROVE IInv'
<1>1. UNCHANGED <<blockVars, warpVars, unitVars, schedVars, sm>>
  BY DEF NextCycle, vars
<1>2. /\ UnitInv' /\ CountInv' /\ RequestInv' /\ HomeInv' /\ DoneInv' /\ WaitInv' /\ SettledInv'
      /\ \A s \in SMs : SmActive(s)' <=> SmActive(s)
  BY <1>1, StateKept
<1>3. /\ block_vec' = block_vec /\ block_pointer' = block_pointer
      /\ warp_point' = warp_point /\ active' = active /\ completions' = completions
      /\ pending_request' = pending_request
      /\ m_pending_mem_request_num' = m_pending_mem_request_num /\ pending_inst' = pending_inst
      /\ ready_time' = ready_time /\ early' = early /\ unit' = unit /\ busy' = busy
      /\ warp_executed' = warp_executed /\ ready_warps' = ready_warps /\ sm' = sm
  BY <1>1 DEF blockVars, warpVars, unitVars, schedVars
<1>4. CASE NextCycle
  <2>1. At("gpu_cycle", 0) /\ sm_active' = FALSE /\ step' = <<"sm_cycle", 0>>
    BY <1>4 DEF NextCycle, Goto
  <2>2. sm = 0 /\ ready_warps = {}
    BY <2>1 DEF IInv, LoopInv, ReadyInv, At
  <2>3. TypeOK'
    BY <1>3, <2>1 DEF IInv, TypeOK
  <2>4. ReadyInv'
    BY <1>3, <2>2 DEF ReadyInv
  <2>5. LoopInv'
    BY <1>3, <2>1, <2>2, Constants DEF LoopInv, At
  <2> QED BY <1>2, <2>3, <2>4, <2>5 DEF IInv
<1>5. CASE UNCHANGED vars
  <2>1. step' = step /\ sm_active' = sm_active
    BY <1>5 DEF vars
  <2>2. TypeOK' /\ ReadyInv'
    BY <1>3, <2>1 DEF IInv, TypeOK, ReadyInv, At, HasBlock
  <2>3. LoopInv'
    BY <1>2, <1>3, <2>1 DEF IInv, LoopInv, At
  <2> QED BY <1>2, <2>2, <2>3 DEF IInv
<1> QED BY <1>4, <1>5

-----------------------------------------------------------------------------
(* sm_cycle.                                                               *)

\* The clock: what is over stays so, and INT_MAX is no time.
LEMMA ClockTicks ==
    ASSUME IInv, StartSm, NEW w \in Warps
    PROVE  /\ completions' \in [Warps -> Seq(Nat \cup {INT_MAX})]
           /\ Len(completions'[w]) = Len(completions[w])
           /\ \A k \in DOMAIN completions[w] :
                 /\ completions[w][k] = 0 => completions'[w][k] = 0
                 /\ completions[w][k] = INT_MAX => completions'[w][k] = INT_MAX
<1>1. completions' = [v \in Warps |-> IF HasBlock(sm, v)
                                      THEN [k \in DOMAIN completions[v] |-> Countdown(completions[v][k])]
                                      ELSE completions[v]]
  BY DEF StartSm
<1>2. \A v \in Warps : completions[v] \in Seq(Nat \cup {INT_MAX})
  BY DEF IInv, TypeOK
<1>3. ASSUME NEW d \in Nat \cup {INT_MAX}
      PROVE  /\ Countdown(d) \in Nat \cup {INT_MAX}
             /\ d = 0 => Countdown(d) = 0
             /\ d = INT_MAX => Countdown(d) = INT_MAX
  BY DEF Countdown
<1>4. ASSUME NEW v \in Warps
      PROVE  /\ completions'[v] \in Seq(Nat \cup {INT_MAX})
             /\ Len(completions'[v]) = Len(completions[v])
             /\ \A k \in DOMAIN completions[v] :
                   /\ completions[v][k] = 0 => completions'[v][k] = 0
                   /\ completions[v][k] = INT_MAX => completions'[v][k] = INT_MAX
  <2> DEFINE c == completions[v]
             d == [k \in DOMAIN c |-> Countdown(c[k])]
  <2>1. c \in Seq(Nat \cup {INT_MAX}) /\ DOMAIN c = 1 .. Len(c) /\ Len(c) \in Nat
    BY <1>2
  <2>2. \A k \in DOMAIN c : c[k] \in Nat \cup {INT_MAX}
    BY <2>1
  <2>3. \A k \in DOMAIN c : d[k] = Countdown(c[k])
    OBVIOUS
  <2>4. /\ \A k \in DOMAIN c : d[k] \in Nat \cup {INT_MAX}
        /\ \A k \in DOMAIN c : (c[k] = 0 => d[k] = 0) /\ (c[k] = INT_MAX => d[k] = INT_MAX)
    <3> HIDE DEF d, c
    <3> QED BY <1>3, <2>2, <2>3
  <2>5. DOMAIN d = 1 .. Len(c) /\ d = [k \in 1 .. Len(c) |-> d[k]]
    BY <2>1
  <2>6. d \in Seq(Nat \cup {INT_MAX}) /\ Len(d) = Len(c)
    <3> HIDE DEF d, c
    <3> QED BY <2>1, <2>4, <2>5
  <2>7. completions'[v] = d \/ completions'[v] = c
    BY <1>1
  <2> HIDE DEF d
  <2> QED BY <2>1, <2>4, <2>6, <2>7
<1>5. completions' \in [Warps -> Seq(Nat \cup {INT_MAX})]
  <2>1. completions' = [v \in Warps |-> completions'[v]]
    BY <1>1
  <2> QED BY <1>4, <2>1
<1> QED BY <1>4, <1>5

LEMMA StartSmStep == ASSUME IInv, StartSm PROVE IInv'
<1>1. /\ block_vec' = block_vec /\ block_pointer' = block_pointer
      /\ warp_point' = warp_point /\ active' = active
      /\ pending_request' = pending_request
      /\ m_pending_mem_request_num' = m_pending_mem_request_num /\ pending_inst' = pending_inst
      /\ early' = early /\ unit' = unit /\ busy' = FALSE /\ warp_executed' = warp_executed
      /\ ready_warps' = ready_warps /\ sm' = sm /\ sm_active' = sm_active
      /\ step' = <<"write_back", 0>> /\ step = <<"sm_cycle", 0>>
  BY DEF StartSm, blockVars, schedVars, At, Goto
<1>2. /\ completions' \in [Warps -> Seq(Nat \cup {INT_MAX})]
      /\ \A w \in Warps :
            /\ Len(completions'[w]) = warp_point[w]
            /\ \A k \in 1 .. warp_point[w] :
                  /\ completions[w][k] = 0 => completions'[w][k] = 0
                  /\ completions[w][k] = INT_MAX => completions'[w][k] = INT_MAX
  <2>1. PICK w \in Warps : TRUE
    <3>1. PICK x \in WarpIds : TRUE
      BY SmAssumption
    <3>2. <<0, x>> \in Warps
      BY <3>1, Constants DEF Warps
    <3> QED BY <3>2
  <2>2. completions' \in [Warps -> Seq(Nat \cup {INT_MAX})]
    BY ClockTicks, <2>1
  <2>3. ASSUME NEW v \in Warps
        PROVE  Len(completions[v]) = warp_point[v] /\ DOMAIN completions[v] = 1 .. warp_point[v]
    <3>1. completions[v] \in Seq(Nat \cup {INT_MAX}) /\ Len(completions[v]) = warp_point[v]
      BY DEF IInv, TypeOK
    <3> QED BY <3>1
  <2> QED BY ClockTicks, <2>2, <2>3
<1>3. /\ DOMAIN ready_time' = SMs
      /\ \A s \in SMs : /\ DOMAIN ready_time'[s] = UnitName
                        /\ \A n \in UnitName : ready_time'[s][n] \in [1 .. num_units[n] -> Int]
  <2>0. /\ sm \in SMs /\ DOMAIN ready_time = SMs /\ Lag \in Nat
        /\ \A s \in SMs : /\ DOMAIN ready_time[s] = UnitName
                          /\ \A n \in UnitName : ready_time[s][n] \in [1 .. num_units[n] -> Int]
    BY SmAssumption DEF IInv, TypeOK
  <2> DEFINE new == [n \in UnitName |-> [i \in DOMAIN ready_time[sm][n] |->
                        IF n = LDS /\ unit[sm][i].w # None THEN ready_time[sm][n][i]
                        ELSE IF ready_time[sm][n][i] > -Lag THEN ready_time[sm][n][i] - 1
                                                            ELSE ready_time[sm][n][i]]]
  <2>1. ready_time' = [ready_time EXCEPT ![sm] = new]
    BY DEF StartSm
  <2>2. DOMAIN new = UnitName /\ \A n \in UnitName : new[n] \in [1 .. num_units[n] -> Int]
    <3> SUFFICES ASSUME NEW n \in UnitName PROVE new[n] \in [1 .. num_units[n] -> Int]
      OBVIOUS
    <3> DEFINE r == ready_time[sm][n]
               held(i) == n = LDS /\ unit[sm][i].w # None
               f == [i \in DOMAIN r |-> IF held(i) THEN r[i] ELSE IF r[i] > -Lag THEN r[i] - 1 ELSE r[i]]
    <3>1. new[n] = f
      OBVIOUS
    <3>2. r \in [1 .. num_units[n] -> Int]
      BY <2>0
    <3> HIDE DEF r, held, new
    <3>3. f \in [1 .. num_units[n] -> Int]
      BY <2>0, <3>2
    <3> QED BY <3>1, <3>3
  <2> HIDE DEF new
  <2> QED BY <2>0, <2>1, <2>2
<1>4. TypeOK'
  BY <1>1, <1>2, <1>3 DEF IInv, TypeOK
<1>5. UnitInv'
  BY <1>1 DEF IInv, UnitInv, HasBlock
<1>6. CountInv'
  <2>1. \A w \in Warps : UnderWay(w)' = UnderWay(w) /\ UnitsOf(w)' = UnitsOf(w)
    BY <1>1 DEF UnderWay, UnitsOf
  <2> QED BY <1>1, <2>1 DEF IInv, CountInv
<1>7. ReadyInv'
  BY <1>1 DEF IInv, ReadyInv, At
<1>8. RequestInv' /\ DoneInv'
  BY <1>1 DEF IInv, RequestInv, DoneInv, HasBlock
<1>9. \A b \in Blocks : BlockActive(b)' => BlockActive(b)
  BY <1>1 DEF BlockActive, WarpsOf
<1>10. HomeInv' /\ LoopInv'
  <2>1. UNCHANGED blockVars /\ ~At("gpu_cycle", 0)'
    BY <1>1 DEF blockVars, At
  <2> QED BY <1>1, <1>9, <2>1, HomesKept, LoopKept DEF IInv
<1>11. WaitInv'
  <2> SUFFICES ASSUME NEW w \in Warps, NEW k \in Insts(w), <<w, k>> \notin early',
                      pending_request[w][k] > 0 \/ (\E s \in SMs : Holds(s, w, k))
               PROVE  k <= warp_point[w] /\ completions'[w][k] = INT_MAX
    BY <1>1 DEF WaitInv, Holds
  <2>1. k <= warp_point[w] /\ completions[w][k] = INT_MAX
    BY <1>1 DEF IInv, WaitInv
  <2>2. k \in 1 .. warp_point[w]
    <3>1. k \in 1 .. Len(m_insts[w]) /\ Len(m_insts[w]) \in Nat
      BY Constants
    <3>2. warp_point[w] \in Nat
      BY DEF IInv, TypeOK
    <3> QED BY <2>1, <3>1, <3>2
  <2> QED BY <1>2, <2>1, <2>2
<1>12. SettledInv'
  <2> SUFFICES ASSUME NEW w \in Warps, NEW k \in 1 .. warp_point[w],
                      NEW j \in 1 .. k - 1, Conflict(m_insts[w], j, k), <<w, j>> \notin early'
               PROVE  Settled(w, j)'
    BY <1>1 DEF SettledInv
  <2>1. Settled(w, j)
    BY <1>1 DEF IInv, SettledInv
  <2>2. j \in 1 .. warp_point[w]
    BY DEF IInv, TypeOK
  <2> QED BY <1>1, <1>2, <2>1, <2>2 DEF Settled, Holds
<1> QED BY <1>4, <1>5, <1>6, <1>7, <1>8, <1>10, <1>11, <1>12 DEF IInv

\* A warp is at home on one SM.
LEMMA OneHome ==
    ASSUME HomeInv, NEW w, NEW s \in SMs, NEW t \in SMs, HasBlock(s, w), HasBlock(t, w)
    PROVE  s = t
<1>1. PICK i \in DOMAIN block_vec[s] : block_vec[s][i] = w[1]
  BY DEF HasBlock, Range
<1>2. PICK j \in DOMAIN block_vec[t] : block_vec[t][j] = w[1]
  BY DEF HasBlock, Range
<1> QED BY <1>1, <1>2 DEF HomeInv

\* No more requests come back than are under way, and only those that may.
LEMMA BackBounds ==
    ASSUME IInv, NEW back \in Returns(sm), NEW w \in Warps, NEW k \in Insts(w)
    PROVE  /\ Back(back, w, k) \in Nat /\ Back(back, w, k) <= pending_request[w][k]
           /\ Back(back, w, k) > 0 => HasBlock(sm, w) /\ <<w, k>> \in DOMAIN back
<1>0. pending_request[w][k] \in Nat
  BY DEF IInv, TypeOK
<1>1. DOMAIN back = CanReturn(sm) /\ \A l \in CanReturn(sm) : back[l] <= pending_request[l[1]][l[2]]
  BY DEF Returns
<1>2. \A l \in CanReturn(sm) : back[l] \in Nat
  <2>1. \E most : back \in [CanReturn(sm) -> 0 .. most]
    BY Zenon DEF Returns
  <2>2. ASSUME NEW most, NEW n \in 0 .. most PROVE n \in Nat
    OBVIOUS
  <2> QED BY <2>1, <2>2
<1>3. CASE <<w, k>> \in CanReturn(sm)
  <2>1. Back(back, w, k) = back[<<w, k>>]
    BY <1>1, <1>3 DEF Back
  <2>2. HasBlock(sm, w)
    BY <1>3 DEF CanReturn
  <2> QED BY <1>1, <1>2, <1>3, <2>1, <2>2
<1>4. CASE <<w, k>> \notin CanReturn(sm)
  BY <1>0, <1>1, <1>4 DEF Back
<1> QED BY <1>3, <1>4

LEMMA WriteBackStep ==
    ASSUME IInv, NEW back \in Returns(sm), write_back(back)
    PROVE  IInv'
<1>1. /\ block_vec' = block_vec /\ block_pointer' = block_pointer
      /\ warp_point' = warp_point /\ active' = active /\ pending_inst' = pending_inst
      /\ ready_time' = ready_time /\ unit' = unit /\ busy' = busy
      /\ warp_executed' = warp_executed
      /\ ready_warps' = ready_warps /\ sm' = sm /\ sm_active' = sm_active
      /\ step' = <<"del_inactive_block", 0>> /\ step = <<"write_back", 0>>
      /\ early' = early \cup {l \in DOMAIN back : Completed(back, l[1], l[2]) /\ Holds(sm, l[1], l[2])}
  BY DEF write_back, blockVars, unitVars, schedVars, At, Goto
<1>2. /\ pending_request' = [w \in Warps |-> [k \in Insts(w) |-> pending_request[w][k] - Back(back, w, k)]]
      /\ completions' = [w \in Warps |-> [k \in DOMAIN completions[w] |->
                            IF Completed(back, w, k) THEN 1 ELSE completions[w][k]]]
      /\ m_pending_mem_request_num' = [w \in Warps |->
            m_pending_mem_request_num[w] - Cardinality(UnderWay(w) \ UnderWay(w)')]
  BY DEF write_back
<1>3. ASSUME NEW w \in Warps, NEW k \in Insts(w)
      PROVE  /\ pending_request[w][k] \in Nat /\ pending_request'[w][k] \in Nat
             /\ pending_request'[w][k] <= pending_request[w][k]
             /\ Completed(back, w, k) => pending_request[w][k] > 0 /\ pending_request'[w][k] = 0
  <2>1. pending_request[w][k] \in Nat
    BY DEF IInv, TypeOK
  <2>2. pending_request'[w][k] = pending_request[w][k] - Back(back, w, k)
    BY <1>2
  <2>3. Back(back, w, k) \in Nat /\ Back(back, w, k) <= pending_request[w][k]
    BY BackBounds
  <2> QED BY <2>1, <2>2, <2>3 DEF Completed
<1>4. ASSUME NEW w \in Warps
      PROVE  /\ IsFiniteSet(UnderWay(w)') /\ m_pending_mem_request_num'[w] = Cardinality(UnderWay(w)')
             /\ m_pending_mem_request_num'[w] \in Nat
             /\ m_pending_mem_request_num'[w] <= m_pending_mem_request_num[w]
  <2>1. ASSUME NEW x \in UnderWay(w)' PROVE x \in UnderWay(w)
    <3>1. PICK k \in Insts(w) : x \in {k} \X (1 .. pending_request'[w][k])
      BY DEF UnderWay
    <3>2. 1 .. pending_request'[w][k] \subseteq 1 .. pending_request[w][k]
      BY <1>3
    <3>3. x \in {k} \X (1 .. pending_request[w][k])
      BY <3>1, <3>2
    <3> QED BY <3>3 DEF UnderWay
  <2> DEFINE U == UnderWay(w)
             V == UnderWay(w)'
  <2>2. V \in SUBSET U /\ V = U \cap V
    BY <2>1
  <2>3. /\ IsFiniteSet(U) /\ m_pending_mem_request_num[w] = Cardinality(U)
        /\ m_pending_mem_request_num'[w] = m_pending_mem_request_num[w] - Cardinality(U \ V)
    BY <1>2 DEF IInv, CountInv
  <2> HIDE DEF U, V
  <2>4. IsFiniteSet(V) /\ Cardinality(V) <= Cardinality(U)
    BY <2>2, <2>3, FS_Subset
  <2>5. Cardinality(U \ V) = Cardinality(U) - Cardinality(U \cap V)
    BY <2>3, FS_Difference
  <2>6. Cardinality(U) \in Nat /\ Cardinality(V) \in Nat
    BY <2>3, <2>4, FS_CardinalityType
  <2>7. m_pending_mem_request_num'[w] = Cardinality(V)
    BY <2>2, <2>3, <2>5, <2>6
  <2> QED BY <2>3, <2>4, <2>6, <2>7 DEF U, V
<1>5. ASSUME NEW w \in Warps
      PROVE  /\ completions'[w] \in Seq(Nat \cup {INT_MAX}) /\ Len(completions'[w]) = warp_point[w]
             /\ \A k \in 1 .. warp_point[w] : completions'[w][k] =
                   IF Completed(back, w, k) THEN 1 ELSE completions[w][k]
  <2> DEFINE c == completions[w]
             n == warp_point[w]
             f == [k \in DOMAIN c |-> IF Completed(back, w, k) THEN 1 ELSE c[k]]
  <2>1. c \in Seq(Nat \cup {INT_MAX}) /\ Len(c) = n /\ n \in Nat
    BY DEF IInv, TypeOK
  <2>2. completions'[w] = f
    BY <1>2
  <2> HIDE DEF c, n
  <2>3. DOMAIN c = 1 .. n /\ \A k \in 1 .. n : c[k] \in Nat \cup {INT_MAX}
    BY <2>1
  <2>4. f = [k \in 1 .. n |-> IF Completed(back, w, k) THEN 1 ELSE c[k]]
    BY <2>3
  <2>5. f \in Seq(Nat \cup {INT_MAX}) /\ Len(f) = n
    BY <2>1, <2>3, <2>4
  <2> QED BY <2>2, <2>4, <2>5 DEF c, n
<1>6. TypeOK'
  <2>1. completions' \in [Warps -> Seq(Nat \cup {INT_MAX})]
    <3>1. completions' = [w \in Warps |-> completions'[w]]
      BY <1>2
    <3> QED BY <1>5, <3>1
  <2>2. /\ DOMAIN pending_request' = Warps
        /\ \A w \in Warps : pending_request'[w] \in [Insts(w) -> Nat]
    <3>1. DOMAIN pending_request' = Warps
      BY <1>2
    <3>2. ASSUME NEW w \in Warps PROVE pending_request'[w] \in [Insts(w) -> Nat]
      <4>1. pending_request'[w] = [k \in Insts(w) |-> pending_request'[w][k]]
        BY <1>2
      <4> QED BY <1>3, <4>1
    <3> QED BY <3>1, <3>2
  <2>3. m_pending_mem_request_num' \in [Warps -> Nat]
    <3>1. m_pending_mem_request_num' = [w \in Warps |-> m_pending_mem_request_num'[w]]
      BY <1>2
    <3> QED BY <1>4, <3>1
  <2>4. \A w \in Warps : Len(completions'[w]) = warp_point'[w]
    BY <1>1, <1>5
  <2>5. \A l \in early' : \E w \in Warps : l \in {w} \X Insts(w)
    <3> SUFFICES ASSUME NEW l \in early', l \notin early
                 PROVE  \E w \in Warps : l \in {w} \X Insts(w)
      BY DEF IInv, TypeOK
    <3>1. l \in DOMAIN back
      BY <1>1
    <3>2. DOMAIN back = CanReturn(sm)
      BY DEF Returns
    <3> QED BY <3>1, <3>2 DEF CanReturn
  <2> QED BY <1>1, <2>1, <2>2, <2>3, <2>4, <2>5 DEF IInv, TypeOK
<1>7. UnitInv'
  BY <1>1 DEF IInv, UnitInv, HasBlock
<1>8. CountInv'
  <2>1. \A w \in Warps : UnitsOf(w)' = UnitsOf(w)
    BY <1>1 DEF UnitsOf
  <2> QED BY <1>1, <1>4, <2>1 DEF IInv, CountInv
<1>9. ReadyInv' /\ DoneInv'
  BY <1>1 DEF IInv, ReadyInv, DoneInv, At
<1>10. RequestInv'
  <2>1. \A w \in Warps : \A k \in Insts(w) : pending_request'[w][k] > 0 => pending_request[w][k] > 0
    BY <1>3
  <2> QED BY <1>1, <2>1 DEF IInv, RequestInv, HasBlock
<1>11. \A b \in Blocks : BlockActive(b)' => BlockActive(b)
  <2>1. ASSUME NEW w \in Warps, m_pending_mem_request_num'[w] > 0
        PROVE  m_pending_mem_request_num[w] > 0
    <3>1. m_pending_mem_request_num[w] \in Nat
      BY DEF IInv, TypeOK
    <3> QED BY <1>4, <2>1, <3>1
  <2> QED BY <1>1, <2>1, StaysInactive
<1>12. HomeInv' /\ LoopInv'
  <2>1. UNCHANGED blockVars /\ ~At("gpu_cycle", 0)'
    BY <1>1 DEF blockVars, At
  <2> QED BY <1>1, <1>11, <2>1, HomesKept, LoopKept DEF IInv
<1>13. WaitInv'
  <2>0. ASSUME NEW w \in Warps, NEW k \in Insts(w), Completed(back, w, k)
        PROVE  HasBlock(sm, w) /\ (Holds(sm, w, k) => <<w, k>> \in early')
    <3>1. HasBlock(sm, w) /\ <<w, k>> \in DOMAIN back
      BY <2>0, BackBounds DEF Completed
    <3> QED BY <1>1, <2>0, <3>1
  <2> SUFFICES ASSUME NEW w \in Warps, NEW k \in Insts(w), <<w, k>> \notin early',
                      pending_request'[w][k] > 0 \/ (\E s \in SMs : Holds(s, w, k))
               PROVE  k <= warp_point[w] /\ completions'[w][k] = INT_MAX
    BY <1>1 DEF WaitInv, Holds
  <2>1. k <= warp_point[w] /\ completions[w][k] = INT_MAX
    BY <1>1, <1>3 DEF IInv, WaitInv
  <2>2. k \in 1 .. warp_point[w]
    <3>1. k \in 1 .. Len(m_insts[w]) /\ Len(m_insts[w]) \in Nat
      BY Constants
    <3>2. warp_point[w] \in Nat
      BY DEF IInv, TypeOK
    <3> QED BY <2>1, <3>1, <3>2
  <2>3. ~Completed(back, w, k)
    <3> SUFFICES ASSUME Completed(back, w, k) PROVE FALSE
      OBVIOUS
    <3>1. pending_request'[w][k] = 0 /\ HasBlock(sm, w) /\ ~Holds(sm, w, k)
      BY <1>3, <2>0
    <3>2. PICK s \in SMs : Holds(s, w, k)
      BY <3>1
    <3>3. PICK u \in LdsUnits : unit[s][u].w = w
      BY <3>2 DEF Holds
    <3>4. HasBlock(s, w)
      BY <3>3, SmAssumption DEF IInv, UnitInv
    <3>5. s = sm
      BY <3>1, <3>4, OneHome DEF IInv, TypeOK
    <3> QED BY <3>1, <3>2, <3>5
  <2> QED BY <1>5, <2>1, <2>2, <2>3
<1>14. SettledInv'
  <2> SUFFICES ASSUME NEW w \in Warps, NEW k \in 1 .. warp_point[w],
                      NEW j \in 1 .. k - 1, Conflict(m_insts[w], j, k), <<w, j>> \notin early'
               PROVE  Settled(w, j)'
    BY <1>1 DEF SettledInv
  <2>1. Settled(w, j)
    BY <1>1 DEF IInv, SettledInv
  <2>2. warp_point[w] \in Nat /\ warp_point[w] <= Len(m_insts[w])
    BY DEF IInv, TypeOK
  <2>3. j \in 1 .. warp_point[w] /\ j \in Insts(w)
    <3>1. Len(m_insts[w]) \in Nat /\ Insts(w) = 1 .. Len(m_insts[w])
      BY Constants
    <3> QED BY <2>2, <3>1
  <2>4. pending_request[w][j] = 0
    BY <2>1 DEF Settled
  <2>5. pending_request'[w][j] = 0 /\ ~Completed(back, w, j)
    BY <1>3, <2>3, <2>4
  <2> QED BY <1>1, <1>5, <2>1, <2>3, <2>5 DEF Settled, Holds
<1> QED BY <1>6, <1>7, <1>8, <1>9, <1>10, <1>12, <1>13, <1>14 DEF IInv

\* What is under way keeps its block active.
LEMMA UnderWayIsActive ==
    ASSUME IInv, NEW w \in Warps
    PROVE  /\ \A s \in SMs, u \in LdsUnits : unit[s][u].w = w => BlockActive(w[1])
           /\ \A k \in Insts(w) : pending_request[w][k] > 0 => BlockActive(w[1])
<1>1. w \in WarpsOf(w[1])
  BY Constants DEF WarpsOf
<1>2. ASSUME NEW s \in SMs, NEW u \in LdsUnits, unit[s][u].w = w PROVE BlockActive(w[1])
  <2>1. pending_inst[w] > 0
    BY <1>2, Counted DEF IInv
  <2> QED BY <1>1, <2>1 DEF BlockActive
<1>3. ASSUME NEW k \in Insts(w), pending_request[w][k] > 0 PROVE BlockActive(w[1])
  <2>1. pending_request[w][k] \in Nat
    BY DEF IInv, TypeOK
  <2>2. 1 \in 1 .. pending_request[w][k]
    BY <1>3, <2>1
  <2>3. m_pending_mem_request_num[w] > 0
    BY <2>2, Counted DEF IInv
  <2> QED BY <1>1, <2>3 DEF BlockActive
<1> QED BY <1>2, <1>3

\* The blocks that are removed are those that are not active; the others
\* keep their SM, and two of them their two places.
LEMMA BlocksRemoved ==
    ASSUME IInv, del_inactive_block
    PROVE  /\ block_vec' \in [SMs -> Seq(Blocks)]
           /\ \A s \in SMs : Len(block_vec'[s]) <= Len(block_vec[s])
           /\ \A s \in SMs : \E f \in [DOMAIN block_vec'[s] -> DOMAIN block_vec[s]] :
                 /\ \A i, j \in DOMAIN block_vec'[s] : i # j => f[i] # f[j]
                 /\ \A i \in DOMAIN block_vec'[s] : block_vec'[s][i] = block_vec[s][f[i]]
           /\ \A s \in SMs : \A b : b \in Range(block_vec'[s]) <=>
                 b \in Range(block_vec[s]) /\ (s = sm => BlockActive(b))
<1> DEFINE v == block_vec[sm]
           K == {i \in DOMAIN v : BlockActive(v[i])}
<1>1. /\ block_vec \in [SMs -> Seq(Blocks)] /\ sm \in SMs
      /\ v \in Seq(Blocks) /\ Len(v) \in Nat /\ DOMAIN v = 1 .. Len(v)
  BY DEF IInv, TypeOK
<1>2. PICK f \in InOrder(K) : block_vec' = [block_vec EXCEPT ![sm] = [i \in DOMAIN f |-> v[f[i]]]]
  BY DEF del_inactive_block
<1>3. /\ f \in [1 .. Cardinality(K) -> K] /\ Range(f) = K
      /\ \A i, j \in DOMAIN f : i < j => f[i] < f[j]
  BY <1>2 DEF InOrder
<1>4. Cardinality(K) \in Nat /\ Cardinality(K) <= Len(v)
  <2>1. K \in SUBSET (1 .. Len(v))
    BY <1>1
  <2>2. IsFiniteSet(1 .. Len(v)) /\ Cardinality(1 .. Len(v)) = Len(v)
    <3> HIDE DEF v
    <3>1. ASSUME NEW l \in Nat PROVE IsFiniteSet(1 .. l) /\ Cardinality(1 .. l) = l
      <4>1. IsFiniteSet(1 .. l) /\ Cardinality(1 .. l) = IF 1 > l THEN 0 ELSE l - 1 + 1
        BY FS_Interval
      <4> QED BY <4>1
    <3> QED BY <1>1, <3>1
  <2> HIDE DEF K, v
  <2>3. IsFiniteSet(K) /\ Cardinality(K) <= Len(v)
    BY <2>1, <2>2, FS_Subset
  <2> QED BY <2>3, FS_CardinalityType
<1> DEFINE n == Cardinality(K)
           g == [i \in 1 .. n |-> v[f[i]]]
<1>5. DOMAIN f = 1 .. n /\ \A i \in 1 .. n : f[i] \in DOMAIN v /\ BlockActive(v[f[i]]) /\ f[i] \in Nat
  BY <1>1, <1>3
<1>6. \A i, j \in 1 .. n : i # j => f[i] # f[j]
  <2> HIDE DEF n, K
  <2> SUFFICES ASSUME NEW i \in 1 .. n, NEW j \in 1 .. n, i # j PROVE f[i] # f[j]
    OBVIOUS
  <2>1. i < j \/ j < i
    BY <1>4 DEF n
  <2> QED BY <1>3, <1>5, <2>1
<1>7. g \in Seq(Blocks) /\ Len(g) = n /\ DOMAIN g = 1 .. n
  <2>1. \A i \in 1 .. n : v[f[i]] \in Blocks
    BY <1>1, <1>5
  <2>2. n \in Nat
    BY <1>4
  <2> HIDE DEF n, v
  <2> QED BY <2>1, <2>2
<1>8. block_vec' = [block_vec EXCEPT ![sm] = g]
  BY <1>2, <1>5
<1>9. \A b : b \in Range(g) <=> b \in Range(v) /\ BlockActive(b)
  <2>1. ASSUME NEW b \in Range(g) PROVE b \in Range(v) /\ BlockActive(b)
    <3>1. PICK i \in 1 .. n : b = v[f[i]]
      BY DEF Range
    <3> QED BY <1>5, <3>1 DEF Range
  <2>2. ASSUME NEW b \in Range(v), BlockActive(b) PROVE b \in Range(g)
    <3>1. PICK i \in DOMAIN v : b = v[i]
      BY DEF Range
    <3>2. i \in K
      BY <2>2, <3>1
    <3>3. i \in Range(f)
      BY <1>3, <3>2
    <3>4. PICK j \in 1 .. n : f[j] = i
      BY <1>5, <3>3 DEF Range
    <3>5. g[j] = b
      BY <3>1, <3>4
    <3> HIDE DEF g
    <3> QED BY <1>7, <3>4, <3>5 DEF Range
  <2> QED BY <2>1, <2>2
<1> HIDE DEF g
<1>10. ASSUME NEW s \in SMs, s # sm PROVE block_vec'[s] = block_vec[s]
  BY <1>1, <1>8, <1>10
<1>11. block_vec'[sm] = g /\ block_vec' \in [SMs -> Seq(Blocks)]
  BY <1>1, <1>7, <1>8
<1>12. ASSUME NEW s \in SMs
       PROVE  /\ Len(block_vec'[s]) <= Len(block_vec[s])
              /\ \E h \in [DOMAIN block_vec'[s] -> DOMAIN block_vec[s]] :
                    /\ \A i, j \in DOMAIN block_vec'[s] : i # j => h[i] # h[j]
                    /\ \A i \in DOMAIN block_vec'[s] : block_vec'[s][i] = block_vec[s][h[i]]
              /\ \A b : b \in Range(block_vec'[s]) <=>
                    b \in Range(block_vec[s]) /\ (s = sm => BlockActive(b))
  <2>1. CASE s = sm
    <3>1. f \in [DOMAIN g -> DOMAIN v]
      BY <1>3, <1>5, <1>7
    <3>2. \A i \in DOMAIN g : g[i] = v[f[i]]
      BY <1>7 DEF g
    <3>3. \A i, j \in DOMAIN g : i # j => f[i] # f[j]
      BY <1>6, <1>7
    <3>4. Len(g) <= Len(v)
      BY <1>4, <1>7
    <3>5. block_vec'[s] = g /\ block_vec[s] = v
      BY <1>11, <2>1
    <3> HIDE DEF n, v
    <3>6. \E h \in [DOMAIN g -> DOMAIN v] :
             /\ \A i, j \in DOMAIN g : i # j => h[i] # h[j]
             /\ \A i \in DOMAIN g : g[i] = v[h[i]]
      BY <3>1, <3>2, <3>3
    <3> QED BY <1>9, <2>1, <3>4, <3>5, <3>6
  <2>2. CASE s # sm
    <3>1. block_vec'[s] = block_vec[s]
      BY <1>10, <2>2
    <3>2. block_vec[s] \in Seq(Blocks) /\ Len(block_vec[s]) <= Len(block_vec[s])
      BY <1>1
    <3> DEFINE h == [i \in DOMAIN block_vec[s] |-> i]
    <3>3. /\ h \in [DOMAIN block_vec[s] -> DOMAIN block_vec[s]]
          /\ \A i \in DOMAIN block_vec[s] : h[i] = i
      OBVIOUS
    <3> HIDE DEF h
    <3> QED BY <2>2, <3>1, <3>2, <3>3
  <2> QED BY <2>1, <2>2
<1> QED BY <1>11, <1>12

LEMMA DelStep == ASSUME IInv, del_inactive_block PROVE IInv'
<1>1. /\ block_pointer' = block_pointer
      /\ warp_point' = warp_point /\ active' = active /\ completions' = completions
      /\ pending_request' = pending_request
      /\ m_pending_mem_request_num' = m_pending_mem_request_num /\ pending_inst' = pending_inst
      /\ ready_time' = ready_time /\ early' = early /\ unit' = unit /\ busy' = busy
      /\ warp_executed' = warp_executed /\ ready_warps' = ready_warps
      /\ sm' = sm /\ sm_active' = sm_active
      /\ step' = <<"unit_cycle", 1>> /\ step = <<"del_inactive_block", 0>>
  BY DEF del_inactive_block, warpVars, unitVars, schedVars, At, Goto
<1>2. /\ block_vec' \in [SMs -> Seq(Blocks)]
      /\ \A s \in SMs : Len(block_vec'[s]) <= Len(block_vec[s])
      /\ \A s \in SMs : \A b : b \in Range(block_vec'[s]) <=>
            b \in Range(block_vec[s]) /\ (s = sm => BlockActive(b))
  BY BlocksRemoved
<1>3. TypeOK'
  BY <1>1, <1>2 DEF IInv, TypeOK
<1>4. UnitInv'
  <2> SUFFICES ASSUME NEW s \in SMs, NEW u \in LdsUnits, unit[s][u].w # None
               PROVE  /\ unit[s][u].k \in 1 .. warp_point[unit[s][u].w] /\ unit[s][u].left > 0
                      /\ HasBlock(s, unit[s][u].w)'
    BY <1>1 DEF UnitInv, HasBlock
  <2>1. /\ unit[s][u].k \in 1 .. warp_point[unit[s][u].w] /\ HasBlock(s, unit[s][u].w)
        /\ unit[s][u].left > 0 /\ unit[s][u].w \in Warps
    BY DEF IInv, UnitInv, TypeOK, Held
  <2>2. BlockActive(unit[s][u].w[1])
    BY <2>1, UnderWayIsActive
  <2> QED BY <1>1, <1>2, <2>1, <2>2 DEF HasBlock
<1>5. CountInv'
  <2>1. \A w \in Warps : UnderWay(w)' = UnderWay(w) /\ UnitsOf(w)' = UnitsOf(w)
    BY <1>1 DEF UnderWay, UnitsOf
  <2> QED BY <1>1, <2>1 DEF IInv, CountInv
<1>6. ReadyInv' /\ DoneInv'
  BY <1>1 DEF IInv, ReadyInv, DoneInv, At
<1>7. RequestInv'
  <2> SUFFICES ASSUME NEW w \in Warps, NEW k \in Insts(w), pending_request[w][k] > 0
               PROVE  k <= warp_point[w] /\ \E s \in SMs : HasBlock(s, w)'
    BY <1>1 DEF RequestInv, HasBlock
  <2>1. k <= warp_point[w] /\ \E s \in SMs : HasBlock(s, w)
    BY DEF IInv, RequestInv
  <2>2. BlockActive(w[1])
    BY UnderWayIsActive
  <2> QED BY <1>2, <2>1, <2>2 DEF HasBlock
<1>8. \A b : BlockActive(b)' <=> BlockActive(b)
  BY <1>1 DEF BlockActive, WarpsOf
<1>9. HomeInv'
  <2>1. ASSUME NEW s \in SMs, NEW t \in SMs, NEW i \in DOMAIN block_vec'[s],
               NEW j \in DOMAIN block_vec'[t], block_vec'[s][i] = block_vec'[t][j]
        PROVE  s = t /\ i = j
    <3>1. PICK f \in [DOMAIN block_vec'[s] -> DOMAIN block_vec[s]] :
             /\ \A x, y \in DOMAIN block_vec'[s] : x # y => f[x] # f[y]
             /\ \A x \in DOMAIN block_vec'[s] : block_vec'[s][x] = block_vec[s][f[x]]
      BY BlocksRemoved
    <3>2. PICK g \in [DOMAIN block_vec'[t] -> DOMAIN block_vec[t]] :
             \A x \in DOMAIN block_vec'[t] : block_vec'[t][x] = block_vec[t][g[x]]
      BY BlocksRemoved
    <3>3. f[i] \in DOMAIN block_vec[s] /\ g[j] \in DOMAIN block_vec[t]
      BY <3>1, <3>2
    <3>4. block_vec[s][f[i]] = block_vec[t][g[j]]
      BY <2>1, <3>1, <3>2
    <3>5. s = t
      BY <3>3, <3>4 DEF IInv, HomeInv
    <3>6. f[j] \in DOMAIN block_vec[s] /\ block_vec[s][f[i]] = block_vec[s][f[j]]
      BY <2>1, <3>1, <3>5
    <3>7. f[i] = f[j]
      BY <3>3, <3>6 DEF IInv, HomeInv
    <3> QED BY <3>1, <3>5, <3>7
  <2>2. ASSUME NEW s \in SMs
        PROVE  /\ Len(block_vec'[s]) <= max_blocks
               /\ \A i \in DOMAIN block_vec'[s] : block_vec'[s][i] < block_pointer
    <3>1. Len(block_vec'[s]) <= max_blocks
      <4>1. Len(block_vec[s]) \in Nat /\ Len(block_vec'[s]) \in Nat /\ Len(block_vec[s]) <= max_blocks
        BY <1>2 DEF IInv, TypeOK, HomeInv
      <4> QED BY <1>2, <4>1, Constants
    <3>2. PICK f \in [DOMAIN block_vec'[s] -> DOMAIN block_vec[s]] :
             \A x \in DOMAIN block_vec'[s] : block_vec'[s][x] = block_vec[s][f[x]]
      BY BlocksRemoved
    <3> QED BY <3>1, <3>2 DEF IInv, HomeInv
  <2>3. ASSUME NEW b \in Blocks, b < block_pointer, BlockActive(b)
        PROVE  \E s \in SMs : b \in Range(block_vec'[s])
    BY <1>2, <2>3 DEF IInv, HomeInv
  <2> QED BY <1>1, <1>8, <2>1, <2>2, <2>3 DEF HomeInv
<1>10. LoopInv'
  <2>1. ASSUME NEW s \in SMs, SmActive(s)' PROVE SmActive(s)
    BY <1>1, <1>2, <1>8, <2>1 DEF SmActive
  <2> QED BY <1>1, <2>1 DEF IInv, LoopInv, At
<1>11. WaitInv'
  BY <1>1 DEF IInv, WaitInv, Holds
<1>12. SettledInv'
  BY <1>1 DEF IInv, SettledInv, Settled, Holds
<1> QED BY <1>3, <1>4, <1>5, <1>6, <1>7, <1>9, <1>10, <1>11, <1>12 DEF IInv

LEMMA Concatenated ==
    ASSUME NEW S, NEW v \in Seq(S), NEW t \in Seq(S)
    PROVE  /\ v \o t \in Seq(S) /\ Len(v \o t) = Len(v) + Len(t)
           /\ \A i \in 1 .. Len(v) : (v \o t)[i] = v[i]
           /\ \A i \in 1 .. Len(t) : (v \o t)[Len(v) + i] = t[i]
<1>1. v \o t \in Seq(S)
  OBVIOUS
<1>2. Len(v \o t) = Len(v) + Len(t)
  OBVIOUS
<1>3. \A i \in 1 .. Len(v) : (v \o t)[i] = v[i]
  OBVIOUS
<1>4. ASSUME NEW i \in 1 .. Len(t) PROVE (v \o t)[Len(v) + i] = t[i]
  <2>1. Len(v) \in Nat /\ Len(t) \in Nat /\ Len(v) + i \in 1 .. Len(v) + Len(t)
    OBVIOUS
  <2>2. ~(Len(v) + i <= Len(v)) /\ Len(v) + i - Len(v) = i
    BY <2>1
  <2> QED BY <2>1, <2>2
<1> QED BY <1>1, <1>2, <1>3, <1>4

\* The SM gets the blocks from block_pointer on, behind those it has.
LEMMA BlocksTaken ==
    ASSUME IInv, take_blocks
    PROVE  \E n \in Nat :
           /\ block_pointer' = block_pointer + n /\ block_pointer' <= grid_size
           /\ block_vec' \in [SMs -> Seq(Blocks)]
           /\ \A s \in SMs : s # sm => block_vec'[s] = block_vec[s]
           /\ Len(block_vec'[sm]) = Len(block_vec[sm]) + n /\ Len(block_vec'[sm]) <= max_blocks
           /\ \A i \in 1 .. Len(block_vec[sm]) : block_vec'[sm][i] = block_vec[sm][i]
           /\ \A i \in 1 .. n : block_vec'[sm][Len(block_vec[sm]) + i] = block_pointer + i - 1
<1> DEFINE v == block_vec[sm]
           n == Taken
           t == [i \in 1 .. n |-> block_pointer + i - 1]
<1>1. /\ block_vec \in [SMs -> Seq(Blocks)] /\ sm \in SMs
      /\ v \in Seq(Blocks) /\ Len(v) \in Nat /\ Len(v) <= max_blocks
      /\ block_pointer \in Nat /\ block_pointer <= grid_size
  BY Constants DEF IInv, TypeOK, HomeInv
<1>2. n \in Nat /\ n <= max_blocks - Len(v) /\ n <= grid_size - block_pointer
  <2>1. max_blocks - Len(v) \in Nat /\ grid_size - block_pointer \in Nat
    BY <1>1, Constants
  <2> DEFINE a == max_blocks - Len(v)
             b == grid_size - block_pointer
  <2>2. n = Min({a, b})
    BY DEF Taken
  <2>3. a \in Nat /\ b \in Nat
    BY <2>1
  <2> HIDE DEF a, b, n
  <2>4. n = IF a <= b THEN a ELSE b
    BY <2>2, <2>3, MinOfTwo
  <2> QED BY <2>3, <2>4 DEF a, b
<1>3. /\ block_vec' = [block_vec EXCEPT ![sm] = v \o t]
      /\ block_pointer' = block_pointer + n
  BY DEF take_blocks
<1> HIDE DEF n, v
<1>4. t \in Seq(Blocks) /\ Len(t) = n
  <2>1. \A i \in 1 .. n : block_pointer + i - 1 \in Blocks
    BY <1>1, <1>2, Constants
  <2>2. t \in [1 .. n -> Blocks] /\ DOMAIN t = 1 .. n
    BY <2>1
  <2> HIDE DEF t
  <2> QED BY <1>2, <2>2
<1>5. \A i \in 1 .. n : t[i] = block_pointer + i - 1
  OBVIOUS
<1> HIDE DEF t
<1>6. /\ v \o t \in Seq(Blocks) /\ Len(v \o t) = Len(v) + n
      /\ \A i \in 1 .. Len(v) : (v \o t)[i] = v[i]
      /\ \A i \in 1 .. n : (v \o t)[Len(v) + i] = t[i]
  <2>1. /\ v \o t \in Seq(Blocks) /\ Len(v \o t) = Len(v) + Len(t)
        /\ \A i \in 1 .. Len(v) : (v \o t)[i] = v[i]
        /\ \A i \in 1 .. Len(t) : (v \o t)[Len(v) + i] = t[i]
    <3>1. v \in Seq(Blocks) /\ t \in Seq(Blocks)
      BY <1>1, <1>4
    <3> QED BY <3>1, Concatenated
  <2> QED BY <1>4, <2>1
<1>7. block_vec' \in [SMs -> Seq(Blocks)] /\ block_vec'[sm] = v \o t
  BY <1>1, <1>3, <1>6
<1>8. \A s \in SMs : s # sm => block_vec'[s] = block_vec[s]
  BY <1>1, <1>3
<1>9. block_pointer' <= grid_size /\ Len(block_vec'[sm]) <= max_blocks
  <2>1. grid_size \in Nat /\ max_blocks \in Nat
    BY Constants
  <2>2. block_pointer' = block_pointer + n /\ Len(block_vec'[sm]) = Len(v) + n
    BY <1>3, <1>6, <1>7
  <2> QED BY <1>1, <1>2, <2>1, <2>2
<1>10. /\ Len(block_vec'[sm]) = Len(v) + n
       /\ \A i \in 1 .. Len(v) : block_vec'[sm][i] = v[i]
       /\ \A i \in 1 .. n : block_vec'[sm][Len(v) + i] = block_pointer + i - 1
  BY <1>5, <1>6, <1>7
<1> QED BY <1>2, <1>3, <1>7, <1>8, <1>9, <1>10 DEF v

LEMMA TakeStep == ASSUME IInv, take_blocks PROVE IInv'
<1>1. /\ warp_point' = warp_point /\ active' = active /\ completions' = completions
      /\ pending_request' = pending_request
      /\ m_pending_mem_request_num' = m_pending_mem_request_num /\ pending_inst' = pending_inst
      /\ ready_time' = ready_time /\ early' = early /\ unit' = unit /\ busy' = busy
      /\ warp_executed' = 0 /\ ready_warps' = ActiveWarps(block_vec'[sm])
      /\ sm' = sm /\ sm_active' = sm_active
      /\ step' = <<"schedule_warp", 0>> /\ step = <<"take_blocks", 0>>
  BY DEF take_blocks, warpVars, unitVars, At, Goto
<1>2. PICK n \in Nat :
         /\ block_pointer' = block_pointer + n /\ block_pointer' <= grid_size
         /\ block_vec' \in [SMs -> Seq(Blocks)]
         /\ \A s \in SMs : s # sm => block_vec'[s] = block_vec[s]
         /\ Len(block_vec'[sm]) = Len(block_vec[sm]) + n /\ Len(block_vec'[sm]) <= max_blocks
         /\ \A i \in 1 .. Len(block_vec[sm]) : block_vec'[sm][i] = block_vec[sm][i]
         /\ \A i \in 1 .. n : block_vec'[sm][Len(block_vec[sm]) + i] = block_pointer + i - 1
  BY BlocksTaken
<1> DEFINE l == Len(block_vec[sm])
<1>3. /\ sm \in SMs /\ l \in Nat /\ block_pointer \in Nat
      /\ \A s \in SMs : /\ block_vec[s] \in Seq(Blocks) /\ block_vec'[s] \in Seq(Blocks)
                        /\ DOMAIN block_vec[s] = 1 .. Len(block_vec[s])
                        /\ DOMAIN block_vec'[s] = 1 .. Len(block_vec'[s])
  BY <1>2, Constants DEF IInv, TypeOK
<1>4. DOMAIN block_vec'[sm] = 1 .. l + n /\ DOMAIN block_vec[sm] = 1 .. l
  BY <1>2, <1>3
<1> HIDE DEF l
<1>5. ASSUME NEW s \in SMs, NEW b \in Range(block_vec[s]) PROVE b \in Range(block_vec'[s])
  <2>1. PICK i \in DOMAIN block_vec[s] : b = block_vec[s][i]
    BY DEF Range
  <2>2. i \in DOMAIN block_vec'[s] /\ block_vec'[s][i] = b
    <3>1. CASE s = sm
      BY <1>2, <1>3, <1>4, <2>1, <3>1 DEF l
    <3>2. CASE s # sm
      BY <1>2, <2>1, <3>2
    <3> QED BY <3>1, <3>2
  <2> QED BY <2>2 DEF Range
<1>6. \A s \in SMs : \A w : HasBlock(s, w) => HasBlock(s, w)'
  BY <1>5 DEF HasBlock
<1>7. ready_warps' \in SUBSET active' /\ \A w \in ready_warps' : HasBlock(sm, w)'
  BY <1>1 DEF ActiveWarps, HasBlock
<1>8. TypeOK'
  <2>1. ready_warps' \in SUBSET Warps
    BY <1>1, <1>7 DEF IInv, TypeOK
  <2>2. block_pointer' \in 0 .. grid_size
    BY <1>2, <1>3, Constants
  <2>3. warp_executed' \in 0 .. num_warp_schedulers_per_SM
    BY <1>1, SmAssumption
  <2> QED BY <1>1, <1>2, <2>1, <2>2, <2>3 DEF IInv, TypeOK
<1>9. UnitInv'
  BY <1>1, <1>6 DEF IInv, UnitInv
<1>10. CountInv'
  <2>1. \A w \in Warps : UnderWay(w)' = UnderWay(w) /\ UnitsOf(w)' = UnitsOf(w)
    BY <1>1 DEF UnderWay, UnitsOf
  <2> QED BY <1>1, <2>1 DEF IInv, CountInv
<1>11. ReadyInv'
  BY <1>1, <1>7 DEF ReadyInv, At, HasBlock
<1>12. RequestInv' /\ DoneInv'
  BY <1>1, <1>6 DEF IInv, RequestInv, DoneInv
<1>13. \A b : BlockActive(b)' <=> BlockActive(b)
  BY <1>1 DEF BlockActive, WarpsOf
<1>14. ASSUME NEW s \in SMs, NEW i \in DOMAIN block_vec'[s]
       PROVE  \/ i \in DOMAIN block_vec[s] /\ block_vec'[s][i] = block_vec[s][i]
                 /\ block_vec[s][i] < block_pointer
              \/ s = sm /\ i - l \in 1 .. n /\ block_vec'[s][i] = block_pointer + (i - l) - 1
  <2>1. CASE s # sm
    BY <1>2, <2>1 DEF IInv, HomeInv
  <2>2. CASE s = sm /\ i <= l
    <3>1. i \in 1 .. l
      BY <1>3, <1>4, <2>2
    <3> QED BY <1>2, <1>4, <2>2, <3>1 DEF IInv, HomeInv, l
  <2>3. CASE s = sm /\ ~(i <= l)
    <3>1. i - l \in 1 .. n /\ l + (i - l) = i
      BY <1>3, <1>4, <2>3
    <3> QED BY <1>2, <2>3, <3>1 DEF l
  <2> QED BY <2>1, <2>2, <2>3
<1>15. HomeInv'
  <2>1. ASSUME NEW s \in SMs, NEW u \in SMs, NEW i \in DOMAIN block_vec'[s],
               NEW j \in DOMAIN block_vec'[u], block_vec'[s][i] = block_vec'[u][j]
        PROVE  s = u /\ i = j
    <3>0. i \in Nat /\ j \in Nat
      BY <1>3
    <3>1. CASE /\ i \in DOMAIN block_vec[s] /\ block_vec'[s][i] = block_vec[s][i]
               /\ j \in DOMAIN block_vec[u] /\ block_vec'[u][j] = block_vec[u][j]
      <4>1. block_vec[s][i] = block_vec[u][j]
        BY <2>1, <3>1
      <4> QED BY <3>1, <4>1 DEF IInv, HomeInv
    <3>2. CASE /\ s = sm /\ i - l \in 1 .. n /\ block_vec'[s][i] = block_pointer + (i - l) - 1
               /\ u = sm /\ j - l \in 1 .. n /\ block_vec'[u][j] = block_pointer + (j - l) - 1
      BY <1>3, <2>1, <3>0, <3>2
    <3>3. \A k \in Nat : k - l \in 1 .. n => ~(block_pointer + (k - l) - 1 < block_pointer)
      BY <1>3
    <3> QED BY <1>14, <2>1, <3>0, <3>1, <3>2, <3>3
  <2>2. ASSUME NEW s \in SMs
        PROVE  /\ Len(block_vec'[s]) <= max_blocks
               /\ \A i \in DOMAIN block_vec'[s] : block_vec'[s][i] < block_pointer'
    <3>1. Len(block_vec'[s]) <= max_blocks
      BY <1>2 DEF IInv, HomeInv
    <3>2. ASSUME NEW i \in DOMAIN block_vec'[s] PROVE block_vec'[s][i] < block_pointer'
      <4>1. i \in Nat
        BY <1>3
      <4>2. block_pointer \in Nat /\ block_pointer' = block_pointer + n /\ n \in Nat
        BY <1>2, <1>3
      <4>3. CASE block_vec'[s][i] = block_vec[s][i] /\ i \in DOMAIN block_vec[s]
        <5>1. block_vec[s][i] \in Blocks /\ block_vec[s][i] < block_pointer
          BY <1>3, <4>3 DEF IInv, HomeInv
        <5>2. block_vec[s][i] \in Nat
          BY <5>1, Constants
        <5> QED BY <4>2, <4>3, <5>1, <5>2
      <4>4. CASE i - l \in 1 .. n /\ block_vec'[s][i] = block_pointer + (i - l) - 1
        BY <1>3, <4>1, <4>2, <4>4
      <4> QED BY <1>14, <4>3, <4>4
    <3> QED BY <3>1, <3>2
  <2>3. ASSUME NEW b \in Blocks, b < block_pointer', BlockActive(b)
        PROVE  \E s \in SMs : b \in Range(block_vec'[s])
    <3>1. CASE b < block_pointer
      BY <1>5, <2>3, <3>1 DEF IInv, HomeInv
    <3>2. CASE ~(b < block_pointer)
      <4>1. /\ b - block_pointer + 1 \in 1 .. n /\ b = block_pointer + (b - block_pointer + 1) - 1
            /\ l + (b - block_pointer + 1) \in 1 .. l + n
        <5>1. b \in Nat /\ b < block_pointer + n
          BY <1>2, <2>3, Constants
        <5> QED BY <1>3, <3>2, <5>1
      <4>2. block_vec'[sm][l + (b - block_pointer + 1)] = b
        BY <1>2, <4>1 DEF l
      <4>3. b \in Range(block_vec'[sm])
        BY <1>4, <4>1, <4>2 DEF Range
      <4> QED BY <1>3, <4>3
    <3> QED BY <3>1, <3>2
  <2> QED BY <1>13, <2>1, <2>2, <2>3 DEF HomeInv
<1>16. LoopInv'
  <2>1. ASSUME ~sm_active, NEW s \in SMs, s < sm PROVE ~SmActive(s)'
    <3>1. ~SmActive(s) /\ s # sm
      BY <1>3, <2>1, Constants DEF IInv, LoopInv
    <3>2. ~ (block_pointer < grid_size)
      BY <3>1 DEF SmActive
    <3>3. ~ (block_pointer' < grid_size)
      BY <1>2, <1>3, <3>2, Constants
    <3> QED BY <1>2, <1>13, <3>1, <3>3 DEF SmActive
  <2> QED BY <1>1, <2>1 DEF LoopInv, At
<1>17. WaitInv'
  BY <1>1 DEF IInv, WaitInv, Holds
<1>18. SettledInv'
  BY <1>1 DEF IInv, SettledInv, Settled, Holds
<1> QED BY <1>8, <1>9, <1>10, <1>11, <1>12, <1>15, <1>16, <1>17, <1>18 DEF IInv

-----------------------------------------------------------------------------
(* The LDS units.                                                          *)

\* What unit_cycle leaves alone.
LEMMA UnitFrame ==
    ASSUME IInv, NEW u \in LdsUnits, unit_cycle(u)
    PROVE  /\ block_vec' = block_vec /\ block_pointer' = block_pointer
           /\ warp_point' = warp_point /\ active' = active /\ completions' = completions
           /\ early' = early
           /\ warp_executed' = warp_executed /\ ready_warps' = ready_warps /\ ready_warps = {}
           /\ sm' = sm /\ sm_active' = sm_active
           /\ ~At("gpu_cycle", 0)' /\ UNCHANGED blockVars
           /\ ReadyInv' /\ DoneInv'
<1>1. /\ block_vec' = block_vec /\ block_pointer' = block_pointer
      /\ warp_point' = warp_point /\ active' = active /\ completions' = completions
      /\ early' = early
      /\ warp_executed' = warp_executed /\ ready_warps' = ready_warps
      /\ sm' = sm /\ sm_active' = sm_active
      /\ step = <<"unit_cycle", u>> /\ step'[1] \in {"unit_cycle", "take_blocks"}
  BY DEF unit_cycle, NextUnit, Goto, At, blockVars, schedVars
<1>2. ready_warps = {}
  BY <1>1 DEF IInv, ReadyInv, At
<1> QED BY <1>1, <1>2 DEF ReadyInv, DoneInv, IInv, At, blockVars

LEMMA UnitWaitsStep ==
    ASSUME IInv, NEW u \in LdsUnits, unit_cycle(u), UnitWaits(u)
    PROVE  IInv'
<1>0. /\ block_vec' = block_vec /\ block_pointer' = block_pointer
      /\ warp_point' = warp_point /\ active' = active /\ completions' = completions
      /\ early' = early
      /\ warp_executed' = warp_executed /\ ready_warps' = ready_warps
      /\ sm' = sm /\ sm_active' = sm_active
      /\ ~At("gpu_cycle", 0)' /\ UNCHANGED blockVars /\ ReadyInv' /\ DoneInv'
  BY UnitFrame
<1>1. /\ pending_request' = pending_request
      /\ m_pending_mem_request_num' = m_pending_mem_request_num /\ pending_inst' = pending_inst
      /\ ready_time' = ready_time /\ busy' = busy
      /\ unit' = [unit EXCEPT ![sm][u].unit_latency = IF @ > 0 THEN @ - 1 ELSE 0]
  BY DEF UnitWaits
<1>2. sm \in SMs /\ unit \in [SMs -> [LdsUnits -> Held]]
  BY DEF IInv, TypeOK
<1> DEFINE h == unit[sm][u]
           g == [h EXCEPT !.unit_latency = IF @ > 0 THEN @ - 1 ELSE 0]
<1>3. /\ g \in Held /\ g.w = h.w /\ g.k = h.k /\ g.left = h.left
      /\ unit' = [unit EXCEPT ![sm] = [unit[sm] EXCEPT ![u] = g]]
  <2>1. h \in Held
    BY <1>2
  <2>2. g \in Held /\ g.w = h.w /\ g.k = h.k /\ g.left = h.left
    <3> HIDE DEF h
    <3> QED BY <2>1 DEF Held
  <2> QED BY <1>1, <1>2, <2>2
<1> HIDE DEF g
<1>4. unit' \in [SMs -> [LdsUnits -> Held]]
  BY <1>2, <1>3
<1>5. \A s \in SMs, x \in LdsUnits : /\ unit'[s][x].w = unit[s][x].w /\ unit'[s][x].k = unit[s][x].k
                                     /\ unit'[s][x].left = unit[s][x].left
  BY <1>2, <1>3
<1>6. TypeOK'
  BY <1>0, <1>1, <1>4 DEF IInv, TypeOK
<1>7. UnitInv'
  BY <1>0, <1>5 DEF IInv, UnitInv, HasBlock
<1>8. CountInv'
  <2>1. \A w \in Warps : UnderWay(w)' = UnderWay(w) /\ UnitsOf(w)' = UnitsOf(w)
    BY <1>1, <1>5 DEF UnderWay, UnitsOf
  <2> QED BY <1>1, <2>1 DEF IInv, CountInv
<1>9. RequestInv'
  BY <1>0, <1>1 DEF IInv, RequestInv, HasBlock
<1>10. HomeInv' /\ LoopInv'
  <2>1. \A b \in Blocks : BlockActive(b)' => BlockActive(b)
    BY <1>0, <1>1 DEF BlockActive, WarpsOf
  <2> QED BY <1>0, <2>1, HomesKept, LoopKept DEF IInv
<1>11. \A s \in SMs : \A w, k : Holds(s, w, k)' <=> Holds(s, w, k)
  BY <1>5 DEF Holds
<1>12. WaitInv'
  BY <1>0, <1>1, <1>11 DEF IInv, WaitInv
<1>13. SettledInv'
  BY <1>0, <1>1, <1>11 DEF IInv, SettledInv, Settled
<1> QED BY <1>0, <1>6, <1>7, <1>8, <1>9, <1>10, <1>12, <1>13 DEF IInv

\* The unit after it made a request.
LEMMA UnitAfterRequest ==
    ASSUME IInv, NEW u \in LdsUnits, MakeRequest(u)
    PROVE  LET h == unit[sm][u] IN
           /\ h.w \in Warps /\ h.k \in Insts(h.w) /\ h.k <= warp_point[h.w] /\ HasBlock(sm, h.w)
           /\ unit' \in [SMs -> [LdsUnits -> Held]]
           /\ \A s \in SMs, x \in LdsUnits : <<s, x>> # <<sm, u>> => unit'[s][x] = unit[s][x]
           /\ IF h.left = 1 THEN unit'[sm][u].w = None
              ELSE /\ unit'[sm][u].w = h.w /\ unit'[sm][u].k = h.k
                   /\ unit'[sm][u].left > 0
<1> DEFINE h == unit[sm][u]
           g == IF h.left = 1 THEN NoInst ELSE [h EXCEPT !.left = h.left - 1]
<1>1. sm \in SMs /\ unit \in [SMs -> [LdsUnits -> Held]]
  BY DEF IInv, TypeOK
<1>2. h \in Held /\ h.w # None /\ h.w \in Warps
  <2>1. h \in Held /\ h.w # None
    BY <1>1 DEF MakeRequest
  <2> HIDE DEF h
  <2> QED BY <2>1 DEF Held
<1>3. h.k \in 1 .. warp_point[h.w] /\ h.left > 0 /\ HasBlock(sm, h.w)
  BY <1>1, <1>2 DEF IInv, UnitInv
<1>4. h.k \in Insts(h.w) /\ h.k <= warp_point[h.w]
  <2> HIDE DEF h
  <2>1. warp_point[h.w] \in Nat /\ warp_point[h.w] <= Len(m_insts[h.w])
    BY <1>2 DEF IInv, TypeOK
  <2>2. Insts(h.w) = 1 .. Len(m_insts[h.w]) /\ Len(m_insts[h.w]) \in Nat
    BY <1>2, Constants
  <2> QED BY <1>3, <2>1, <2>2
<1>5. unit' = [unit EXCEPT ![sm] = [unit[sm] EXCEPT ![u] = g]]
  BY <1>1 DEF MakeRequest
<1>6. /\ g \in Held
      /\ IF h.left = 1 THEN g.w = None ELSE g.w = h.w /\ g.k = h.k /\ g.left > 0
  <2> HIDE DEF h
  <2>1. CASE h.left = 1
    BY <2>1 DEF NoInst, Held
  <2>2. CASE h.left # 1
    <3>1. h.left - 1 \in Nat /\ h.left - 1 > 0
      BY <1>2, <1>3, <2>2 DEF Held
    <3> QED BY <1>2, <2>2, <3>1 DEF Held
  <2> QED BY <2>1, <2>2
<1> HIDE DEF g
<1>7. unit' \in [SMs -> [LdsUnits -> Held]]
  BY <1>1, <1>5, <1>6
<1>8. \A s \in SMs, x \in LdsUnits : <<s, x>> # <<sm, u>> => unit'[s][x] = unit[s][x]
  BY <1>1, <1>5
<1>9. unit'[sm][u] = g
  BY <1>1, <1>5
<1> QED BY <1>2, <1>3, <1>4, <1>6, <1>7, <1>8, <1>9

\* The counters of the warp after it.
LEMMA RequestCounted ==
    ASSUME IInv, NEW u \in LdsUnits, MakeRequest(u), NEW w \in Warps
    PROVE  LET h == unit[sm][u] IN
           /\ pending_request'[w] \in [Insts(w) -> Nat]
           /\ \A k \in Insts(w) : ~(w = h.w /\ k = h.k) => pending_request'[w][k] = pending_request[w][k]
           /\ IsFiniteSet(UnderWay(w)') /\ m_pending_mem_request_num'[w] = Cardinality(UnderWay(w)')
           /\ IsFiniteSet(UnitsOf(w)') /\ pending_inst'[w] = Cardinality(UnitsOf(w)')
           /\ w # h.w => /\ m_pending_mem_request_num'[w] = m_pending_mem_request_num[w]
                         /\ pending_inst'[w] = pending_inst[w]
<1> DEFINE h == unit[sm][u]
           p == pending_request[h.w][h.k]
<1>0. sm \in SMs
  BY DEF IInv, TypeOK
<1>1. /\ h.w \in Warps /\ h.k \in Insts(h.w) /\ HasBlock(sm, h.w)
      /\ \A s \in SMs, x \in LdsUnits : <<s, x>> # <<sm, u>> => unit'[s][x] = unit[s][x]
      /\ IF h.left = 1 THEN unit'[sm][u].w = None ELSE unit'[sm][u].w = h.w
  BY UnitAfterRequest
<1>2. /\ pending_request' = [pending_request EXCEPT ![h.w][h.k] = @ + 1]
      /\ m_pending_mem_request_num' = [m_pending_mem_request_num EXCEPT ![h.w] = @ + 1]
      /\ pending_inst' = IF h.left = 1 THEN [pending_inst EXCEPT ![h.w] = @ - 1] ELSE pending_inst
  BY DEF MakeRequest
<1> HIDE DEF h
<1>3. /\ DOMAIN pending_request = Warps /\ pending_request[w] \in [Insts(w) -> Nat]
      /\ pending_request[h.w] \in [Insts(h.w) -> Nat]
      /\ m_pending_mem_request_num \in [Warps -> Nat] /\ pending_inst \in [Warps -> Nat]
  BY <1>1 DEF IInv, TypeOK
<1>4. /\ IsFiniteSet(UnderWay(w)) /\ m_pending_mem_request_num[w] = Cardinality(UnderWay(w))
      /\ IsFiniteSet(UnitsOf(w)) /\ pending_inst[w] = Cardinality(UnitsOf(w))
      /\ Cardinality(UnderWay(w)) \in Nat /\ Cardinality(UnitsOf(w)) \in Nat
  BY FS_CardinalityType DEF IInv, CountInv
<1>5. CASE w = h.w
  <2>1. pending_request'[w] = [pending_request[w] EXCEPT ![h.k] = @ + 1]
    BY <1>1, <1>2, <1>3, <1>5
  <2>2. p \in Nat /\ pending_request'[w][h.k] = p + 1 /\ pending_request'[w] \in [Insts(w) -> Nat]
    BY <1>1, <1>3, <1>5, <2>1
  <2>3. \A k \in Insts(w) : k # h.k => pending_request'[w][k] = pending_request[w][k]
    BY <1>3, <2>1
  <2> HIDE DEF p
  <2>4. UnderWay(w)' = UnderWay(w) \cup {<<h.k, p + 1>>}
    <3>1. UnderWay(w)' = UNION {{k} \X (1 .. pending_request'[w][k]) : k \in Insts(w)}
      BY DEF UnderWay
    <3>2. ASSUME NEW k \in Insts(w), NEW x
          PROVE  x \in {k} \X (1 .. pending_request'[w][k]) <=>
                    x \in {k} \X (1 .. pending_request[w][k]) \/ (k = h.k /\ x = <<h.k, p + 1>>)
      <4>1. CASE k # h.k
        BY <2>3, <4>1
      <4>2. CASE k = h.k
        <5>1. 1 .. pending_request'[w][k] = (1 .. pending_request[w][k]) \cup {p + 1}
          BY <1>5, <2>2, <4>2 DEF p
        <5> QED BY <4>2, <5>1
      <4> QED BY <4>1, <4>2
    <3>3. ASSUME NEW x
          PROVE  x \in UnderWay(w)' <=> x \in UnderWay(w) \/ x = <<h.k, p + 1>>
      <4>1. x \in UnderWay(w) <=> \E k \in Insts(w) : x \in {k} \X (1 .. pending_request[w][k])
        BY DEF UnderWay
      <4>2. x \in UnderWay(w)' <=> \E k \in Insts(w) : x \in {k} \X (1 .. pending_request'[w][k])
        BY <3>1
      <4>3. h.k \in Insts(w)
        BY <1>1, <1>5
      <4> QED BY <3>2, <4>1, <4>2, <4>3
    <3> QED BY <3>3
  <2>5. <<h.k, p + 1>> \notin UnderWay(w)
    <3> SUFFICES ASSUME <<h.k, p + 1>> \in UnderWay(w) PROVE FALSE
      OBVIOUS
    <3>1. PICK k \in Insts(w) : <<h.k, p + 1>> \in {k} \X (1 .. pending_request[w][k])
      BY DEF UnderWay
    <3>2. k = h.k /\ p + 1 \in 1 .. p
      BY <1>5, <3>1 DEF p
    <3> QED BY <2>2, <3>2
  <2>6. IsFiniteSet(UnderWay(w)') /\ Cardinality(UnderWay(w)') = Cardinality(UnderWay(w)) + 1
    <3> DEFINE U == UnderWay(w)
               x == <<h.k, p + 1>>
    <3>1. IsFiniteSet(U)
      BY <1>4
    <3>2. x \notin U /\ UnderWay(w)' = U \cup {x}
      BY <2>4, <2>5
    <3> HIDE DEF U, x
    <3>3. IsFiniteSet(U \cup {x}) /\ Cardinality(U \cup {x}) = Cardinality(U) + 1
      BY <3>1, <3>2, FS_AddElement
    <3> QED BY <3>2, <3>3 DEF U
  <2>7. m_pending_mem_request_num'[w] = m_pending_mem_request_num[w] + 1
    BY <1>2, <1>3, <1>5
  <2>8. IsFiniteSet(UnitsOf(w)') /\ pending_inst'[w] = Cardinality(UnitsOf(w)')
    <3>0. w # None /\ <<sm, u>> \in UnitsOf(w)
      BY <1>0, <1>5, SmAssumption DEF UnitsOf, h
    <3>1. CASE h.left = 1
      <4>1. unit'[sm][u].w # w
        BY <1>1, <3>0, <3>1
      <4>2. ASSUME NEW x
            PROVE  x \in UnitsOf(w)' <=> x \in UnitsOf(w) \ {<<sm, u>>}
        BY <1>1, <4>1 DEF UnitsOf
      <4>3. UnitsOf(w)' = UnitsOf(w) \ {<<sm, u>>}
        BY <4>2
      <4>4. /\ IsFiniteSet(UnitsOf(w) \ {<<sm, u>>})
            /\ Cardinality(UnitsOf(w) \ {<<sm, u>>}) = Cardinality(UnitsOf(w)) - 1
        BY <1>4, <3>0, FS_RemoveElement
      <4>5. pending_inst'[w] = pending_inst[w] - 1
        BY <1>2, <1>3, <1>5, <3>1
      <4> QED BY <1>4, <4>3, <4>4, <4>5
    <3>2. CASE h.left # 1
      <4>1. unit'[sm][u].w = w
        BY <1>1, <1>5, <3>2
      <4>2. ASSUME NEW x PROVE x \in UnitsOf(w)' <=> x \in UnitsOf(w)
        BY <1>1, <3>0, <4>1 DEF UnitsOf
      <4>3. UnitsOf(w)' = UnitsOf(w)
        BY <4>2
      <4> QED BY <1>2, <1>4, <3>2, <4>3
    <3> QED BY <3>1, <3>2
  <2> QED BY <1>4, <1>5, <2>2, <2>3, <2>6, <2>7, <2>8 DEF h
<1>6. CASE w # h.w
  <2>1. pending_request'[w] = pending_request[w]
    BY <1>1, <1>2, <1>3, <1>6
  <2>2. m_pending_mem_request_num'[w] = m_pending_mem_request_num[w] /\ pending_inst'[w] = pending_inst[w]
    BY <1>1, <1>2, <1>3, <1>6
  <2>3. UnderWay(w)' = UnderWay(w)
    BY <2>1 DEF UnderWay
  <2>4. unit[sm][u].w # w /\ unit'[sm][u].w # w
    BY <1>1, <1>6, SmAssumption DEF h
  <2>5. ASSUME NEW x PROVE x \in UnitsOf(w)' <=> x \in UnitsOf(w)
    BY <1>1, <2>4 DEF UnitsOf
  <2>6. UnitsOf(w)' = UnitsOf(w)
    BY <2>5
  <2> QED BY <1>3, <1>4, <1>6, <2>1, <2>2, <2>3, <2>6 DEF h
<1> QED BY <1>5, <1>6

LEMMA MakeRequestStep ==
    ASSUME IInv, NEW u \in LdsUnits, unit_cycle(u), MakeRequest(u)
    PROVE  IInv'
<1> DEFINE h == unit[sm][u]
<1>0. /\ block_vec' = block_vec /\ block_pointer' = block_pointer
      /\ warp_point' = warp_point /\ active' = active /\ completions' = completions
      /\ early' = early
      /\ warp_executed' = warp_executed /\ ready_warps' = ready_warps
      /\ sm' = sm /\ sm_active' = sm_active
      /\ ~At("gpu_cycle", 0)' /\ UNCHANGED blockVars /\ ReadyInv' /\ DoneInv'
  BY UnitFrame
<1>1. /\ h.w \in Warps /\ h.k \in Insts(h.w) /\ h.k <= warp_point[h.w] /\ HasBlock(sm, h.w)
      /\ unit' \in [SMs -> [LdsUnits -> Held]]
      /\ \A s \in SMs, x \in LdsUnits : <<s, x>> # <<sm, u>> => unit'[s][x] = unit[s][x]
      /\ IF h.left = 1 THEN unit'[sm][u].w = None
         ELSE unit'[sm][u].w = h.w /\ unit'[sm][u].k = h.k /\ unit'[sm][u].left > 0
  BY UnitAfterRequest
<1>2. \A w \in Warps :
        /\ pending_request'[w] \in [Insts(w) -> Nat]
        /\ \A k \in Insts(w) : ~(w = h.w /\ k = h.k) => pending_request'[w][k] = pending_request[w][k]
        /\ IsFiniteSet(UnderWay(w)') /\ m_pending_mem_request_num'[w] = Cardinality(UnderWay(w)')
        /\ IsFiniteSet(UnitsOf(w)') /\ pending_inst'[w] = Cardinality(UnitsOf(w)')
        /\ w # h.w => /\ m_pending_mem_request_num'[w] = m_pending_mem_request_num[w]
                      /\ pending_inst'[w] = pending_inst[w]
  BY RequestCounted
<1>3. /\ sm \in SMs /\ unit[sm][u].w = h.w /\ unit[sm][u].k = h.k
      /\ busy' = TRUE /\ DOMAIN pending_request' = DOMAIN pending_request
      /\ DOMAIN m_pending_mem_request_num' = DOMAIN m_pending_mem_request_num
      /\ DOMAIN pending_inst' = DOMAIN pending_inst
      /\ ready_time' = IF h.left = 1 THEN [ready_time EXCEPT ![sm][LDS][u] = 0] ELSE ready_time
  BY DEF MakeRequest, IInv, TypeOK
<1> HIDE DEF h
<1>4. TypeOK'
  <2>1. DOMAIN pending_request' = Warps
    BY <1>3 DEF IInv, TypeOK
  <2>2. \A w \in Warps : m_pending_mem_request_num'[w] \in Nat /\ pending_inst'[w] \in Nat
    BY <1>2, FS_CardinalityType
  <2>3. m_pending_mem_request_num' \in [Warps -> Nat] /\ pending_inst' \in [Warps -> Nat]
    <3>1. m_pending_mem_request_num \in [Warps -> Nat] /\ pending_inst \in [Warps -> Nat]
      BY DEF IInv, TypeOK
    <3>2. /\ m_pending_mem_request_num' = [w \in Warps |-> m_pending_mem_request_num'[w]]
          /\ pending_inst' = [w \in Warps |-> pending_inst'[w]]
      BY <1>3, <3>1 DEF MakeRequest
    <3> QED BY <2>2, <3>2
  <2>4. /\ DOMAIN ready_time' = SMs
        /\ \A s \in SMs : /\ DOMAIN ready_time'[s] = UnitName
                          /\ \A n \in UnitName : ready_time'[s][n] \in [1 .. num_units[n] -> Int]
    BY <1>3, Constants DEF IInv, TypeOK
  <2>5. /\ sm' \in SMs /\ sm_active' \in BOOLEAN /\ busy' \in BOOLEAN
        /\ block_pointer' \in 0 .. grid_size /\ block_vec' \in [SMs -> Seq(Blocks)]
        /\ active' \in SUBSET Warps
        /\ warp_point' \in [Warps -> Nat] /\ \A w \in Warps : warp_point'[w] <= Len(m_insts[w])
        /\ completions' \in [Warps -> Seq(Nat \cup {INT_MAX})]
        /\ \A w \in Warps : Len(completions'[w]) = warp_point'[w]
        /\ ready_warps' \in SUBSET Warps /\ warp_executed' \in 0 .. num_warp_schedulers_per_SM
        /\ \A l \in early' : \E w \in Warps : l \in {w} \X Insts(w)
    BY <1>0, <1>3 DEF IInv, TypeOK
  <2>6. \A w \in Warps : pending_request'[w] \in [Insts(w) -> Nat]
    BY <1>2
  <2> QED BY <1>1, <2>1, <2>3, <2>4, <2>5, <2>6 DEF TypeOK
<1>5. ASSUME NEW s \in SMs, NEW x \in LdsUnits, unit'[s][x].w # None
      PROVE  unit'[s][x].w = unit[s][x].w /\ unit'[s][x].k = unit[s][x].k /\ unit'[s][x].left > 0
             /\ unit[s][x].w # None
  <2>1. CASE <<s, x>> = <<sm, u>>
    BY <1>1, <1>3, <1>5, <2>1, SmAssumption
  <2>2. CASE <<s, x>> # <<sm, u>>
    BY <1>1, <1>5, <2>2 DEF IInv, UnitInv
  <2> QED BY <2>1, <2>2
<1>6. UnitInv'
  <2> SUFFICES ASSUME NEW s \in SMs, NEW x \in LdsUnits, unit'[s][x].w # None
               PROVE  /\ unit'[s][x].k \in 1 .. warp_point[unit'[s][x].w] /\ unit'[s][x].left > 0
                      /\ HasBlock(s, unit'[s][x].w)
    BY <1>0 DEF UnitInv, HasBlock
  <2> QED BY <1>5 DEF IInv, UnitInv
<1>7. CountInv'
  BY <1>2 DEF CountInv
<1>8. RequestInv'
  <2> SUFFICES ASSUME NEW w \in Warps, NEW k \in Insts(w), pending_request'[w][k] > 0
               PROVE  k <= warp_point[w] /\ \E s \in SMs : HasBlock(s, w)
    BY <1>0 DEF RequestInv, HasBlock
  <2>1. CASE w = h.w /\ k = h.k
    BY <1>1, <1>3, <2>1
  <2>2. CASE ~(w = h.w /\ k = h.k)
    BY <1>2, <2>2 DEF IInv, RequestInv
  <2> QED BY <2>1, <2>2
<1>9. \A b \in Blocks : BlockActive(b)' => BlockActive(b)
  <2>1. pending_inst[h.w] > 0
    BY <1>1, <1>3, Counted DEF IInv
  <2>2. \A w \in Warps : m_pending_mem_request_num'[w] > 0 \/ pending_inst'[w] > 0 =>
               w \in active \/ m_pending_mem_request_num[w] > 0 \/ pending_inst[w] > 0
    BY <1>2, <2>1
  <2>3. active' \subseteq active
    BY <1>0
  <2> QED BY <2>2, <2>3, StaysInactive
<1>10. HomeInv' /\ LoopInv'
  BY <1>0, <1>9, HomesKept, LoopKept DEF IInv
<1>11. ASSUME NEW s \in SMs, NEW w \in Warps, NEW k, Holds(s, w, k)' PROVE Holds(s, w, k)
  <2>1. PICK x \in LdsUnits : unit'[s][x].w = w /\ unit'[s][x].k = k
    BY <1>11 DEF Holds
  <2>2. unit'[s][x].w # None
    BY <2>1, SmAssumption
  <2> QED BY <1>5, <2>1, <2>2 DEF Holds
<1>12. Holds(sm, h.w, h.k)
  BY <1>3 DEF Holds
<1>13. WaitInv'
  <2> SUFFICES ASSUME NEW w \in Warps, NEW k \in Insts(w), <<w, k>> \notin early',
                      pending_request'[w][k] > 0 \/ (\E s \in SMs : Holds(s, w, k)')
               PROVE  k <= warp_point[w] /\ completions[w][k] = INT_MAX
    BY <1>0 DEF WaitInv
  <2>1. pending_request[w][k] > 0 \/ (\E s \in SMs : Holds(s, w, k))
    <3>1. CASE w = h.w /\ k = h.k
      BY <1>3, <1>12, <3>1
    <3>2. CASE ~(w = h.w /\ k = h.k)
      BY <1>2, <1>11, <3>2
    <3> QED BY <3>1, <3>2
  <2> QED BY <1>0, <2>1 DEF IInv, WaitInv
<1>14. SettledInv'
  <2> SUFFICES ASSUME NEW w \in Warps, NEW k \in 1 .. warp_point[w],
                      NEW j \in 1 .. k - 1, Conflict(m_insts[w], j, k), <<w, j>> \notin early'
               PROVE  Settled(w, j)'
    BY <1>0 DEF SettledInv
  <2>1. Settled(w, j)
    BY <1>0 DEF IInv, SettledInv
  <2>2. j \in Insts(w)
    <3>1. warp_point[w] \in Nat /\ warp_point[w] <= Len(m_insts[w])
      BY DEF IInv, TypeOK
    <3>2. Insts(w) = 1 .. Len(m_insts[w]) /\ Len(m_insts[w]) \in Nat
      BY Constants
    <3> QED BY <3>1, <3>2
  <2>3. ~(w = h.w /\ j = h.k)
    BY <1>3, <1>12, <2>1 DEF Settled
  <2>4. pending_request'[w][j] = pending_request[w][j]
    BY <1>2, <2>2, <2>3
  <2> QED BY <1>0, <1>11, <2>1, <2>4 DEF Settled
<1> QED BY <1>0, <1>4, <1>6, <1>7, <1>8, <1>10, <1>13, <1>14 DEF IInv

LEMMA UnitCycleStep ==
    ASSUME IInv, NEW u \in LdsUnits, unit_cycle(u)
    PROVE  IInv'
  BY MakeRequestStep, UnitWaitsStep DEF unit_cycle

-----------------------------------------------------------------------------
(* The scheduler.                                                          *)

\* What a turn of warp w has in common with and without an instruction.
LEMMA TurnFrame ==
    ASSUME IInv, NEW w \in Warps, schedule_one(w)
    PROVE  /\ block_vec' = block_vec /\ block_pointer' = block_pointer
           /\ pending_request' = pending_request
           /\ m_pending_mem_request_num' = m_pending_mem_request_num
           /\ early' = early /\ busy' = busy
           /\ step' = step /\ sm' = sm /\ sm_active' = sm_active
           /\ w \in active /\ HasBlock(sm, w) /\ sm \in SMs
           /\ active' \in SUBSET Warps /\ active' \subseteq active
           /\ \A v \in active \ active' : v = w /\ warp_point'[w] = Len(m_insts[w])
           /\ ready_warps' \in SUBSET Warps /\ ReadyInv'
           /\ warp_executed' \in 0 .. num_warp_schedulers_per_SM
           /\ (\A v \in Warps : pending_inst'[v] > 0 => v = w \/ pending_inst[v] > 0) =>
                 HomeInv' /\ LoopInv'
<1>1. /\ block_vec' = block_vec /\ block_pointer' = block_pointer
      /\ pending_request' = pending_request
      /\ m_pending_mem_request_num' = m_pending_mem_request_num
      /\ early' = early /\ busy' = busy
      /\ step' = step /\ sm' = sm /\ sm_active' = sm_active
      /\ step = <<"schedule_warp", 0>> /\ w \in ready_warps
      /\ ready_warps' = ready_warps \ {w}
      /\ warp_executed < num_warp_schedulers_per_SM
      /\ warp_executed' \in {warp_executed, warp_executed + 1}
  BY DEF schedule_one, At, blockVars
<1>2. active' = IF warp_point'[w] = Len(m_insts[w]) /\ m_pending_mem_request_num[w] = 0
                THEN active \ {w} ELSE active
  BY DEF schedule_one
<1>3. /\ w \in active /\ HasBlock(sm, w) /\ sm \in SMs /\ active \in SUBSET Warps
      /\ \A v \in ready_warps : v \in active /\ HasBlock(sm, v)
      /\ ready_warps \in SUBSET Warps /\ warp_executed \in 0 .. num_warp_schedulers_per_SM
      /\ num_warp_schedulers_per_SM \in Nat
  BY <1>1, SmAssumption DEF IInv, ReadyInv, TypeOK
<1>4. /\ active' \in SUBSET Warps /\ active' \subseteq active
      /\ \A v \in active \ active' : v = w /\ warp_point'[w] = Len(m_insts[w])
      /\ active \ {w} \subseteq active'
  BY <1>2, <1>3
<1>5. ReadyInv'
  BY <1>1, <1>3, <1>4 DEF ReadyInv, At, HasBlock
<1>6. warp_executed' \in 0 .. num_warp_schedulers_per_SM
  BY <1>1, <1>3
<1>7. ASSUME \A v \in Warps : pending_inst'[v] > 0 => v = w \/ pending_inst[v] > 0
      PROVE  HomeInv' /\ LoopInv'
  <2>1. \A b \in Blocks : BlockActive(b)' => BlockActive(b)
    BY <1>1, <1>3, <1>4, <1>7, StaysInactive
  <2>2. UNCHANGED blockVars /\ ~At("gpu_cycle", 0)'
    BY <1>1 DEF blockVars, At
  <2> QED BY <1>1, <2>1, <2>2, HomesKept, LoopKept DEF IInv
<1> QED BY <1>1, <1>3, <1>4, <1>5, <1>6, <1>7

\* A turn that issues nothing.
LEMMA NoIssueStep ==
    ASSUME IInv, NEW w \in Warps, schedule_one(w),
           UNCHANGED <<warp_point, completions, unit, pending_inst, ready_time>>
    PROVE  IInv'
<1>1. /\ block_vec' = block_vec /\ block_pointer' = block_pointer
      /\ pending_request' = pending_request
      /\ m_pending_mem_request_num' = m_pending_mem_request_num
      /\ early' = early /\ busy' = busy
      /\ step' = step /\ sm' = sm /\ sm_active' = sm_active
      /\ active' \in SUBSET Warps
      /\ \A v \in active \ active' : v = w /\ warp_point'[w] = Len(m_insts[w])
      /\ ready_warps' \in SUBSET Warps /\ ReadyInv'
      /\ warp_executed' \in 0 .. num_warp_schedulers_per_SM
      /\ HomeInv' /\ LoopInv'
  BY TurnFrame
<1>2. /\ warp_point' = warp_point /\ completions' = completions /\ unit' = unit
      /\ pending_inst' = pending_inst /\ ready_time' = ready_time
  OBVIOUS
<1>3. TypeOK'
  BY <1>1, <1>2 DEF IInv, TypeOK
<1>4. UnitInv'
  BY <1>1, <1>2 DEF IInv, UnitInv, HasBlock
<1>5. CountInv'
  <2>1. \A v \in Warps : UnderWay(v)' = UnderWay(v) /\ UnitsOf(v)' = UnitsOf(v)
    BY <1>1, <1>2 DEF UnderWay, UnitsOf
  <2> QED BY <1>1, <1>2, <2>1 DEF IInv, CountInv
<1>6. RequestInv'
  BY <1>1, <1>2 DEF IInv, RequestInv, HasBlock
<1>7. DoneInv'
  BY <1>1, <1>2 DEF IInv, DoneInv
<1>8. \A s \in SMs : \A v, k : Holds(s, v, k)' <=> Holds(s, v, k)
  BY <1>2 DEF Holds
<1>9. WaitInv'
  BY <1>1, <1>2, <1>8 DEF IInv, WaitInv
<1>10. SettledInv'
  BY <1>1, <1>2, <1>8 DEF IInv, SettledInv, Settled
<1> QED BY <1>1, <1>3, <1>4, <1>5, <1>6, <1>7, <1>9, <1>10 DEF IInv

\* The warp and its completions after it issued an instruction.
LEMMA Issued ==
    ASSUME IInv, NEW w \in Warps, schedule_one(w), MayIssue(w),
           ReadyUnits(NextInst(w).unit) # {}
    PROVE  LET k == warp_point[w] + 1
               n == NextInst(w).unit
               i == Min(ReadyUnits(n))
           IN  /\ warp_point[w] \in Nat /\ k \in Insts(w)
               /\ warp_point' = [warp_point EXCEPT ![w] = k]
               /\ completions' \in [Warps -> Seq(Nat \cup {INT_MAX})]
               /\ Len(completions'[w]) = k
               /\ \A v \in Warps \ {w} : completions'[v] = completions[v]
               /\ \A j \in 1 .. k - 1 : completions'[w][j] = completions[w][j]
               /\ n \in UnitName /\ i \in 1 .. num_units[n] /\ UnitReady(n, i)
               /\ IF UsesMemory(w)
                  THEN IssueToMemory(w, i) /\ n = LDS /\ i \in LdsUnits /\ completions'[w][k] = INT_MAX
                  ELSE IssueToUnit(w, i)
<1> DEFINE k == warp_point[w] + 1
           n == NextInst(w).unit
           i == Min(ReadyUnits(n))
<1>1. warp_point[w] \in Nat /\ warp_point[w] < Len(m_insts[w]) /\ k \in Insts(w)
  <2>1. warp_point[w] \in Nat /\ warp_point[w] < Len(m_insts[w])
    BY DEF IInv, TypeOK, MayIssue
  <2> QED BY <2>1, Constants
<1>2. /\ warp_point' = [warp_point EXCEPT ![w] = k]
      /\ IssueToMemory(w, i) \/ IssueToUnit(w, i)
  BY DEF schedule_one, issue_inst
<1>3. n \in UnitName /\ num_units[n] \in Nat
  BY <1>1, Constants DEF NextInst, Inst
<1>4. i \in ReadyUnits(n)
  <2>1. ReadyUnits(n) \in SUBSET Nat
    BY <1>3 DEF ReadyUnits
  <2> HIDE DEF n
  <2> QED BY <2>1, MinIsIn DEF n
<1>5. i \in 1 .. num_units[n] /\ UnitReady(n, i)
  BY <1>4 DEF ReadyUnits
<1>6. UsesMemory(w) => n = LDS /\ i \in LdsUnits
  BY <1>1, <1>5, SmAssumption, Constants DEF UsesMemory, NextInst
<1>7. PICK c \in Nat \cup {INT_MAX} :
         completions' = [completions EXCEPT ![w] = Append(@, c)] /\ (UsesMemory(w) => c = INT_MAX)
  <2>1. LatencyOf(w) + 1 \in Nat
    <3>1. m_insts[w][k] \in Inst
      BY <1>1, Constants
    <3>2. NextInst(w).latency \in Nat
      BY <3>1 DEF NextInst, Inst
    <3> QED BY <3>2 DEF LatencyOf
  <2>2. CASE UsesMemory(w)
    BY <1>2, <2>2 DEF IssueToMemory, IssueToUnit
  <2>3. CASE ~UsesMemory(w)
    BY <1>2, <2>1, <2>3 DEF IssueToMemory, IssueToUnit
  <2> QED BY <2>2, <2>3
<1>8. /\ completions \in [Warps -> Seq(Nat \cup {INT_MAX})]
      /\ completions[w] \in Seq(Nat \cup {INT_MAX}) /\ Len(completions[w]) = warp_point[w]
  BY DEF IInv, TypeOK
<1>9. completions'[w] = Append(completions[w], c)
  BY <1>7, <1>8
<1>10. /\ Append(completions[w], c) \in Seq(Nat \cup {INT_MAX})
       /\ Len(Append(completions[w], c)) = k /\ Append(completions[w], c)[k] = c
       /\ \A j \in 1 .. k - 1 : Append(completions[w], c)[j] = completions[w][j]
  <2> DEFINE q == completions[w]
             T == Nat \cup {INT_MAX}
  <2>1. q \in Seq(T) /\ c \in T /\ Len(q) = warp_point[w] /\ warp_point[w] \in Nat
    BY <1>1, <1>7, <1>8
  <2> HIDE DEF q, T
  <2>2. /\ Append(q, c) \in Seq(T) /\ Len(Append(q, c)) = Len(q) + 1
        /\ Append(q, c)[Len(q) + 1] = c
        /\ \A j \in 1 .. Len(q) : Append(q, c)[j] = q[j]
    BY <2>1
  <2> QED BY <2>1, <2>2 DEF q, T
<1>11. /\ completions' \in [Warps -> Seq(Nat \cup {INT_MAX})]
       /\ \A v \in Warps \ {w} : completions'[v] = completions[v]
  BY <1>7, <1>8, <1>10
<1>12. UsesMemory(w) => IssueToMemory(w, i) /\ completions'[w][k] = INT_MAX
  BY <1>2, <1>7, <1>9, <1>10 DEF IssueToUnit
<1>13. ~UsesMemory(w) => IssueToUnit(w, i)
  BY <1>2 DEF IssueToMemory
<1> HIDE DEF i, n
<1> QED BY <1>1, <1>2, <1>3, <1>5, <1>6, <1>9, <1>10, <1>11, <1>12, <1>13 DEF i, n

\* The units after it.
LEMMA UnitAfterIssue ==
    ASSUME IInv, NEW w \in Warps, schedule_one(w), MayIssue(w),
           ReadyUnits(NextInst(w).unit) # {}
    PROVE  LET k == warp_point[w] + 1
               i == Min(ReadyUnits(NextInst(w).unit))
           IN  /\ unit' \in [SMs -> [LdsUnits -> Held]]
               /\ UsesMemory(w) =>
                     /\ i \in LdsUnits /\ unit[sm][i].w = None
                     /\ unit'[sm][i].w = w /\ unit'[sm][i].k = k /\ unit'[sm][i].left > 0
               /\ \A s \in SMs, x \in LdsUnits :
                     ~(UsesMemory(w) /\ s = sm /\ x = i) => unit'[s][x] = unit[s][x]
<1> DEFINE k == warp_point[w] + 1
           n == NextInst(w).unit
           i == Min(ReadyUnits(n))
           g == [w |-> w, k |-> k, left |-> NextInst(w).requests, unit_latency |-> ldst_unit_latency]
<1>0. unit \in [SMs -> [LdsUnits -> Held]] /\ sm \in SMs
  BY DEF IInv, TypeOK
<1>1. /\ k \in Insts(w) /\ warp_point[w] \in Nat /\ UnitReady(n, i)
      /\ IF UsesMemory(w) THEN IssueToMemory(w, i) /\ n = LDS /\ i \in LdsUnits ELSE IssueToUnit(w, i)
  BY Issued
<1>2. CASE UsesMemory(w)
  <2>1. unit[sm][i].w = None /\ i \in LdsUnits
    BY <1>1, <1>2 DEF UnitReady
  <2>2. NextInst(w).requests \in Nat /\ NextInst(w).requests > 0
    <3>1. m_insts[w][k] \in Inst
      BY <1>1, Constants
    <3> QED BY <1>2, <3>1 DEF NextInst, Inst, UsesMemory
  <2>3. k \in Nat /\ ldst_unit_latency \in Nat
    BY <1>1, SmAssumption
  <2>4. unit' = [unit EXCEPT ![sm] = [unit[sm] EXCEPT ![i] = g]]
    BY <1>0, <1>1, <1>2 DEF IssueToMemory
  <2>5. g \in Held /\ g.w = w /\ g.k = k /\ g.left > 0
    <3> HIDE DEF k
    <3> QED BY <2>2, <2>3 DEF Held
  <2> HIDE DEF g, i, k
  <2>6. /\ unit' \in [SMs -> [LdsUnits -> Held]] /\ unit'[sm][i] = g
        /\ \A s \in SMs, x \in LdsUnits : ~(s = sm /\ x = i) => unit'[s][x] = unit[s][x]
    BY <1>0, <2>1, <2>4, <2>5
  <2> QED BY <1>2, <2>1, <2>5, <2>6 DEF i, k
<1>3. CASE ~UsesMemory(w)
  <2>1. unit' = unit
    BY <1>1, <1>3 DEF IssueToUnit
  <2> QED BY <1>0, <1>3, <2>1
<1> QED BY <1>2, <1>3

\* The instruction counts for its warp while a unit holds it.
LEMMA IssueCounted ==
    ASSUME IInv, NEW w \in Warps, schedule_one(w), MayIssue(w),
           ReadyUnits(NextInst(w).unit) # {}
    PROVE  /\ CountInv' /\ pending_inst' \in [Warps -> Nat]
           /\ \A v \in Warps : pending_inst'[v] > 0 => v = w \/ pending_inst[v] > 0
<1> DEFINE i == Min(ReadyUnits(NextInst(w).unit))
<1>1. /\ UsesMemory(w) =>
            i \in LdsUnits /\ unit[sm][i].w = None /\ unit'[sm][i].w = w
      /\ \A s \in SMs, x \in LdsUnits :
            ~(UsesMemory(w) /\ s = sm /\ x = i) => unit'[s][x] = unit[s][x]
  BY UnitAfterIssue
<1>2. /\ UsesMemory(w) => pending_inst' = [pending_inst EXCEPT ![w] = @ + 1]
      /\ ~UsesMemory(w) => pending_inst' = pending_inst
  BY Issued DEF IssueToMemory, IssueToUnit
<1>3. /\ pending_request' = pending_request /\ sm \in SMs
      /\ m_pending_mem_request_num' = m_pending_mem_request_num
  BY TurnFrame
<1> HIDE DEF i
<1>4. \A v \in Warps : UnderWay(v)' = UnderWay(v)
  BY <1>3 DEF UnderWay
<1>5. pending_inst \in [Warps -> Nat] /\ w # None
  BY SmAssumption DEF IInv, TypeOK
<1>6. pending_inst' \in [Warps -> Nat]
  BY <1>2, <1>5
<1>7. \A v \in Warps : pending_inst'[v] > 0 => v = w \/ pending_inst[v] > 0
  BY <1>2, <1>5
<1>8. ASSUME NEW v \in Warps
      PROVE  IsFiniteSet(UnitsOf(v)') /\ pending_inst'[v] = Cardinality(UnitsOf(v)')
  <2>0. IsFiniteSet(UnitsOf(v)) /\ pending_inst[v] = Cardinality(UnitsOf(v))
    BY DEF IInv, CountInv
  <2>1. CASE UsesMemory(w) /\ v = w
    <3> DEFINE U == UnitsOf(v)
               x == <<sm, i>>
    <3>1. x \notin U
      BY <1>1, <1>5, <2>1 DEF UnitsOf
    <3>2. ASSUME NEW y PROVE y \in UnitsOf(v)' <=> y \in U \/ y = x
      BY <1>1, <1>3, <2>1 DEF UnitsOf
    <3>3. UnitsOf(v)' = U \cup {x} /\ IsFiniteSet(U)
      BY <2>0, <3>2
    <3>4. pending_inst'[v] = pending_inst[v] + 1
      BY <1>2, <1>5, <2>1
    <3>5. Cardinality(U) = pending_inst[v]
      BY <2>0
    <3> HIDE DEF U, x
    <3>6. IsFiniteSet(U \cup {x}) /\ Cardinality(U \cup {x}) = Cardinality(U) + 1
      BY <3>1, <3>3, FS_AddElement
    <3> QED BY <3>3, <3>4, <3>5, <3>6
  <2>2. CASE ~(UsesMemory(w) /\ v = w)
    <3>1. ASSUME NEW y PROVE y \in UnitsOf(v)' <=> y \in UnitsOf(v)
      <4>1. CASE UsesMemory(w)
        <5>1. v # w /\ v # None
          BY <2>2, <4>1, SmAssumption
        <5>2. unit[sm][i].w # v /\ unit'[sm][i].w # v
          BY <1>1, <4>1, <5>1
        <5> QED BY <1>1, <4>1, <5>2 DEF UnitsOf
      <4>2. CASE ~UsesMemory(w)
        BY <1>1, <4>2 DEF UnitsOf
      <4> QED BY <4>1, <4>2
    <3>2. UnitsOf(v)' = UnitsOf(v)
      BY <3>1
    <3>3. pending_inst'[v] = pending_inst[v]
      BY <1>2, <1>5, <2>2
    <3> QED BY <2>0, <3>2, <3>3
  <2> QED BY <2>1, <2>2
<1>9. CountInv'
  <2>1. \A v \in Warps : IsFiniteSet(UnderWay(v)') /\ m_pending_mem_request_num'[v] = Cardinality(UnderWay(v)')
    BY <1>3, <1>4 DEF IInv, CountInv
  <2> QED BY <1>8, <2>1 DEF CountInv
<1> QED BY <1>6, <1>7, <1>9

\* An instruction that is complete, and was not too early, is over.
LEMMA CompleteIsSettled ==
    ASSUME IInv, NEW w \in Warps, NEW j \in 1 .. warp_point[w],
           <<w, j>> \notin early, completions[w][j] = 0
    PROVE  Settled(w, j)
<1>1. j \in Insts(w)
  <2>1. warp_point[w] \in Nat /\ warp_point[w] <= Len(m_insts[w])
    BY DEF IInv, TypeOK
  <2> QED BY <2>1, Constants
<1>2. pending_request[w][j] \in Nat
  BY <1>1 DEF IInv, TypeOK
<1>3. ~(pending_request[w][j] > 0) /\ \A s \in SMs : ~Holds(s, w, j)
  BY <1>1, SmAssumption DEF IInv, WaitInv
<1> QED BY <1>2, <1>3 DEF Settled

\* The last writers are enough: an earlier writer of the same register was
\* over when the last one was issued.
LEMMA SettledBefore ==
    ASSUME IInv, NEW w \in Warps, MayIssue(w), NEW j \in 1 .. warp_point[w],
           <<w, j>> \notin early, Conflict(m_insts[w], j, warp_point[w] + 1)
    PROVE  Settled(w, j)
<1> DEFINE p == m_insts[w]
           k == warp_point[w] + 1
<1>0. warp_point[w] \in Nat /\ k - 1 = warp_point[w]
  BY DEF IInv, TypeOK
<1>1. \A m \in m_dependency(p, k) : completions[w][m] = 0
  BY DEF MayIssue, check_dependency
<1>2. CASE Drains(p[k])
  <2>1. j \in m_dependency(p, k)
    BY <1>0, <1>2 DEF m_dependency
  <2> QED BY <1>1, <2>1, CompleteIsSettled
<1>3. CASE ~Drains(p[k])
  <2>1. PICK r \in p[k].dest \cup p[k].src : r \in p[j].dest
    BY <1>3 DEF Conflict
  <2>2. j \in Writers(p, k, r) /\ Writers(p, k, r) \in SUBSET (1 .. warp_point[w])
    BY <1>0, <2>1 DEF Writers
  <2> DEFINE W == Writers(p, k, r)
             m == Max(W)
  <2>3. m \in W /\ j <= m
    <3>1. W \in SUBSET (1 .. warp_point[w]) /\ W # {} /\ j \in W
      BY <2>2
    <3> HIDE DEF W
    <3> QED BY <1>0, <3>1, MaxIsMax
  <2>4. m \in m_dependency(p, k)
    BY <2>1, <2>2 DEF m_dependency
  <2>5. m \in 1 .. warp_point[w] /\ r \in p[m].dest
    BY <2>2, <2>3 DEF Writers
  <2> HIDE DEF m
  <2>6. CASE j = m
    BY <1>1, <2>4, <2>6, CompleteIsSettled
  <2>7. CASE j # m
    <3>1. j \in 1 .. m - 1
      BY <1>0, <2>3, <2>5, <2>7
    <3>2. Conflict(p, j, m)
      BY <2>1, <2>5 DEF Conflict
    <3> QED BY <2>5, <3>1, <3>2 DEF IInv, SettledInv
  <2> QED BY <2>6, <2>7
<1> QED BY <1>2, <1>3

LEMMA IssueStep ==
    ASSUME IInv, NEW w \in Warps, schedule_one(w), MayIssue(w),
           ReadyUnits(NextInst(w).unit) # {}
    PROVE  IInv'
<1> DEFINE k == warp_point[w] + 1
           n == NextInst(w).unit
           i == Min(ReadyUnits(n))
<1>1. /\ block_vec' = block_vec /\ block_pointer' = block_pointer
      /\ pending_request' = pending_request
      /\ m_pending_mem_request_num' = m_pending_mem_request_num
      /\ early' = early /\ busy' = busy
      /\ step' = step /\ sm' = sm /\ sm_active' = sm_active
      /\ HasBlock(sm, w) /\ sm \in SMs
      /\ active' \in SUBSET Warps /\ active' \subseteq active
      /\ \A v \in active \ active' : v = w /\ warp_point'[w] = Len(m_insts[w])
      /\ ready_warps' \in SUBSET Warps /\ ReadyInv'
      /\ warp_executed' \in 0 .. num_warp_schedulers_per_SM
      /\ w \in active
      /\ (\A v \in Warps : pending_inst'[v] > 0 => v = w \/ pending_inst[v] > 0) =>
            HomeInv' /\ LoopInv'
  BY TurnFrame
<1>2. /\ warp_point[w] \in Nat /\ k \in Insts(w) /\ warp_point' = [warp_point EXCEPT ![w] = k]
      /\ completions' \in [Warps -> Seq(Nat \cup {INT_MAX})] /\ Len(completions'[w]) = k
      /\ \A v \in Warps \ {w} : completions'[v] = completions[v]
      /\ \A j \in 1 .. k - 1 : completions'[w][j] = completions[w][j]
      /\ n \in UnitName /\ i \in 1 .. num_units[n]
      /\ IF UsesMemory(w) THEN IssueToMemory(w, i) /\ completions'[w][k] = INT_MAX
                          ELSE IssueToUnit(w, i)
  BY Issued
<1>3. /\ unit' \in [SMs -> [LdsUnits -> Held]]
      /\ UsesMemory(w) => i \in LdsUnits /\ unit[sm][i].w = None /\ unit'[sm][i].w = w
                          /\ unit'[sm][i].k = k /\ unit'[sm][i].left > 0
      /\ \A s \in SMs, x \in LdsUnits :
            ~(UsesMemory(w) /\ s = sm /\ x = i) => unit'[s][x] = unit[s][x]
  BY UnitAfterIssue
<1>4. CountInv' /\ pending_inst' \in [Warps -> Nat] /\ HomeInv' /\ LoopInv'
  BY <1>1, IssueCounted
<1>5. /\ warp_point \in [Warps -> Nat] /\ \A v \in Warps : warp_point[v] <= Len(m_insts[v])
      /\ \A v \in Warps : Len(completions[v]) = warp_point[v]
  BY DEF IInv, TypeOK
<1>6. /\ warp_point'[w] = k /\ k = warp_point[w] + 1 /\ k \in Nat /\ k <= Len(m_insts[w])
      /\ \A v \in Warps \ {w} : warp_point'[v] = warp_point[v]
      /\ warp_point' \in [Warps -> Nat]
      /\ \A v \in Warps : warp_point[v] <= warp_point'[v] /\ warp_point'[v] <= Len(m_insts[v])
  <2>1. k \in Nat /\ k <= Len(m_insts[w])
    <3>1. Insts(w) = 1 .. Len(m_insts[w]) /\ Len(m_insts[w]) \in Nat
      BY Constants
    <3> QED BY <1>2, <3>1
  <2> QED BY <1>2, <1>5, <2>1
<1>7. /\ DOMAIN ready_time' = SMs
      /\ \A s \in SMs : /\ DOMAIN ready_time'[s] = UnitName
                        /\ \A m \in UnitName : ready_time'[s][m] \in [1 .. num_units[m] -> Int]
  <2>0. /\ DOMAIN ready_time = SMs
        /\ \A s \in SMs : /\ DOMAIN ready_time[s] = UnitName
                          /\ \A m \in UnitName : ready_time[s][m] \in [1 .. num_units[m] -> Int]
    BY DEF IInv, TypeOK
  <2>1. CASE UsesMemory(w)
    BY <1>2, <2>0, <2>1 DEF IssueToMemory
  <2>2. CASE ~UsesMemory(w)
    <3>1. LatencyOf(w) \in Nat
      <4>1. m_insts[w][k] \in Inst
        BY <1>2, Constants
      <4>2. NextInst(w).latency \in Nat
        BY <4>1 DEF NextInst, Inst
      <4> QED BY <4>2 DEF LatencyOf
    <3>2. ready_time' = [ready_time EXCEPT ![sm][n][i] = @ + LatencyOf(w)]
      BY <1>2, <2>2 DEF IssueToUnit
    <3> DEFINE row == ready_time[sm][n]
               new == [row EXCEPT ![i] = @ + LatencyOf(w)]
    <3> HIDE DEF n, i
    <3>3. new \in [1 .. num_units[n] -> Int]
      <4>1. row \in [1 .. num_units[n] -> Int] /\ i \in 1 .. num_units[n]
        BY <1>1, <1>2, <2>0
      <4> HIDE DEF row
      <4> QED BY <3>1, <4>1
    <3>4. ready_time' = [ready_time EXCEPT ![sm] = [ready_time[sm] EXCEPT ![n] = new]]
      BY <1>1, <1>2, <2>0, <3>2
    <3> HIDE DEF new
    <3> QED BY <1>1, <1>2, <2>0, <3>3, <3>4
  <2> QED BY <2>1, <2>2
<1>8. TypeOK'
  <2>1. \A v \in Warps : Len(completions'[v]) = warp_point'[v]
    BY <1>2, <1>5, <1>6
  <2> QED BY <1>1, <1>2, <1>3, <1>4, <1>6, <1>7, <2>1 DEF IInv, TypeOK
<1> HIDE DEF k, i, n
<1>9. UnitInv'
  <2> SUFFICES ASSUME NEW s \in SMs, NEW x \in LdsUnits, unit'[s][x].w # None
               PROVE  /\ unit'[s][x].k \in 1 .. warp_point'[unit'[s][x].w] /\ unit'[s][x].left > 0
                      /\ HasBlock(s, unit'[s][x].w)
    BY <1>1 DEF UnitInv, HasBlock
  <2>1. CASE UsesMemory(w) /\ s = sm /\ x = i
    <3>1. k \in 1 .. k
      BY <1>2, <1>6
    <3> QED BY <1>1, <1>3, <1>6, <2>1, <3>1
  <2>2. CASE ~(UsesMemory(w) /\ s = sm /\ x = i)
    <3> DEFINE h == unit[s][x]
    <3>1. unit'[s][x] = h /\ h.w # None
      BY <1>3, <2>2
    <3>2. h.k \in 1 .. warp_point[h.w] /\ h.left > 0 /\ HasBlock(s, h.w)
      BY <3>1 DEF IInv, UnitInv
    <3>3. h.w \in Warps
      <4>1. h \in Held
        BY DEF IInv, TypeOK
      <4> HIDE DEF h
      <4> QED BY <3>1, <4>1 DEF Held
    <3>4. warp_point[h.w] \in Nat /\ warp_point'[h.w] \in Nat /\ warp_point[h.w] <= warp_point'[h.w]
      BY <1>5, <1>6, <3>3
    <3> HIDE DEF h
    <3> QED BY <3>1, <3>2, <3>4
  <2> QED BY <2>1, <2>2
<1>10. RequestInv'
  <2> SUFFICES ASSUME NEW v \in Warps, NEW m \in Insts(v), pending_request[v][m] > 0
               PROVE  m <= warp_point'[v] /\ \E s \in SMs : HasBlock(s, v)
    BY <1>1 DEF RequestInv, HasBlock
  <2>1. m <= warp_point[v] /\ \E s \in SMs : HasBlock(s, v)
    BY DEF IInv, RequestInv
  <2>2. m \in Nat
    BY Constants
  <2> QED BY <1>5, <1>6, <2>1, <2>2
<1>11. DoneInv'
  <2> SUFFICES ASSUME NEW v \in Warps, v \notin active' PROVE warp_point'[v] = Len(m_insts[v])
    BY DEF DoneInv
  <2>1. CASE v \in active
    BY <1>1, <2>1
  <2>2. CASE v \notin active
    BY <1>1, <1>6, <2>2 DEF IInv, DoneInv
  <2> QED BY <2>1, <2>2
<1>12. ASSUME NEW s \in SMs, NEW v \in Warps, NEW m, Holds(s, v, m)'
       PROVE  Holds(s, v, m) \/ (v = w /\ m = k /\ UsesMemory(w))
  <2>1. PICK x \in LdsUnits : unit'[s][x].w = v /\ unit'[s][x].k = m
    BY <1>12 DEF Holds
  <2>2. CASE UsesMemory(w) /\ s = sm /\ x = i
    BY <1>3, <2>1, <2>2
  <2>3. CASE ~(UsesMemory(w) /\ s = sm /\ x = i)
    BY <1>3, <2>1, <2>3 DEF Holds
  <2> QED BY <2>2, <2>3
<1>13. WaitInv'
  <2> SUFFICES ASSUME NEW v \in Warps, NEW m \in Insts(v), <<v, m>> \notin early',
                      pending_request[v][m] > 0 \/ (\E s \in SMs : Holds(s, v, m)')
               PROVE  m <= warp_point'[v] /\ completions'[v][m] = INT_MAX
    BY <1>1 DEF WaitInv
  <2>1. CASE v = w /\ m = k /\ UsesMemory(w)
    BY <1>2, <1>6, <2>1
  <2>2. CASE ~(v = w /\ m = k /\ UsesMemory(w))
    <3>1. pending_request[v][m] > 0 \/ (\E s \in SMs : Holds(s, v, m))
      BY <1>12, <2>2
    <3>2. m <= warp_point[v] /\ completions[v][m] = INT_MAX
      BY <1>1, <3>1 DEF IInv, WaitInv
    <3>3. m \in Nat /\ m >= 1
      BY Constants
    <3>4. m <= warp_point'[v]
      BY <1>5, <1>6, <3>2, <3>3
    <3>5. completions'[v][m] = completions[v][m]
      <4>1. CASE v = w
        <5>1. m \in 1 .. k - 1
          BY <1>6, <1>2, <3>2, <3>3, <4>1
        <5> QED BY <1>2, <4>1, <5>1
      <4>2. CASE v # w
        BY <1>2, <4>2
      <4> QED BY <4>1, <4>2
    <3> QED BY <3>2, <3>4, <3>5
  <2> QED BY <2>1, <2>2
<1>14. ASSUME NEW v \in Warps, NEW j \in 1 .. warp_point[v], Settled(v, j)
       PROVE  Settled(v, j)'
  <2>1. completions'[v][j] = completions[v][j]
    <3>1. CASE v = w
      <4>1. j \in 1 .. k - 1
        BY <1>2, <1>6, <3>1
      <4> QED BY <1>2, <3>1, <4>1
    <3>2. CASE v # w
      BY <1>2, <3>2
    <3> QED BY <3>1, <3>2
  <2>2. ~(v = w /\ j = k)
    BY <1>2, <1>6
  <2> QED BY <1>1, <1>12, <1>14, <2>1, <2>2 DEF Settled
<1>15. SettledInv'
  <2> SUFFICES ASSUME NEW v \in Warps, NEW m \in 1 .. warp_point'[v],
                      NEW j \in 1 .. m - 1, Conflict(m_insts[v], j, m), <<v, j>> \notin early'
               PROVE  Settled(v, j)'
    BY DEF SettledInv
  <2>1. CASE m \in 1 .. warp_point[v]
    <3>1. Settled(v, j)
      BY <1>1, <2>1 DEF IInv, SettledInv
    <3>2. j \in 1 .. warp_point[v]
      BY <1>5, <2>1
    <3> QED BY <1>14, <3>1, <3>2
  <2>2. CASE m \notin 1 .. warp_point[v]
    <3>1. v = w /\ m = warp_point[w] + 1
      BY <1>5, <1>6, <2>2
    <3>2. j \in 1 .. warp_point[v]
      BY <1>5, <3>1
    <3>3. Settled(v, j)
      BY <1>1, <3>1, <3>2, SettledBefore
    <3> QED BY <1>14, <3>2, <3>3
  <2> QED BY <2>1, <2>2
<1> QED BY <1>1, <1>4, <1>8, <1>9, <1>10, <1>11, <1>13, <1>15 DEF IInv

LEMMA ScheduleStep ==
    ASSUME IInv, NEW w \in Warps, schedule_one(w)
    PROVE  IInv'
<1>1. CASE ~MayIssue(w)
  <2>1. UNCHANGED <<warp_point, completions, unit, pending_inst, ready_time>>
    BY <1>1 DEF schedule_one
  <2> QED BY <2>1, NoIssueStep
<1>2. CASE MayIssue(w) /\ ReadyUnits(NextInst(w).unit) = {}
  <2>1. UNCHANGED <<warp_point, completions, unit, pending_inst, ready_time>>
    BY <1>2 DEF schedule_one, issue_inst
  <2> QED BY <2>1, NoIssueStep
<1>3. CASE MayIssue(w) /\ ReadyUnits(NextInst(w).unit) # {}
  BY <1>3, IssueStep
<1> QED BY <1>1, <1>2, <1>3

-----------------------------------------------------------------------------
(* The theorems.                                                           *)

\* Every step of SmCycle keeps the invariant.
LEMMA StepInv == IInv /\ [Next]_vars => IInv'
<1> SUFFICES ASSUME IInv, [Next]_vars PROVE IInv'
  OBVIOUS
<1>1. CASE SkipSm
  BY <1>1, SkipSmStep
<1>2. CASE NextCycle \/ UNCHANGED vars
  BY <1>2, NextCycleStep
<1>3. CASE StartSm
  BY <1>3, StartSmStep
<1>4. ASSUME NEW back \in Returns(sm), write_back(back) PROVE IInv'
  BY <1>4, WriteBackStep
<1>5. CASE del_inactive_block
  BY <1>5, DelStep
<1>6. ASSUME NEW u \in LdsUnits, unit_cycle(u) PROVE IInv'
  BY <1>6, UnitCycleStep
<1>7. CASE take_blocks
  BY <1>7, TakeStep
<1>8. ASSUME NEW w \in Warps, schedule_one(w) PROVE IInv'
  BY <1>8, ScheduleStep
<1>9. CASE schedule_done
  BY <1>9, ScheduleDoneStep
<1> QED BY <1>1, <1>2, <1>3, <1>4, <1>5, <1>6, <1>7, <1>8, <1>9 DEF Next

\* The invariant holds in every state of SmCycle.
THEOREM InvAlways == Spec => []IInv
  BY InitInv, StepInv, PTL DEF Spec

\* The types and bounds of SmCycle hold: among them that every issued
\* instruction has its completion and no count of requests is negative.
THEOREM TypeCorrect == Spec => []TypeOK
<1>1. IInv => TypeOK
  BY DEF IInv
<1> QED BY <1>1, InvAlways, PTL

\* get_block finds the block of every request that comes back and of every
\* instruction in a unit, with any number of blocks, warps and units.
THEOREM BlocksKept == Spec => []RequestsHaveBlocks
<1>1. ASSUME IInv PROVE RequestsHaveBlocks
  <2> SUFFICES ASSUME NEW w \in Warps
               PROVE  /\ ~Quiet(w) => \E s \in SMs : HasBlock(s, w)
                      /\ \A s \in SMs, u \in LdsUnits : unit[s][u].w = w => HasBlock(s, w)
    BY DEF RequestsHaveBlocks
  <2>1. \A s \in SMs, u \in LdsUnits : unit[s][u].w = w => HasBlock(s, w)
    BY <1>1, SmAssumption DEF IInv, UnitInv
  <2>2. ASSUME NEW k \in Insts(w), pending_request[w][k] # 0 PROVE \E s \in SMs : HasBlock(s, w)
    <3>1. pending_request[w][k] \in Nat
      BY <1>1 DEF IInv, TypeOK
    <3> QED BY <1>1, <2>2, <3>1 DEF IInv, RequestInv
  <2> QED BY <2>1, <2>2 DEF Quiet
<1> QED BY <1>1, InvAlways, PTL

\* A block that is not active has issued everything and waits for nothing.
LEMMA InactiveIsFinished ==
    ASSUME IInv, NEW b \in Blocks, ~BlockActive(b)
    PROVE  Finished(b)
<1> SUFFICES ASSUME NEW w \in WarpsOf(b) PROVE warp_point[w] = Len(m_insts[w]) /\ Quiet(w)
  BY DEF Finished
<1>1. w \in Warps /\ w[1] = b
  BY DEF WarpsOf, Warps
<1> QED BY <1>1, InactiveIsQuiet DEF IInv, DoneInv

\* Every block that was taken is in one place of one SM until it is
\* finished, and no SM has more than max_blocks.
THEOREM OnOneSm == Spec => []BlocksAccounted
<1>1. ASSUME IInv PROVE BlocksAccounted
  <2>1. ASSUME NEW b \in Blocks, NEW s \in SMs, b \in Range(block_vec[s])
        PROVE  b < block_pointer /\ Cardinality(Homes(b)) = 1
    <3>1. PICK i \in DOMAIN block_vec[s] : block_vec[s][i] = b
      BY <2>1 DEF Range
    <3>2. i \in 1 .. max_blocks
      <4>1. block_vec[s] \in Seq(Blocks) /\ Len(block_vec[s]) <= max_blocks
        BY <1>1 DEF IInv, TypeOK, HomeInv
      <4> QED BY <3>1, <4>1, Constants
    <3>3. ASSUME NEW h PROVE h \in Homes(b) <=> h = <<s, i>>
      BY <1>1, <3>1, <3>2 DEF Homes, IInv, HomeInv
    <3>4. Homes(b) = {<<s, i>>}
      BY <3>3
    <3>5. b < block_pointer
      BY <1>1, <3>1 DEF IInv, HomeInv
    <3> QED BY <3>4, <3>5, FS_Singleton
  <2>2. ASSUME NEW b \in Blocks, \A s \in SMs : b \notin Range(block_vec[s]) PROVE Homes(b) = {}
    BY <2>2 DEF Homes, Range
  <2>3. ASSUME NEW b \in Blocks
        PROVE  IF b < block_pointer THEN Cardinality(Homes(b)) = 1 \/ (Homes(b) = {} /\ Finished(b))
                                    ELSE Homes(b) = {}
    <3>1. CASE \E s \in SMs : b \in Range(block_vec[s])
      BY <2>1, <3>1
    <3>2. CASE \A s \in SMs : b \notin Range(block_vec[s])
      <4>1. b < block_pointer => ~BlockActive(b)
        BY <1>1, <3>2 DEF IInv, HomeInv
      <4> QED BY <1>1, <2>2, <3>2, <4>1, InactiveIsFinished
    <3> QED BY <3>1, <3>2
  <2>4. \A s \in SMs : Len(block_vec[s]) <= max_blocks
    BY <1>1 DEF IInv, HomeInv
  <2> QED BY <2>3, <2>4 DEF BlocksAccounted
<1> QED BY <1>1, InvAlways, PTL

\* When the loop of gpu_cycle ends, every block of the grid was taken and is
\* finished: the SM that found work last has seen all that others left.
THEOREM AllFinished == Spec => []EndsClean
<1>1. ASSUME IInv PROVE EndsClean
  <2> SUFFICES ASSUME Ended, NEW b \in Blocks PROVE Finished(b)
    BY DEF EndsClean
  <2>1. \A s \in SMs : ~SmActive(s)
    BY <1>1 DEF Ended, IInv, LoopInv
  <2>2. 0 \in SMs
    BY Constants
  <2>3. ~(block_pointer < grid_size) /\ block_pointer \in Nat
    BY <1>1, <2>1, <2>2, Constants DEF SmActive, IInv, TypeOK
  <2>4. b < block_pointer
    BY <2>3, Constants
  <2>5. ~BlockActive(b)
    BY <1>1, <2>1, <2>4 DEF SmActive, IInv, HomeInv
  <2> QED BY <1>1, <2>5, InactiveIsFinished
<1> QED BY <1>1, InvAlways, PTL

\* A block that is not active never becomes active again, so the flag
\* m_active that the code clears is never wrong later.
THEOREM StaysOver == Spec => InactiveForever
<1>1. ASSUME IInv, [Next]_vars
      PROVE  \A b \in Blocks : ~BlockActive(b) => ~BlockActive(b)'
  <2>1. CASE UNCHANGED <<active, m_pending_mem_request_num, pending_inst>>
    BY <2>1 DEF BlockActive, WarpsOf
  <2>2. ASSUME NEW back \in Returns(sm), write_back(back)
        PROVE  \A b \in Blocks : BlockActive(b)' => BlockActive(b)
    <3>1. active' = active /\ pending_inst' = pending_inst
      BY <2>2 DEF write_back
    <3>2. ASSUME NEW w \in Warps PROVE m_pending_mem_request_num'[w] <= m_pending_mem_request_num[w]
      <4> DEFINE U == UnderWay(w)
                 V == UnderWay(w)'
      <4>1. /\ m_pending_mem_request_num'[w] = m_pending_mem_request_num[w] - Cardinality(U \ V)
            /\ IsFiniteSet(U) /\ m_pending_mem_request_num[w] \in Nat
        BY <1>1, <2>2 DEF write_back, IInv, CountInv, TypeOK
      <4> HIDE DEF U, V
      <4>2. IsFiniteSet(U \ V)
        BY <4>1, FS_Subset
      <4>3. Cardinality(U \ V) \in Nat
        BY <4>2, FS_CardinalityType
      <4> QED BY <4>1, <4>3
    <3>3. \A w \in Warps : /\ m_pending_mem_request_num[w] \in Nat
                           /\ m_pending_mem_request_num'[w] \in Int
      <4>1. IInv'
        BY <1>1, StepInv
      <4> QED BY <1>1, <4>1 DEF IInv, TypeOK
    <3> QED BY <3>1, <3>2, <3>3, StaysInactive
  <2>3. ASSUME NEW u \in LdsUnits, unit_cycle(u)
        PROVE  \A b \in Blocks : BlockActive(b)' => BlockActive(b)
    <3>1. CASE UnitWaits(u)
      <4>1. UNCHANGED <<active, m_pending_mem_request_num, pending_inst>>
        BY <2>3, <3>1 DEF unit_cycle, UnitWaits
      <4> QED BY <4>1 DEF BlockActive, WarpsOf
    <3>2. CASE MakeRequest(u)
      <4> DEFINE h == unit[sm][u]
      <4>1. h.w \in Warps /\ sm \in SMs
        BY <1>1, <3>2, UnitAfterRequest DEF IInv, TypeOK
      <4>2. pending_inst[h.w] > 0
        BY <1>1, <4>1, Counted DEF IInv
      <4>3. \A w \in Warps : w # h.w => /\ m_pending_mem_request_num'[w] = m_pending_mem_request_num[w]
                                        /\ pending_inst'[w] = pending_inst[w]
        BY <1>1, <3>2, RequestCounted
      <4>4. active' = active
        BY <2>3 DEF unit_cycle
      <4> QED BY <4>2, <4>3, <4>4, StaysInactive
    <3> QED BY <2>3, <3>1, <3>2 DEF unit_cycle
  <2>4. ASSUME NEW w \in Warps, schedule_one(w)
        PROVE  \A b \in Blocks : BlockActive(b)' => BlockActive(b)
    <3>1. /\ m_pending_mem_request_num' = m_pending_mem_request_num
          /\ active' \subseteq active /\ w \in active
      BY <1>1, <2>4, TurnFrame
    <3>2. \A v \in Warps : pending_inst'[v] > 0 => v = w \/ pending_inst[v] > 0
      <4>1. CASE MayIssue(w) /\ ReadyUnits(NextInst(w).unit) # {}
        BY <1>1, <2>4, <4>1, IssueCounted
      <4>2. CASE ~(MayIssue(w) /\ ReadyUnits(NextInst(w).unit) # {})
        BY <2>4, <4>2 DEF schedule_one, issue_inst
      <4> QED BY <4>1, <4>2
    <3> QED BY <3>1, <3>2, StaysInactive
  <2> QED BY <1>1, <2>1, <2>2, <2>3, <2>4
          DEF Next, SkipSm, NextCycle, StartSm, del_inactive_block, take_blocks, schedule_done,
              warpVars, vars
<1> QED BY <1>1, InvAlways, PTL DEF Spec, InactiveForever

\* The last writers that get_inst_dependency looks at are enough, for every
\* program, any number of units and every order of the returns: every earlier
\* writer of a register, and for EXIT and BAR every earlier instruction, is
\* over when an instruction is issued, except the loads and stores that
\* write_back itself completed while their unit still had requests to make.
THEOREM Settles == Spec => RegistersSettled
<1> DEFINE A == \A w \in Warps :
                  LET k == warp_point'[w]
                  IN  k > warp_point[w] =>
                         \A j \in 1 .. k - 1 :
                            Conflict(m_insts[w], j, k) => Settled(w, j) \/ <<w, j>> \in early
<1>1. ASSUME IInv, Next PROVE A
  <2> SUFFICES ASSUME NEW w \in Warps, warp_point'[w] > warp_point[w],
                      NEW j \in 1 .. warp_point'[w] - 1, Conflict(m_insts[w], j, warp_point'[w]),
                      <<w, j>> \notin early
               PROVE  Settled(w, j)
    OBVIOUS
  <2>0. warp_point \in [Warps -> Nat]
    BY <1>1 DEF IInv, TypeOK
  <2>1. PICK v \in Warps : schedule_one(v)
    <3>1. warp_point' # warp_point
      BY <2>0
    <3> QED BY <1>1, <3>1
            DEF Next, SkipSm, NextCycle, StartSm, write_back, del_inactive_block, unit_cycle,
                take_blocks, schedule_done, warpVars
  <2>2. MayIssue(v) /\ ReadyUnits(NextInst(v).unit) # {}
    BY <2>0, <2>1 DEF schedule_one, issue_inst
  <2>3. warp_point' = [warp_point EXCEPT ![v] = @ + 1]
    BY <2>1, <2>2 DEF schedule_one, issue_inst
  <2>4. v = w /\ warp_point'[w] = warp_point[w] + 1 /\ j \in 1 .. warp_point[w]
    BY <2>0, <2>3
  <2> QED BY <1>1, <2>2, <2>4, SettledBefore
<1>2. IInv /\ [Next]_vars => [A]_vars
  BY <1>1
<1> HIDE DEF A
<1>3. Spec => [][A]_vars
  BY <1>2, InvAlways, PTL DEF Spec
<1> QED BY <1>3 DEF A, RegistersSettled

\* Where the next request of an instruction is made before the one before it
\* can be back (one LDS unit: NoEarlyCompletionAlone of L1Proofs) there is no
\* such exception.
THEOREM NoneTooEarly ==
    ASSUME ~EarlyReturns
    PROVE  Spec => [](early = {})
<1> DEFINE Never == early = {}
<1>1. Init => Never
  BY DEF Init
<1>2. IInv /\ Never /\ [Next]_vars => Never'
  <2> SUFFICES ASSUME IInv, early = {}, [Next]_vars PROVE early' = {}
    OBVIOUS
  <2>1. CASE UNCHANGED vars
    BY <2>1 DEF vars, warpVars
  <2>2. ASSUME NEW back \in Returns(sm), write_back(back)
        PROVE  early' = {}
    <3> SUFFICES ASSUME NEW l \in DOMAIN back, Holds(sm, l[1], l[2])
                 PROVE  FALSE
      BY <2>2 DEF write_back
    <3>1. l \in CanReturn(sm)
      BY DEF Returns
    <3> QED BY <3>1 DEF CanReturn
  <2>3. ASSUME NEW w \in Warps, schedule_one(w)
        PROVE  early' = {}
    BY <2>3 DEF schedule_one
  <2> QED BY <2>1, <2>2, <2>3
          DEF Next, SkipSm, NextCycle, StartSm, del_inactive_block, unit_cycle, take_blocks,
              schedule_done, warpVars
<1> HIDE DEF Never
<1>3. Spec => []Never
  BY <1>1, <1>2, InvAlways, PTL DEF Spec
<1> QED BY <1>3 DEF Never
=============================================================================
