---------------------------- MODULE CommonLemmas ----------------------------
(***************************************************************************)
(* Facts the proofs share: least and greatest numbers, induction, folds    *)
(* over sets and sequences, sequences without repetition (the queues and   *)
(* the entries of the MSHR tables), and tag arrays, for every number of    *)
(* sets, ways and sectors and both replacement policies.                   *)
(***************************************************************************)
EXTENDS SectorCache, Sequences, FiniteSetTheorems, WellFoundedInduction, TLAPS

-----------------------------------------------------------------------------
(* Sequences without repetition.                                           *)

Within(s)   == {s[i] : i \in DOMAIN s}
Distinct(s) == \A i, j \in DOMAIN s : s[i] = s[j] => i = j

LEMMA AppendWithin ==
    ASSUME NEW S, NEW s \in Seq(S), NEW e \in S
    PROVE  /\ Append(s, e) \in Seq(S) /\ Append(s, e) # <<>>
           /\ Within(Append(s, e)) = Within(s) \cup {e}
           /\ Distinct(s) /\ e \notin Within(s) => Distinct(Append(s, e))
<1>1. /\ Append(s, e) \in Seq(S) /\ Len(s) \in Nat
      /\ DOMAIN s = 1 .. Len(s) /\ DOMAIN Append(s, e) = 1 .. Len(s) + 1
      /\ Append(s, e)[Len(s) + 1] = e
      /\ \A i \in 1 .. Len(s) : Append(s, e)[i] = s[i]
  OBVIOUS
<1>2. Append(s, e) # <<>>
  BY <1>1
<1>3. Within(Append(s, e)) = Within(s) \cup {e}
  BY <1>1 DEF Within
<1>4. ASSUME Distinct(s), e \notin Within(s) PROVE Distinct(Append(s, e))
  <2>1. \A i \in 1 .. Len(s) + 1 : i \in 1 .. Len(s) \/ i = Len(s) + 1
    BY <1>1
  <2> QED BY <1>1, <1>4, <2>1 DEF Distinct, Within
<1> QED BY <1>1, <1>2, <1>3, <1>4

LEMMA TailWithin ==
    ASSUME NEW S, NEW s \in Seq(S), s # <<>>
    PROVE  /\ Head(s) \in S /\ Head(s) \in Within(s) /\ Tail(s) \in Seq(S)
           /\ Within(s) = Within(Tail(s)) \cup {Head(s)}
           /\ Distinct(s) => Head(s) \notin Within(Tail(s)) /\ Distinct(Tail(s))
<1>1. /\ Len(s) \in Nat /\ Len(s) > 0 /\ DOMAIN s = 1 .. Len(s)
      /\ Tail(s) \in Seq(S) /\ DOMAIN Tail(s) = 1 .. Len(s) - 1
      /\ Head(s) = s[1] /\ Head(s) \in S
      /\ \A i \in 1 .. Len(s) - 1 : Tail(s)[i] = s[i + 1]
  OBVIOUS
<1>2. Within(s) = Within(Tail(s)) \cup {Head(s)}
  <2>1. Within(Tail(s)) \cup {Head(s)} \subseteq Within(s)
    BY <1>1 DEF Within
  <2>2. ASSUME NEW i \in DOMAIN s PROVE s[i] \in Within(Tail(s)) \cup {Head(s)}
    <3>1. CASE i = 1
      BY <1>1, <3>1
    <3>2. CASE i # 1
      <4>1. i - 1 \in DOMAIN Tail(s) /\ Tail(s)[i - 1] = s[i]
        BY <1>1, <2>2, <3>2
      <4> QED BY <4>1 DEF Within
    <3> QED BY <3>1, <3>2
  <2> QED BY <2>1, <2>2 DEF Within
<1>3. ASSUME Distinct(s) PROVE Head(s) \notin Within(Tail(s)) /\ Distinct(Tail(s))
  <2>1. \A i \in DOMAIN Tail(s) : i + 1 \in DOMAIN s /\ i + 1 # 1 /\ Tail(s)[i] = s[i + 1]
    BY <1>1
  <2>2. 1 \in DOMAIN s
    BY <1>1
  <2>3. Head(s) \notin Within(Tail(s))
    BY <1>1, <1>3, <2>1, <2>2 DEF Distinct, Within
  <2>4. Distinct(Tail(s))
    <3>1. \A i, j \in DOMAIN Tail(s) : i + 1 = j + 1 => i = j
      BY <1>1
    <3> QED BY <1>3, <2>1, <3>1 DEF Distinct
  <2> QED BY <2>3, <2>4
<1> QED BY <1>1, <1>2, <1>3

\* As many elements as places.
LEMMA DistinctCount ==
    ASSUME NEW n \in Nat, NEW f, DOMAIN f = 1 .. n,
           \A i, j \in 1 .. n : f[i] = f[j] => i = j
    PROVE  Cardinality({f[i] : i \in 1 .. n}) = n /\ IsFiniteSet({f[i] : i \in 1 .. n})
<1> DEFINE T == {f[i] : i \in 1 .. n}
           g == [i \in 1 .. n |-> f[i]]
<1>1. g \in Bijection(1 .. n, T)
  BY DEF Bijection, Injection, Surjection, IsInjective
<1>2. ExistsBijection(1 .. n, T)
  BY <1>1 DEF ExistsBijection
<1> HIDE DEF T
<1>3. IsFiniteSet(1 .. n) /\ Cardinality(1 .. n) = n
  BY FS_Interval
<1>4. Cardinality(T) = n /\ IsFiniteSet(T)
  <2>1. IsFiniteSet(T) /\ Cardinality(T) = Cardinality(1 .. n)
    BY <1>2, <1>3, FS_Bijection
  <2> QED BY <1>3, <2>1
<1> QED BY <1>4 DEF T

\* A set of numbers has a least element: the sets of what is below an
\* element are finite, so inclusion is well-founded on them.
LEMMA Least ==
    ASSUME NEW S \in SUBSET Nat, S # {}
    PROVE  \E n \in S : \A m \in S : n <= m
<1> DEFINE Below(n) == {m \in S : m < n}
           T == {Below(n) : n \in S}
<1>1. ASSUME NEW n \in S PROVE Below(n) \in FiniteSubsetsOf(S)
  <2>1. n \in Nat /\ \A m \in S : m \in Nat
    OBVIOUS
  <2>2. ASSUME NEW k \in Below(n) PROVE k \in 0 .. n
    <3>1. k \in S /\ k < n
      OBVIOUS
    <3> QED BY <2>1, <3>1
  <2>3. IsFiniteSet(0 .. n)
    BY <2>1, FS_Interval
  <2>4. IsFiniteSet(Below(n))
    BY <2>2, <2>3, FS_Subset
  <2> QED BY <2>4 DEF FiniteSubsetsOf
<1>2. T \subseteq FiniteSubsetsOf(S) /\ T # {}
  BY <1>1
<1>3. PICK x \in T : \A y \in T : ~ (<<y, x>> \in StrictSubsetOrdering(S))
  <2> HIDE DEF T
  <2> QED BY <1>2, WFMin, FS_StrictSubsetOrderingWellFounded
<1>4. PICK n \in S : x = Below(n)
  BY <1>3
<1>5. \A m \in S : n <= m
  <2> SUFFICES ASSUME NEW m \in S, m < n PROVE FALSE
    OBVIOUS
  <2>0. m \in Nat /\ n \in Nat /\ \A k \in S : k \in Nat
    OBVIOUS
  <2>1. m \in Below(n) /\ m \notin Below(m)
    BY <2>0
  <2>2. ASSUME NEW k \in Below(m) PROVE k \in Below(n)
    <3>1. k \in S /\ k < m
      OBVIOUS
    <3> QED BY <2>0, <3>1
  <2>3. Below(m) \in SUBSET S /\ Below(n) \in SUBSET S
    OBVIOUS
  <2>4. <<Below(m), Below(n)>> \in StrictSubsetOrdering(S)
    <3> HIDE DEF Below
    <3> QED BY <2>1, <2>2, <2>3 DEF StrictSubsetOrdering
  <2> QED BY <2>4, <1>3, <1>4
<1> QED BY <1>5

\* A function takes a greatest value on a finite set.
LEMMA Greatest ==
    ASSUME NEW S, IsFiniteSet(S), S # {}, NEW f, \A x \in S : f[x] \in Int
    PROVE  \E x \in S : \A y \in S : f[y] <= f[x]
<1> DEFINE Above(x) == {y \in S : f[y] > f[x]}
           T == {Above(x) : x \in S}
<1>1. ASSUME NEW x \in S PROVE Above(x) \in FiniteSubsetsOf(S)
  <2>1. Above(x) \in SUBSET S
    OBVIOUS
  <2> HIDE DEF Above
  <2> QED BY <2>1, FS_Subset DEF FiniteSubsetsOf
<1>2. T \subseteq FiniteSubsetsOf(S) /\ T # {}
  BY <1>1
<1>3. PICK a \in T : \A b \in T : ~ (<<b, a>> \in StrictSubsetOrdering(S))
  <2> HIDE DEF T
  <2> QED BY <1>2, WFMin, FS_StrictSubsetOrderingWellFounded
<1>4. PICK x \in S : a = Above(x)
  BY <1>3
<1>5. \A y \in S : f[y] <= f[x]
  <2> SUFFICES ASSUME NEW y \in S, f[y] > f[x] PROVE FALSE
    OBVIOUS
  <2>1. y \in Above(x) /\ y \notin Above(y)
    OBVIOUS
  <2>2. \A z \in Above(y) : z \in Above(x)
    OBVIOUS
  <2>3. Above(x) \in SUBSET S /\ Above(y) \in SUBSET S
    OBVIOUS
  <2>4. <<Above(y), Above(x)>> \in StrictSubsetOrdering(S)
    <3> HIDE DEF Above
    <3> QED BY <2>1, <2>2, <2>3 DEF StrictSubsetOrdering
  <2> QED BY <2>4, <1>3, <1>4
<1> QED BY <1>5

\* A set of numbers has the minimum Min chooses.
LEMMA MinLeast ==
    ASSUME NEW S \in SUBSET Nat, S # {}
    PROVE  Min(S) \in S /\ \A m \in S : Min(S) <= m
<1>1. \E n \in S : \A m \in S : n <= m
  BY Least
<1> QED BY <1>1 DEF Min

\* A finite set of numbers has the maximum Max chooses.
LEMMA MaxGreatest ==
    ASSUME NEW S \in SUBSET Int, IsFiniteSet(S), S # {}
    PROVE  Max(S) \in S /\ \A m \in S : m <= Max(S)
<1> DEFINE f == [n \in S |-> n]
<1>1. \A n \in S : f[n] \in Int
  OBVIOUS
<1>2. \E n \in S : \A m \in S : f[m] <= f[n]
  <2> HIDE DEF f
  <2> QED BY <1>1, Greatest
<1>3. \E n \in S : \A m \in S : n >= m
  BY <1>2
<1> QED BY <1>3 DEF Max

\* What holds of 0 and goes from each number to the next holds up to n.
LEMMA CountUp ==
    ASSUME NEW n \in Nat, NEW H, 0 \in H, \A k \in 1 .. n : k - 1 \in H => k \in H
    PROVE  \A k \in 0 .. n : k \in H
<1> DEFINE Bad == {k \in 0 .. n : k \notin H}
<1> SUFFICES ASSUME Bad # {} PROVE FALSE
  OBVIOUS
<1>1. PICK k \in Bad : \A m \in Bad : k <= m
  <2>1. Bad \in SUBSET Nat
    OBVIOUS
  <2> HIDE DEF Bad
  <2> QED BY <2>1, Least
<1>2. k \in 0 .. n /\ k \notin H /\ k # 0
  OBVIOUS
<1>3. k \in 1 .. n /\ k - 1 \in 0 .. n /\ ~(k <= k - 1)
  BY <1>2
<1>4. k - 1 \notin H
  BY <1>2, <1>3
<1>5. k - 1 \in Bad
  BY <1>3, <1>4
<1> QED BY <1>1, <1>3, <1>5

-----------------------------------------------------------------------------
(* Folds over a finite set.  The recursion of MapThenFoldSet has a         *)
(* solution, built up for the subsets of at most n elements, and what      *)
(* every step keeps holds of its result.                                   *)

Picks(pick, S)   == \A s \in SUBSET S : s # {} => pick[s] \in s
Keeps(op, S, V)  == \A x \in S, v \in V : op[x][v] \in V
Folds(g, S, base, pick, op) ==
    /\ g[{}] = base
    /\ \A s \in SUBSET S : s # {} => g[s] = op[pick[s]][g[s \ {pick[s]}]]

LEMMA FoldExists ==
    ASSUME NEW S, IsFiniteSet(S), NEW V, NEW base \in V,
           NEW pick, Picks(pick, S), NEW op, Keeps(op, S, V)
    PROVE  \E g \in [SUBSET S -> V] : Folds(g, S, base, pick, op)
<1> DEFINE D(n) == {s \in SUBSET S : Cardinality(s) <= n}
           Solves(g, n) == \A s \in D(n) :
               g[s] = IF s = {} THEN base ELSE op[pick[s]][g[s \ {pick[s]}]]
           Good(n) == \E g \in [D(n) -> V] : Solves(g, n)
           Bad == {n \in Nat : ~Good(n)}
<1>0. /\ \A s \in SUBSET S : s # {} => pick[s] \in s
      /\ \A x \in S, v \in V : op[x][v] \in V
  BY DEF Picks, Keeps
<1>1. \A s \in SUBSET S : IsFiniteSet(s) /\ Cardinality(s) \in Nat
                          /\ Cardinality(s) <= Cardinality(S)
  BY FS_Subset, FS_CardinalityType
<1>2. Good(0)
  <2>1. \A s \in D(0) : s = {}
    BY <1>1, FS_EmptySet
  <2>2. [s \in D(0) |-> base] \in [D(0) -> V] /\ Solves([s \in D(0) |-> base], 0)
    BY <2>1
  <2> QED BY <2>2
<1>3. ASSUME NEW n \in Nat, Good(n) PROVE Good(n + 1)
  <2>1. PICK g \in [D(n) -> V] : Solves(g, n)
    BY <1>3
  <2> DEFINE h == [s \in D(n + 1) |-> IF s \in D(n) THEN g[s]
                                      ELSE op[pick[s]][g[s \ {pick[s]}]]]
  <2>2. ASSUME NEW s \in D(n + 1), s # {} PROVE pick[s] \in S /\ s \ {pick[s]} \in D(n)
    <3>1. pick[s] \in s /\ s \in SUBSET S /\ IsFiniteSet(s) /\ Cardinality(s) \in Nat
          /\ Cardinality(s) <= n + 1
      BY <1>0, <1>1, <2>2
    <3>2. Cardinality(s \ {pick[s]}) = Cardinality(s) - 1
      BY <3>1, FS_RemoveElement
    <3> QED BY <3>1, <3>2
  <2>3. {} \in D(n)
    BY FS_EmptySet
  <2>4. \A s \in D(n) : s \in D(n + 1)
    BY <1>1
  <2>5. ASSUME NEW s \in D(n + 1)
        PROVE  /\ h[s] \in V
               /\ h[s] = IF s = {} THEN base ELSE op[pick[s]][h[s \ {pick[s]}]]
    <3>1. CASE s = {}
      BY <2>1, <2>3, <2>4, <3>1
    <3>2. CASE s # {}
      <4>1. pick[s] \in S /\ s \ {pick[s]} \in D(n)
        BY <2>2, <3>2
      <4>2. h[s \ {pick[s]}] = g[s \ {pick[s]}] /\ g[s \ {pick[s]}] \in V
        BY <2>1, <2>4, <4>1
      <4>3. h[s] = op[pick[s]][g[s \ {pick[s]}]]
        BY <2>1, <3>2
      <4> HIDE DEF h, D
      <4> QED BY <1>0, <3>2, <4>1, <4>2, <4>3
    <3> QED BY <3>1, <3>2
  <2>6. h \in [D(n + 1) -> V] /\ Solves(h, n + 1)
    <3>1. h = [s \in D(n + 1) |-> h[s]]
      OBVIOUS
    <3> HIDE DEF h, D
    <3> QED BY <2>5, <3>1
  <2> QED BY <2>6
<1>4. Bad = {}
  <2> SUFFICES ASSUME Bad # {} PROVE FALSE
    OBVIOUS
  <2>1. PICK n \in Bad : \A m \in Bad : n <= m
    <3>1. Bad \in SUBSET Nat
      OBVIOUS
    <3> HIDE DEF Bad
    <3> QED BY <3>1, Least
  <2> HIDE DEF Good
  <2>2. n \in Nat /\ n # 0
    BY <1>2
  <2>3. n - 1 \in Nat /\ ~(n <= n - 1) /\ n - 1 + 1 = n
    BY <2>2
  <2>4. Good(n - 1)
    BY <2>1, <2>3
  <2> QED BY <1>3, <2>3, <2>4
<1>5. Cardinality(S) \in Nat /\ D(Cardinality(S)) = SUBSET S
  BY <1>1
<1>6. Good(Cardinality(S))
  <2> HIDE DEF Good
  <2> QED BY <1>4, <1>5
<1>7. {} \in SUBSET S
  OBVIOUS
<1> QED BY <1>5, <1>6, <1>7 DEF Folds

LEMMA FoldKeeps ==
    ASSUME NEW S, IsFiniteSet(S), NEW V, NEW g, g[{}] \in V[{}],
           \A s \in SUBSET S : s # {} => \E x \in s : g[s \ {x}] \in V[s \ {x}] => g[s] \in V[s]
    PROVE  \A s \in SUBSET S : g[s] \in V[s]
<1> DEFINE Bad == {Cardinality(s) : s \in {r \in SUBSET S : g[r] \notin V[r]}}
<1>1. \A s \in SUBSET S : IsFiniteSet(s) /\ Cardinality(s) \in Nat
  BY FS_Subset, FS_CardinalityType
<1> SUFFICES ASSUME Bad # {} PROVE FALSE
  OBVIOUS
<1>2. PICK n \in Bad : \A m \in Bad : n <= m
  <2>1. Bad \in SUBSET Nat
    BY <1>1
  <2> HIDE DEF Bad
  <2> QED BY <2>1, Least
<1>3. PICK s \in SUBSET S : g[s] \notin V[s] /\ n = Cardinality(s)
  OBVIOUS
<1>4. PICK x \in s : g[s \ {x}] \in V[s \ {x}] => g[s] \in V[s]
  BY <1>3
<1>5. Cardinality(s \ {x}) = Cardinality(s) - 1 /\ s \ {x} \in SUBSET S
  BY <1>1, FS_RemoveElement
<1>6. Cardinality(s \ {x}) \in Bad
  BY <1>3, <1>4, <1>5
<1>7. Cardinality(s) \in Nat
  BY <1>1
<1>8. n <= Cardinality(s \ {x})
  <2> HIDE DEF Bad
  <2> QED BY <1>2, <1>6
<1> QED BY <1>3, <1>5, <1>7, <1>8

\* FoldLeft goes through the indices from 1 on: it is a fold over 1 .. n that
\* takes the largest index last, and what it comes to for 1 .. k is what it
\* has after k steps.
LEMMA FoldIndices ==
    ASSUME NEW n \in Nat
    PROVE  /\ IsFiniteSet(1 .. n)
           /\ 1 .. 0 = {}
           /\ \A s \in SUBSET (1 .. n) : s # {} => Max(s) \in s
           /\ \A k \in 1 .. n : /\ 1 .. k \in SUBSET (1 .. n) /\ 1 .. k # {}
                                /\ Max(1 .. k) = k /\ (1 .. k) \ {k} = 1 .. k - 1
<1>1. IsFiniteSet(1 .. n)
  BY FS_Interval
<1>2. ASSUME NEW s \in SUBSET (1 .. n), s # {} PROVE Max(s) \in s /\ \A m \in s : m <= Max(s)
  <2>1. IsFiniteSet(s)
    BY <1>1, FS_Subset
  <2>2. s \in SUBSET Int
    OBVIOUS
  <2> QED BY <1>2, <2>1, <2>2, MaxGreatest
<1>3. ASSUME NEW k \in 1 .. n
      PROVE  /\ 1 .. k \in SUBSET (1 .. n) /\ 1 .. k # {}
             /\ Max(1 .. k) = k /\ (1 .. k) \ {k} = 1 .. k - 1
  <2>1. 1 .. k \in SUBSET (1 .. n) /\ k \in 1 .. k
    OBVIOUS
  <2>2. Max(1 .. k) \in 1 .. k /\ k <= Max(1 .. k)
    BY <1>2, <2>1
  <2>3. Max(1 .. k) = k
    BY <2>2
  <2>4. (1 .. k) \ {k} = 1 .. k - 1
    OBVIOUS
  <2> QED BY <2>1, <2>3, <2>4
<1> QED BY <1>1, <1>2, <1>3

-----------------------------------------------------------------------------
(* Tag arrays.                                                             *)

CleanLine(c) == [m_tag       : DOMAIN c.set_index \cup {NoTag},
                 m_status    : [c.sectors -> {INVALID, VALID, MODIFIED}],
                 last_access : Nat,
                 alloc_time  : Nat]

\* A line with a tag holds a sector, so that a probe for it does match: this
\* is what keeps a fill from allocating the line again.
HoldsSomething(l) == l.m_tag # NoTag => ~ is_invalid_line(l)

CleanTags(c, t) ==
    /\ t \in [Sets(c) -> [Ways(c) -> CleanLine(c)]]
    /\ \A s \in Sets(c), w \in Ways(c) : HoldsSomething(t[s][w])
    /\ \A s \in Sets(c), v, w \in Ways(c) :
          v # w /\ t[s][v].m_tag # NoTag => t[s][v].m_tag # t[s][w].m_tag

\* An empty cache.
LEMMA NewClean == ASSUME NEW c PROVE CleanTags(c, NewTagArray(c))
<1>1. NewLine(c) \in CleanLine(c) /\ NewLine(c).m_tag = NoTag
  BY DEF NewLine, CleanLine
<1> DEFINE l == NewLine(c)
<1>2. NewTagArray(c) = [s \in Sets(c) |-> [w \in Ways(c) |-> l]]
  BY DEF NewTagArray
<1> HIDE DEF l
<1>3. l \in CleanLine(c) /\ l.m_tag = NoTag
  BY <1>1 DEF l
<1> QED BY <1>2, <1>3 DEF CleanTags, HoldsSomething

\* One line changes, and its tag is the old one or one nobody has.
LEMMA WithLineClean ==
    ASSUME NEW c, NEW t, CleanTags(c, t), NEW a \in DOMAIN c.set_index, NEW w, NEW l,
           w \in Ways(c) =>
              /\ l \in CleanLine(c) /\ HoldsSomething(l)
              /\ \/ l.m_tag = Line(c, t, a, w).m_tag
                 \/ \A v \in Ways(c) : Line(c, t, a, v).m_tag # l.m_tag
    PROVE  CleanTags(c, WithLine(c, t, a, w, l))
<1> DEFINE z == c.set_index[a]
           u == WithLine(c, t, a, w, l)
<1>1. z \in Sets(c)
  BY DEF Sets
<1>2. u = [t EXCEPT ![z][w] = l] /\ \A v : Line(c, t, a, v) = t[z][v]
  BY DEF WithLine, Line
<1>3. t \in [Sets(c) -> [Ways(c) -> CleanLine(c)]]
  BY DEF CleanTags
<1> HIDE DEF z, u
<1>4. CASE w \notin Ways(c)
  <2>1. u = t
    <3>1. [t[z] EXCEPT ![w] = l] = t[z]
      BY <1>1, <1>3, <1>4
    <3>2. u = [t EXCEPT ![z] = [t[z] EXCEPT ![w] = l]]
      BY <1>2
    <3> QED BY <1>1, <1>3, <3>1, <3>2
  <2> QED BY <2>1 DEF u
<1>5. CASE w \in Ways(c)
  <2>1. /\ l \in CleanLine(c) /\ HoldsSomething(l)
        /\ l.m_tag = t[z][w].m_tag \/ \A v \in Ways(c) : t[z][v].m_tag # l.m_tag
    BY <1>2, <1>5
  <2>2. /\ u \in [Sets(c) -> [Ways(c) -> CleanLine(c)]]
        /\ u[z][w] = l
        /\ \A s \in Sets(c), v \in Ways(c) : s # z \/ v # w => u[s][v] = t[s][v]
    BY <1>1, <1>2, <1>3, <1>5, <2>1
  <2>3. \A s \in Sets(c), v \in Ways(c) : HoldsSomething(u[s][v])
    BY <2>1, <2>2 DEF CleanTags
  <2>4. ASSUME NEW s \in Sets(c), NEW v \in Ways(c), NEW x \in Ways(c),
               v # x, u[s][v].m_tag # NoTag
        PROVE  u[s][v].m_tag # u[s][x].m_tag
    <3>1. /\ \A y \in Ways(c) : t[s][y].m_tag # NoTag =>
                \A k \in Ways(c) : y # k => t[s][y].m_tag # t[s][k].m_tag
      BY DEF CleanTags
    <3>2. CASE s = z /\ v = w
      BY <2>1, <2>2, <2>4, <3>1, <3>2
    <3>3. CASE s = z /\ x = w
      BY <2>1, <2>2, <2>4, <3>1, <3>3
    <3>4. CASE ~ (s = z /\ v = w) /\ ~ (s = z /\ x = w)
      BY <2>2, <2>4, <3>1, <3>4
    <3> QED BY <3>2, <3>3, <3>4
  <2> QED BY <2>2, <2>3, <2>4 DEF CleanTags, u
<1> QED BY <1>4, <1>5

\* A probe that misses the line finds no way with its tag.
LEMMA MissNoMatch ==
    ASSUME NEW c, NEW t, CleanTags(c, t), NEW a \in DOMAIN c.set_index, a # NoTag, NEW x,
           tag_array_probe(c, t, a, x).status = MISS
    PROVE  \A v \in Ways(c) : Line(c, t, a, v).m_tag # a
<1>1. {w \in Ways(c) : Line(c, t, a, w).m_tag = a /\ ~is_invalid_line(Line(c, t, a, w))} = {}
  BY DEF tag_array_probe, HIT, HIT_RESERVED, MISS, RESERVATION_FAIL, SECTOR_MISS
<1>2. \A v \in Ways(c) : HoldsSomething(Line(c, t, a, v))
  BY DEF CleanTags, Line, Sets
<1> QED BY <1>1, <1>2 DEF HoldsSomething

\* A way of the set of an address.
LEMMA CleanWay ==
    ASSUME NEW c, NEW t, CleanTags(c, t), NEW a \in DOMAIN c.set_index, NEW w \in Ways(c)
    PROVE  Line(c, t, a, w) \in CleanLine(c) /\ HoldsSomething(Line(c, t, a, w))
BY DEF CleanTags, Line, Sets

\* A fill allocates the line when no way has it; the sector it fills is
\* VALID in the end.
LEMMA FillClean ==
    ASSUME NEW c, NEW t, CleanTags(c, t), NEW a \in DOMAIN c.set_index, a # NoTag,
           NEW x \in c.sectors, NEW time \in Nat
    PROVE  CleanTags(c, tag_array_fill(c, t, a, x, time))
<1> DEFINE p == tag_array_probe(c, t, a, x)
           w == p.idx
           l == Line(c, t, a, w)
           allocated == CASE p.status = MISS        -> allocate_line(l, a, time, x)
                          [] p.status = SECTOR_MISS -> allocate_sector(l, time, x)
                          [] OTHER                  -> l
<1>1. tag_array_fill(c, t, a, x, time) = WithLine(c, t, a, w, fill(allocated, x))
  BY Zenon DEF tag_array_fill
<1>2. p.status = MISS => \A v \in Ways(c) : Line(c, t, a, v).m_tag # a
  BY MissNoMatch
<1>3. \/ p.status = MISS /\ allocated = allocate_line(l, a, time, x)
      \/ p.status = SECTOR_MISS /\ allocated = allocate_sector(l, time, x)
      \/ allocated = l
  <2>1. MISS # SECTOR_MISS
    BY DEF MISS, SECTOR_MISS
  <2> HIDE DEF p, l
  <2> QED BY <2>1
<1> HIDE DEF p, w, allocated
<1>4. ASSUME w \in Ways(c)
      PROVE  /\ fill(allocated, x) \in CleanLine(c)
             /\ HoldsSomething(fill(allocated, x))
             /\ \/ fill(allocated, x).m_tag = l.m_tag
                \/ \A v \in Ways(c) : Line(c, t, a, v).m_tag # fill(allocated, x).m_tag
  <2>1. l \in CleanLine(c)
    BY <1>4, CleanWay
  <2> HIDE DEF l
  <2>2. /\ l.m_tag \in DOMAIN c.set_index \cup {NoTag}
        /\ l.m_status \in [c.sectors -> {INVALID, VALID, MODIFIED}]
        /\ l.last_access \in Nat /\ l.alloc_time \in Nat
        /\ l = [m_tag |-> l.m_tag, m_status |-> l.m_status,
                last_access |-> l.last_access, alloc_time |-> l.alloc_time]
    BY <2>1 DEF CleanLine
  <2>3. CASE p.status = MISS /\ allocated = allocate_line(l, a, time, x)
    <3> DEFINE f == [y \in c.sectors |-> IF y = x THEN VALID ELSE INVALID]
    <3>1. fill(allocated, x) = [m_tag |-> a, m_status |-> f, last_access |-> time, alloc_time |-> time]
      BY <2>2, <2>3 DEF fill, set_status, allocate_line
    <3>2. f \in [c.sectors -> {INVALID, VALID, MODIFIED}] /\ f[x] # INVALID /\ DOMAIN f = c.sectors
      BY DEF INVALID, VALID
    <3> HIDE DEF f
    <3>3. fill(allocated, x) \in CleanLine(c)
      BY <3>1, <3>2 DEF CleanLine
    <3>4. HoldsSomething(fill(allocated, x))
      BY <3>1, <3>2 DEF HoldsSomething, is_invalid_line
    <3> QED BY <1>2, <2>3, <3>1, <3>3, <3>4
  <2>4. CASE allocated = allocate_sector(l, time, x) \/ allocated = l
    <3> DEFINE f == [l.m_status EXCEPT ![x] = VALID]
               k == IF allocated = l THEN l.last_access ELSE time
    <3>1. fill(allocated, x) = [m_tag |-> l.m_tag, m_status |-> f, last_access |-> k,
                                alloc_time |-> l.alloc_time]
      <4>1. CASE allocated = l
        <5>1. k = l.last_access
          BY <4>1
        <5> QED BY <2>2, <4>1, <5>1 DEF fill, set_status
      <4>2. CASE allocated # l
        <5>1. k = time /\ allocated = [l EXCEPT !.m_status[x] = RESERVED, !.last_access = time]
          BY <2>4, <4>2 DEF allocate_sector
        <5>2. allocated = [m_tag |-> l.m_tag, m_status |-> [l.m_status EXCEPT ![x] = RESERVED],
                           last_access |-> time, alloc_time |-> l.alloc_time]
          BY <2>2, <5>1
        <5>3. [[l.m_status EXCEPT ![x] = RESERVED] EXCEPT ![x] = VALID] = f
          BY <2>2
        <5>4. fill(allocated, x) = [allocated EXCEPT !.m_status[x] = VALID]
          BY DEF fill, set_status
        <5> HIDE DEF f, k
        <5> QED BY <5>1, <5>2, <5>3, <5>4
      <4> QED BY <4>1, <4>2
    <3>2. f \in [c.sectors -> {INVALID, VALID, MODIFIED}] /\ f[x] # INVALID /\ DOMAIN f = c.sectors
      BY <2>2 DEF INVALID, VALID
    <3>3. k \in Nat
      BY <2>2
    <3> HIDE DEF f, k
    <3>4. fill(allocated, x) \in CleanLine(c)
      BY <2>2, <3>1, <3>2, <3>3 DEF CleanLine
    <3>5. HoldsSomething(fill(allocated, x))
      BY <3>1, <3>2 DEF HoldsSomething, is_invalid_line
    <3> QED BY <3>1, <3>4, <3>5
  <2> QED BY <1>3, <2>3, <2>4 DEF l
<1> QED BY <1>1, <1>4, WithLineClean

\* A lookup only changes a time.
LEMMA AccessClean ==
    ASSUME NEW c, NEW t, CleanTags(c, t), NEW a \in DOMAIN c.set_index,
           NEW x, NEW time \in Nat
    PROVE  CleanTags(c, tag_array_access(c, t, a, x, time))
<1> DEFINE w == tag_array_probe(c, t, a, x).idx
           l == Line(c, t, a, w)
           m == set_last_access_time(l, time)
<1>1. \/ tag_array_access(c, t, a, x, time) = WithLine(c, t, a, w, m)
      \/ tag_array_access(c, t, a, x, time) = t
  BY Zenon DEF tag_array_access
<1> HIDE DEF w
<1>2. w \in Ways(c) => m \in CleanLine(c) /\ HoldsSomething(m) /\ m.m_tag = Line(c, t, a, w).m_tag
  <2> SUFFICES ASSUME w \in Ways(c)
               PROVE  m \in CleanLine(c) /\ HoldsSomething(m) /\ m.m_tag = l.m_tag
    OBVIOUS
  <2>1. l \in CleanLine(c) /\ HoldsSomething(l)
    BY CleanWay
  <2> HIDE DEF l
  <2>2. m \in CleanLine(c) /\ m.m_tag = l.m_tag /\ m.m_status = l.m_status
    BY <2>1 DEF CleanLine, set_last_access_time
  <2> QED BY <2>1, <2>2 DEF HoldsSomething, is_invalid_line
<1> HIDE DEF m
<1> QED BY <1>1, <1>2, WithLineClean

\* A store that hits marks the sector.
LEMMA MarkClean ==
    ASSUME NEW c, NEW t, CleanTags(c, t), NEW a \in DOMAIN c.set_index,
           NEW x \in c.sectors, NEW w
    PROVE  CleanTags(c, WithLine(c, t, a, w, set_status(Line(c, t, a, w), MODIFIED, x)))
<1> DEFINE l == Line(c, t, a, w)
           m == set_status(l, MODIFIED, x)
<1>1. w \in Ways(c) => m \in CleanLine(c) /\ HoldsSomething(m) /\ m.m_tag = l.m_tag
  <2> SUFFICES ASSUME w \in Ways(c)
               PROVE  m \in CleanLine(c) /\ HoldsSomething(m) /\ m.m_tag = l.m_tag
    OBVIOUS
  <2>1. l \in CleanLine(c)
    BY CleanWay
  <2> HIDE DEF l
  <2>2. m \in CleanLine(c) /\ m.m_tag = l.m_tag /\ m.m_status[x] = MODIFIED /\ x \in DOMAIN m.m_status
    BY <2>1 DEF CleanLine, set_status
  <2> QED BY <2>2 DEF HoldsSomething, is_invalid_line, MODIFIED, INVALID
<1> HIDE DEF m
<1>2. CleanTags(c, WithLine(c, t, a, w, m))
  BY <1>1, WithLineClean
<1> QED BY <1>2 DEF m

\* What one line of a set becomes, and the others keep.
LEMMA WithLineLine ==
    ASSUME NEW c, NEW t, CleanTags(c, t), NEW a \in DOMAIN c.set_index,
           NEW b \in DOMAIN c.set_index, NEW w, NEW l, NEW v \in Ways(c)
    PROVE  Line(c, WithLine(c, t, b, w, l), a, v) =
              IF c.set_index[a] = c.set_index[b] /\ v = w THEN l ELSE Line(c, t, a, v)
<1>1. c.set_index[a] \in Sets(c) /\ c.set_index[b] \in Sets(c)
  BY DEF Sets
<1>2. t \in [Sets(c) -> [Ways(c) -> CleanLine(c)]]
  BY DEF CleanTags
<1> QED BY <1>1, <1>2 DEF Line, WithLine

\* In a clean array a way holds a sector unless the sector is INVALID.
LEMMA HoldersClean ==
    ASSUME NEW c, NEW t, CleanTags(c, t), NEW a \in DOMAIN c.set_index,
           NEW x \in c.sectors, NEW w \in Ways(c)
    PROVE  w \in Holders(c, t, a, x) <=> /\ Line(c, t, a, w).m_tag = a
                                         /\ Line(c, t, a, w).m_status[x] # INVALID
<1>1. Line(c, t, a, w) \in CleanLine(c)
  BY CleanWay
<1>2. Line(c, t, a, w).m_status[x] \in {INVALID, VALID, MODIFIED}
  BY <1>1 DEF CleanLine
<1> QED BY <1>2 DEF Holders, INVALID, VALID, MODIFIED

\* A sector stays in the cache when one way changes that held nothing, or
\* that keeps its tag and what it held.
LEMMA HeldStays ==
    ASSUME NEW c, NEW t, CleanTags(c, t), NEW a \in DOMAIN c.set_index,
           NEW b \in DOMAIN c.set_index, NEW x \in c.sectors, NEW w, NEW l,
           CleanTags(c, WithLine(c, t, b, w, l)),
           w \in Ways(c) =>
              \/ is_invalid_line(Line(c, t, b, w))
              \/ /\ l.m_tag = Line(c, t, b, w).m_tag
                 /\ \A y \in c.sectors : Line(c, t, b, w).m_status[y] # INVALID
                                         => l.m_status[y] # INVALID,
           Holders(c, t, a, x) # {}
    PROVE  Holders(c, WithLine(c, t, b, w, l), a, x) # {}
<1> DEFINE u == WithLine(c, t, b, w, l)
<1>1. PICK v \in Ways(c) : v \in Holders(c, t, a, x)
  BY DEF Holders
<1>2. Line(c, t, a, v).m_tag = a /\ Line(c, t, a, v).m_status[x] # INVALID
  BY <1>1, HoldersClean
<1>3. Line(c, u, a, v).m_tag = a /\ Line(c, u, a, v).m_status[x] # INVALID
  <2>1. CASE c.set_index[a] = c.set_index[b] /\ v = w
    <3>1. Line(c, u, a, v) = l
      BY <2>1, WithLineLine
    <3>2. Line(c, t, b, w) = Line(c, t, a, v)
      BY <2>1 DEF Line
    <3>3. ~is_invalid_line(Line(c, t, a, v))
      <4>1. Line(c, t, a, v) \in CleanLine(c)
        BY CleanWay
      <4>2. x \in DOMAIN Line(c, t, a, v).m_status
        BY <4>1 DEF CleanLine
      <4> QED BY <1>2, <4>2 DEF is_invalid_line
    <3> HIDE DEF u
    <3> QED BY <1>1, <1>2, <2>1, <3>1, <3>2, <3>3
  <2>2. CASE ~(c.set_index[a] = c.set_index[b] /\ v = w)
    <3>1. Line(c, u, a, v) = Line(c, t, a, v)
      BY <2>2, WithLineLine
    <3> HIDE DEF u
    <3> QED BY <1>2, <3>1
  <2> QED BY <2>1, <2>2
<1> HIDE DEF u
<1>4. v \in Holders(c, u, a, x)
  BY <1>1, <1>3, HoldersClean DEF u
<1> QED BY <1>4 DEF u

\* A lookup leaves every sector in the cache where it is.
LEMMA AccessHolds ==
    ASSUME NEW c, NEW t, CleanTags(c, t), NEW a \in DOMAIN c.set_index,
           NEW b \in DOMAIN c.set_index, NEW x \in c.sectors, NEW y, NEW time \in Nat,
           Holders(c, t, a, x) # {}
    PROVE  Holders(c, tag_array_access(c, t, b, y, time), a, x) # {}
<1> DEFINE w == tag_array_probe(c, t, b, y).idx
           l == Line(c, t, b, w)
           m == set_last_access_time(l, time)
<1>1. \/ tag_array_access(c, t, b, y, time) = WithLine(c, t, b, w, m)
      \/ tag_array_access(c, t, b, y, time) = t
  BY Zenon DEF tag_array_access
<1>2. CleanTags(c, tag_array_access(c, t, b, y, time))
  BY AccessClean
<1> HIDE DEF w
<1>3. w \in Ways(c) => m.m_tag = l.m_tag /\ m.m_status = l.m_status
  <2> SUFFICES ASSUME w \in Ways(c) PROVE m.m_tag = l.m_tag /\ m.m_status = l.m_status
    OBVIOUS
  <2>1. l \in CleanLine(c)
    BY CleanWay
  <2> HIDE DEF l
  <2> QED BY <2>1 DEF CleanLine, set_last_access_time
<1> HIDE DEF m
<1>4. CASE tag_array_access(c, t, b, y, time) = WithLine(c, t, b, w, m)
  <2>1. CleanTags(c, WithLine(c, t, b, w, m))
    BY <1>2, <1>4
  <2>2. Holders(c, WithLine(c, t, b, w, m), a, x) # {}
    BY <1>3, <2>1, HeldStays
  <2> QED BY <1>4, <2>2
<1> QED BY <1>1, <1>4

-----------------------------------------------------------------------------
(* Replacement.                                                            *)

\* What the replacement policy goes by.
Age(c, l) == IF c.m_replacement_policy = "LRU" THEN l.last_access ELSE l.alloc_time

\* The victim is a candidate, and none is older.
LEMMA VictimOldest ==
    ASSUME NEW c, c.m_assoc \in Nat, NEW t, CleanTags(c, t), NEW a \in DOMAIN c.set_index,
           NEW W \in SUBSET Ways(c), W # {}
    PROVE  /\ Victim(c, t, a, W) \in W
           /\ \A v \in W : Age(c, Line(c, t, a, Victim(c, t, a, W))) <= Age(c, Line(c, t, a, v))
<1> DEFINE age(w) == IF c.m_replacement_policy = "LRU"
                     THEN Line(c, t, a, w).last_access ELSE Line(c, t, a, w).alloc_time
           ages == {age(w) : w \in W}
<1>1. \A w \in W : age(w) \in Nat /\ w \in Nat /\ age(w) = Age(c, Line(c, t, a, w))
  <2> TAKE w \in W
  <2>1. Line(c, t, a, w) \in CleanLine(c)
    BY CleanWay
  <2>2. Line(c, t, a, w).last_access \in Nat /\ Line(c, t, a, w).alloc_time \in Nat
    BY <2>1 DEF CleanLine
  <2>3. w \in Nat
    BY DEF Ways
  <2> QED BY <2>2, <2>3 DEF Age
<1>2. Victim(c, t, a, W) = CHOOSE w \in W : \A v \in W :
          age(w) < age(v) \/ (age(w) = age(v) /\ w <= v)
  BY Zenon DEF Victim
<1> HIDE DEF age
<1>3. PICK m \in ages : \A k \in ages : m <= k
  <2>1. ages \in SUBSET Nat /\ ages # {}
    BY <1>1
  <2> HIDE DEF ages
  <2> QED BY <2>1, Least
<1> DEFINE first == {w \in W : age(w) = m}
<1>4. PICK n \in first : \A k \in first : n <= k
  <2>1. first \in SUBSET Nat /\ first # {}
    BY <1>1, <1>3
  <2> HIDE DEF first
  <2> QED BY <2>1, Least
<1>5. \A v \in W : age(n) < age(v) \/ (age(n) = age(v) /\ n <= v)
  <2> TAKE v \in W
  <2>1. age(n) = m /\ m <= age(v) /\ age(v) \in Nat /\ m \in Nat
    BY <1>1, <1>3, <1>4
  <2>2. age(v) = m => n <= v
    BY <1>4
  <2> QED BY <2>1, <2>2
<1>6. \E w \in W : \A v \in W : age(w) < age(v) \/ (age(w) = age(v) /\ w <= v)
  BY <1>4, <1>5
<1> DEFINE w == Victim(c, t, a, W)
<1>7. w \in W /\ \A v \in W : age(w) < age(v) \/ (age(w) = age(v) /\ w <= v)
  BY <1>2, <1>6
<1> HIDE DEF w
<1>8. \A v \in W : Age(c, Line(c, t, a, w)) <= Age(c, Line(c, t, a, v))
  BY <1>1, <1>7
<1> QED BY <1>7, <1>8 DEF w

\* What a fill does to the one way it changes: it evicts the oldest way, or
\* one that holds nothing, when no way has the line, or marks the sector in
\* the way that has it, whose age only changes when the sector was missing.
LEMMA FillEffect ==
    ASSUME NEW c, c.m_assoc \in Nat \ {0}, NEW t, CleanTags(c, t),
           NEW a \in DOMAIN c.set_index, a # NoTag, NEW x \in c.sectors, NEW time \in Nat
    PROVE  \E i \in Ways(c), m \in CleanLine(c) :
              LET l == Line(c, t, a, i) IN
              /\ tag_array_fill(c, t, a, x, time) = WithLine(c, t, a, i, m)
              /\ m.m_tag = a /\ m.m_status[x] # INVALID
              /\ \/ /\ \A v \in Ways(c) : Line(c, t, a, v).m_tag # a
                    /\ m.last_access = time /\ m.alloc_time = time
                    /\ \/ is_invalid_line(l)
                       \/ \A v \in Ways(c) : Age(c, l) <= Age(c, Line(c, t, a, v))
                 \/ /\ l.m_tag = a
                    /\ m.alloc_time = l.alloc_time
                    /\ \A y \in c.sectors : y # x => m.m_status[y] = l.m_status[y]
                    /\ \/ m.last_access = time
                       \/ m.last_access = l.last_access /\ l.m_status[x] # INVALID
<1> DEFINE line(w)    == Line(c, t, a, w)
           matching   == {w \in Ways(c) : line(w).m_tag = a /\ ~is_invalid_line(line(w))}
           unreserved == {w \in Ways(c) : ~is_reserved_line(line(w))}
           invalid    == {w \in Ways(c) : is_invalid_line(line(w))}
           p == tag_array_probe(c, t, a, x)
           l == line(p.idx)
           allocated == CASE p.status = MISS        -> allocate_line(l, a, time, x)
                          [] p.status = SECTOR_MISS -> allocate_sector(l, time, x)
                          [] OTHER                  -> l
           m == fill(allocated, x)
<1>1. tag_array_fill(c, t, a, x, time) = WithLine(c, t, a, p.idx, m)
  BY Zenon DEF tag_array_fill
<1>2. 0 \in Ways(c) /\ Ways(c) \in SUBSET Nat /\ IsFiniteSet(Ways(c))
  <2>1. 0 \in Ways(c) /\ Ways(c) \in SUBSET Nat
    BY DEF Ways
  <2>2. 0 \in Int /\ c.m_assoc - 1 \in Int
    OBVIOUS
  <2>3. IsFiniteSet(Ways(c))
    BY <2>2, FS_Interval DEF Ways
  <2> QED BY <2>1, <2>3
<1>3. \A w \in Ways(c) : line(w) \in CleanLine(c) /\ HoldsSomething(line(w)) /\ ~is_reserved_line(line(w))
  <2> TAKE w \in Ways(c)
  <2>1. line(w) \in CleanLine(c) /\ HoldsSomething(line(w))
    BY CleanWay
  <2> HIDE DEF line
  <2>2. ~is_reserved_line(line(w))
    BY <2>1 DEF CleanLine, is_reserved_line, INVALID, VALID, MODIFIED, RESERVED
  <2> QED BY <2>1, <2>2
<1>4. /\ MISS # SECTOR_MISS /\ MISS # HIT /\ HIT # SECTOR_MISS /\ MISS # HIT_RESERVED
      /\ SECTOR_MISS # HIT_RESERVED /\ HIT # HIT_RESERVED
  BY DEF MISS, SECTOR_MISS, HIT, HIT_RESERVED
<1>5. p = IF matching # {}
          THEN LET w == Min(matching) IN
               [status |-> CASE line(w).m_status[x] = RESERVED -> HIT_RESERVED
                             [] line(w).m_status[x] = INVALID  -> SECTOR_MISS
                             [] OTHER                          -> HIT,
                idx |-> w]
          ELSE IF unreserved = {}
          THEN [status |-> RESERVATION_FAIL, idx |-> 0]
          ELSE [status |-> MISS,
                idx    |-> IF invalid # {} THEN Max(invalid)
                           ELSE Victim(c, t, a, unreserved)]
  BY Zenon DEF tag_array_probe
<1> HIDE DEF p
<1>6. CASE matching # {}
  <2> DEFINE w == Min(matching)
             s == CASE line(w).m_status[x] = RESERVED -> HIT_RESERVED
                    [] line(w).m_status[x] = INVALID  -> SECTOR_MISS
                    [] OTHER                          -> HIT
  <2>1. w \in matching
    <3>1. matching \in SUBSET Nat
      BY <1>2
    <3> HIDE DEF matching
    <3> QED BY <1>6, <3>1, MinLeast
  <2>2. p.idx = w /\ p.status = s
    <3> HIDE DEF matching, w
    <3> QED BY <1>5, <1>6 DEF w
  <2> HIDE DEF w
  <2>3. w \in Ways(c) /\ line(w).m_tag = a /\ line(w) \in CleanLine(c)
    BY <1>3, <2>1
  <2>4. line(w).m_status[x] # RESERVED
    BY <2>3 DEF CleanLine, INVALID, VALID, MODIFIED, RESERVED
  <2>5. s = IF line(w).m_status[x] = INVALID THEN SECTOR_MISS ELSE HIT
    <3> HIDE DEF line
    <3> QED BY <2>4
  <2>6. l = line(w)
    BY <2>2
  <2>7. /\ l.m_tag \in DOMAIN c.set_index \cup {NoTag} /\ l.m_tag = a
        /\ l.m_status \in [c.sectors -> {INVALID, VALID, MODIFIED}]
        /\ l.last_access \in Nat /\ l.alloc_time \in Nat
        /\ l = [m_tag |-> l.m_tag, m_status |-> l.m_status,
                last_access |-> l.last_access, alloc_time |-> l.alloc_time]
    BY <2>3, <2>6 DEF CleanLine
  <2>8. \/ allocated = allocate_sector(l, time, x)
        \/ allocated = l /\ l.m_status[x] # INVALID
    <3>1. \/ p.status = SECTOR_MISS
          \/ p.status = HIT /\ l.m_status[x] # INVALID
      <4> HIDE DEF s, l
      <4> QED BY <2>2, <2>5, <2>6
    <3>2. p.status # MISS
      BY <1>4, <3>1
    <3> HIDE DEF l
    <3> QED BY <1>4, <3>1, <3>2
  <2> DEFINE f == [l.m_status EXCEPT ![x] = VALID]
  <2> HIDE DEF allocated, l
  <2>9. \E k : /\ m = [m_tag |-> l.m_tag, m_status |-> f, last_access |-> k,
                       alloc_time |-> l.alloc_time]
               /\ \/ k = time
                  \/ k = l.last_access /\ l.m_status[x] # INVALID
    <3>1. CASE allocated = l /\ l.m_status[x] # INVALID
      <4>1. m = [m_tag |-> l.m_tag, m_status |-> f, last_access |-> l.last_access,
                 alloc_time |-> l.alloc_time]
        BY <2>7, <3>1 DEF fill, set_status
      <4> QED BY <3>1, <4>1
    <3>2. CASE allocated = allocate_sector(l, time, x)
      <4>1. allocated = [m_tag |-> l.m_tag, m_status |-> [l.m_status EXCEPT ![x] = RESERVED],
                         last_access |-> time, alloc_time |-> l.alloc_time]
        BY <2>7, <3>2 DEF allocate_sector
      <4>2. [[l.m_status EXCEPT ![x] = RESERVED] EXCEPT ![x] = VALID] = f
        BY <2>7
      <4>3. m = [allocated EXCEPT !.m_status[x] = VALID]
        BY DEF fill, set_status
      <4>4. m = [m_tag |-> l.m_tag, m_status |-> f, last_access |-> time,
                 alloc_time |-> l.alloc_time]
        <5> HIDE DEF f, m
        <5> QED BY <4>1, <4>2, <4>3
      <4> QED BY <4>4
    <3> QED BY <2>8, <3>1, <3>2
  <2>10. /\ f \in [c.sectors -> {INVALID, VALID, MODIFIED}] /\ f[x] # INVALID
         /\ \A y \in c.sectors : y # x => f[y] = l.m_status[y]
    BY <2>7 DEF INVALID, VALID
  <2> HIDE DEF f, m
  <2>11. /\ m \in CleanLine(c) /\ m.m_tag = a /\ m.m_status[x] # INVALID
         /\ m.alloc_time = l.alloc_time
         /\ \A y \in c.sectors : y # x => m.m_status[y] = l.m_status[y]
         /\ \/ m.last_access = time
            \/ m.last_access = l.last_access /\ l.m_status[x] # INVALID
    BY <2>7, <2>9, <2>10 DEF CleanLine
  <2> HIDE DEF matching
  <2>12. p.idx \in Ways(c)
    BY <2>2, <2>3
  <2> QED BY <1>1, <2>7, <2>11, <2>12 DEF l
<1>7. CASE matching = {}
  <2>1. unreserved = Ways(c) /\ unreserved # {}
    <3> HIDE DEF line
    <3> QED BY <1>2, <1>3
  <2>2. p.status = MISS /\ p.idx = IF invalid # {} THEN Max(invalid)
                                   ELSE Victim(c, t, a, unreserved)
    <3> HIDE DEF matching, unreserved, invalid
    <3> QED BY <1>5, <1>7, <2>1
  <2>3. \A v \in Ways(c) : Line(c, t, a, v).m_tag # a
    BY <1>3, <1>7 DEF HoldsSomething
  <2>4. p.idx \in Ways(c) /\ \/ is_invalid_line(l)
                             \/ \A v \in Ways(c) : Age(c, l) <= Age(c, Line(c, t, a, v))
    <3>1. CASE invalid # {}
      <4>1. IsFiniteSet(invalid) /\ invalid \in SUBSET Nat
        <5>1. invalid \in SUBSET Ways(c)
          OBVIOUS
        <5> HIDE DEF invalid
        <5> QED BY <1>2, <5>1, FS_Subset
      <4>2. p.idx = Max(invalid) /\ Max(invalid) \in invalid
        <5> HIDE DEF invalid
        <5> QED BY <2>2, <3>1, <4>1, MaxGreatest
      <4> QED BY <4>2
    <3>2. CASE invalid = {}
      <4>1. p.idx = Victim(c, t, a, Ways(c))
        <5> HIDE DEF unreserved, invalid
        <5> QED BY <2>1, <2>2, <3>2
      <4>2. Ways(c) # {}
        BY <1>2
      <4>3. c.m_assoc \in Nat /\ Ways(c) \in SUBSET Ways(c)
        OBVIOUS
      <4>4. /\ Victim(c, t, a, Ways(c)) \in Ways(c)
            /\ \A v \in Ways(c) : Age(c, Line(c, t, a, Victim(c, t, a, Ways(c))))
                                     <= Age(c, Line(c, t, a, v))
        BY <4>2, <4>3, VictimOldest
      <4> QED BY <4>1, <4>4
    <3> QED BY <3>1, <3>2
  <2>5. allocated = allocate_line(l, a, time, x)
    <3>1. p.status = MISS
      BY <2>2
    <3> HIDE DEF l
    <3> QED BY <1>4, <3>1
  <2>6. l.m_status \in [c.sectors -> {INVALID, VALID, MODIFIED}]
    BY <1>3, <2>4 DEF CleanLine
  <2> DEFINE f == [y \in c.sectors |-> IF y = x THEN VALID ELSE INVALID]
  <2> HIDE DEF allocated, l
  <2>7. m = [m_tag |-> a, m_status |-> f, last_access |-> time, alloc_time |-> time]
    BY <2>5, <2>6 DEF fill, set_status, allocate_line
  <2>8. f \in [c.sectors -> {INVALID, VALID, MODIFIED}] /\ f[x] # INVALID
    BY DEF INVALID, VALID
  <2> HIDE DEF f, m
  <2>9. /\ m \in CleanLine(c) /\ m.m_tag = a /\ m.m_status[x] # INVALID
        /\ m.last_access = time /\ m.alloc_time = time
    BY <2>7, <2>8 DEF CleanLine
  <2> QED BY <1>1, <2>3, <2>4, <2>9 DEF l
<1> QED BY <1>6, <1>7

\* No line is from the future.
AgedTags(c, t, time) ==
    \A a \in DOMAIN c.set_index, w \in Ways(c) : Age(c, Line(c, t, a, w)) <= time

LEMMA WithLineAged ==
    ASSUME NEW c, NEW t, CleanTags(c, t), NEW time \in Nat, AgedTags(c, t, time),
           NEW b \in DOMAIN c.set_index, NEW w, NEW l, w \in Ways(c) => Age(c, l) <= time
    PROVE  AgedTags(c, WithLine(c, t, b, w, l), time)
<1> SUFFICES ASSUME NEW a \in DOMAIN c.set_index, NEW v \in Ways(c)
             PROVE  Age(c, Line(c, WithLine(c, t, b, w, l), a, v)) <= time
  BY DEF AgedTags
<1>1. Line(c, WithLine(c, t, b, w, l), a, v) =
         IF c.set_index[a] = c.set_index[b] /\ v = w THEN l ELSE Line(c, t, a, v)
  BY WithLineLine
<1>2. Age(c, Line(c, t, a, v)) <= time
  BY DEF AgedTags
<1> QED BY <1>1, <1>2

LEMMA AccessAged ==
    ASSUME NEW c, NEW t, CleanTags(c, t), NEW time \in Nat, AgedTags(c, t, time),
           NEW b \in DOMAIN c.set_index, NEW x
    PROVE  AgedTags(c, tag_array_access(c, t, b, x, time), time)
<1> DEFINE w == tag_array_probe(c, t, b, x).idx
           l == Line(c, t, b, w)
           m == set_last_access_time(l, time)
<1>1. \/ tag_array_access(c, t, b, x, time) = WithLine(c, t, b, w, m)
      \/ tag_array_access(c, t, b, x, time) = t
  BY Zenon DEF tag_array_access
<1> HIDE DEF w
<1>2. w \in Ways(c) => Age(c, m) <= time
  <2> SUFFICES ASSUME w \in Ways(c) PROVE Age(c, m) <= time
    OBVIOUS
  <2>1. l \in CleanLine(c) /\ Age(c, l) <= time
    BY CleanWay DEF AgedTags
  <2> HIDE DEF l
  <2>2. m.last_access = time /\ m.alloc_time = l.alloc_time
    BY <2>1 DEF CleanLine, set_last_access_time
  <2> HIDE DEF m
  <2> QED BY <2>1, <2>2 DEF Age
<1> HIDE DEF m
<1>3. AgedTags(c, WithLine(c, t, b, w, m), time)
  BY <1>2, WithLineAged
<1> QED BY <1>1, <1>3
=============================================================================
