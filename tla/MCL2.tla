-------------------------------- MODULE MCL2 --------------------------------
(* Instances of L2System for TLC.  A request is a record; the functions of *)
(* module Requests read its fields.                                        *)
EXTENDS L2System

Load(n, a, x)  == [n |-> n, line |-> a, sector |-> x, write |-> FALSE]
Store(n, a, x) == [n |-> n, line |-> a, sector |-> x, write |-> TRUE]

AddressOf == [mf \in MemFetch |-> mf.line]
SectorOf  == [mf \in MemFetch |-> mf.sector]
WriteOf   == [mf \in MemFetch |-> mf.write]

\* One set of two ways: two loads of a sector that can merge, a store to it,
\* a load of another sector of the line, and two more lines that compete for
\* the ways.
Mixed == {Load(1, 1, 0), Load(2, 1, 0), Store(1, 1, 0), Load(1, 1, 1),
          Load(1, 2, 0), Store(1, 3, 0)}

\* Every page is in the TLB, or the page of the first load and of the last
\* store is not.
FirstMisses == {[mf \in MemFetch |-> TRUE],
                [mf \in MemFetch |-> mf \notin {Load(1, 1, 0), Store(1, 3, 0)}]}

\* Fewer requests: two loads that merge, a load
\* that finds the table full, a store.
Few == {Load(1, 1, 0), Load(2, 1, 0), Load(1, 2, 0), Store(1, 1, 1)}

OneSet == [m_assoc |-> 2, m_replacement_policy |-> "LRU",
           set_index |-> [a \in LineAddr |-> 0], sectors |-> Sector]

\* Two states with the same order of times and the same countdowns behave
\* the same: what TLC keeps of a state when it checks invariants.
Ages(S) == [x \in S |-> Cardinality({y \in S : y < x})]
Times == {l2_tags[s][w].last_access : s \in DOMAIN l2_tags, w \in Ways(l2_config)}
            \cup {l2_tags[s][w].alloc_time : s \in DOMAIN l2_tags, w \in Ways(l2_config)}
Untimed(l) == [l EXCEPT !.last_access = Ages(Times)[@], !.alloc_time = Ages(Times)[@]]
Shape ==
    <<[s \in DOMAIN l2_tags |-> [w \in Ways(l2_config) |-> Untimed(l2_tags[s][w])]],
      l2_mshrs, m_l1_to_l2, m_status, m_tlb_hit, unsent, replied,
      {[mf |-> e.mf, at |-> Ages({f.at : f \in l2_to_sm})[e.at],
        left |-> e.due - gpu_sim_cycles] : e \in l2_to_sm}>>
=============================================================================
