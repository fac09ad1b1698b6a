-------------------------------- MODULE MCL1 --------------------------------
(* Instances of L1System for TLC.  An instruction is a record with the     *)
(* <<line, sector>> pairs of its coalesced requests.                       *)
EXTENDS L1System

LDG(n, addresses) == [n |-> n, write |-> FALSE, addresses |-> addresses]
STG(n, addresses) == [n |-> n, write |-> TRUE, addresses |-> addresses]

Coalesced == [i \in Inst |-> [k \in DOMAIN i.addresses |->
                 [inst |-> i.n, line |-> i.addresses[k][1], sector |-> i.addresses[k][2],
                  write |-> i.write]]]
AllRequests == UNION {Range(Coalesced[i]) : i \in Inst}

AddressOf == [mf \in MemFetch |-> mf.line]
SectorOf  == [mf \in MemFetch |-> mf.sector]
WriteOf   == [mf \in MemFetch |-> mf.write]
SmOf      == [mf \in MemFetch |-> sm]

\* Three lines that compete for two ways; a load that merges with the first,
\* a store that hits or misses, and requests for the same bank.
Mixed == {LDG(1, <<<<1, 0>>, <<1, 1>>, <<3, 0>>>>),
          LDG(2, <<<<1, 0>>, <<2, 0>>>>), STG(3, <<<<1, 0>>>>)}

\* For two units: a load brings in the sector that the second one hits,
\* and the third keeps bank 0 busy.
Contending == {LDG(1, <<<<1, 1>>>>), LDG(2, <<<<1, 1>>, <<1, 0>>>>),
               LDG(3, <<<<1, 0>>, <<2, 0>>, <<3, 0>>>>)}

OneWay == [m_assoc |-> 1, m_replacement_policy |-> "LRU",
           set_index |-> [a \in LineAddr |-> 0], sectors |-> Sector]
TwoWays == [OneWay EXCEPT !.m_assoc = 2]

\* Two states with the same order of times and the same countdowns behave
\* the same: what TLC keeps of a state when it checks invariants.
Times == UNION {{l1_tags[sm][s][w].last_access, l1_tags[sm][s][w].alloc_time} :
                   s \in DOMAIN l1_tags[sm], w \in Ways(l1_config)}
Age(t) == Cardinality({u \in Times : u < t})
Untimed(l) == [l EXCEPT !.last_access = Age(@), !.alloc_time = Age(@)]
Shape ==
    <<step, [s \in DOMAIN l1_tags[sm] |-> [w \in Ways(l1_config) |-> Untimed(l1_tags[sm][s][w])]],
      l1_mshrs, m_queue_sm_to_l1, m_queue_sm_to_l1_busy, m_miss_queue,
      [k \in DOMAIN l1_to_sm[sm] |->
          <<l1_to_sm[sm][k].mf, l1_to_sm[sm][k].m_l1_ready_time - cycles[sm]>>],
      m_start_addr, m_tlb_hit, reply, unit, pending_request, completed, unissued, schedulers, envVars>>
=============================================================================
