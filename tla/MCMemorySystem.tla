--------------------------- MODULE MCMemorySystem ---------------------------
(* An instance of MemorySystem for TLC.  Requests and instructions are     *)
(* numbers; the tables say what they are.                                  *)
EXTENDS MemorySystem

(* SM 0 loads two sectors of line 1 and one of line 2, loads the first     *)
(* again, then stores; SM 1 loads what SM 0 does too, stores into line 1,  *)
(* which it may have, and into a line nobody loads.                        *)
\*               load        load  store  load    store
Coalesced == <<  <<1, 2, 3>>, <<4>>, <<5>>, <<6, 7>>, <<8, 9>>  >>
AddressOf == <<    1, 1, 2,     1,     2,     2, 1,     1, 3    >>
SectorOf  == <<    0, 1, 0,     0,     0,     0, 0,     1, 0    >>
SmOf      == <<    0, 0, 0,     0,     0,     1, 1,     1, 1    >>
WriteOf   == [mf \in MemFetch |-> mf \in {5, 8, 9}]

OneWay == [m_assoc |-> 1, m_replacement_policy |-> "LRU",
           set_index |-> [a \in LineAddr |-> 0], sectors |-> Sector]
TwoWays == [OneWay EXCEPT !.m_assoc = 2]
=============================================================================
