----------------------------- MODULE MCSmCycle -----------------------------
(* Instances of SmCycle for TLC.                                           *)
EXTENDS SmCycle

LDG(r, n)     == [op |-> "LDG", unit |-> LDS, latency |-> 1, dest |-> {r}, src |-> {}, requests |-> n]
STG(r, n)     == [op |-> "STG", unit |-> LDS, latency |-> 1, dest |-> {}, src |-> {r}, requests |-> n]
LDSh(r)       == [op |-> "LDS", unit |-> LDS, latency |-> 2, dest |-> {r}, src |-> {}, requests |-> 0]
ADD(r, srcs)  == [op |-> "IADD", unit |-> "INT_units", latency |-> 2, dest |-> {r}, src |-> srcs, requests |-> 0]
EXIT          == [op |-> "EXIT", unit |-> "INT_units", latency |-> 1, dest |-> {}, src |-> {}, requests |-> 0]

\* Two blocks on one SM: the load of one keeps a bank busy while the store
\* of the other waits in its unit with its first request already back.  What
\* was loaded is overwritten by the instruction that reads it.
Competing == [w \in Warps |->
    IF w[1] = 0 THEN <<ADD("R0", {}), STG("R1", 2), EXIT>> ELSE <<LDG("R1", 4), ADD("R1", {"R1"}), EXIT>>]

\* Two warps in a block: one writes a register twice and reads it, the other
\* competes for its units.
Overwrite == [w \in Warps |->
    IF w[2] = 0 THEN <<LDG("R1", 2), ADD("R1", {"R0"}), ADD("R2", {"R1"}), EXIT>>
                ELSE <<LDSh("R1"), EXIT>>]

Two  == {0, 1}
One  == {0}
Units(n) == [x \in {LDS, "INT_units"} |-> IF x = LDS THEN n ELSE 1]
OneLds == Units(1)
TwoLds == Units(2)

\* All latencies of the instructions that can use one unit.
ASSUME LagSuffices ==
    \A n \in UnitName :
        MapThenSumSet(LAMBDA w : MapThenSumSet(LAMBDA k : m_insts[w][k].latency,
                                               {k \in Insts(w) : m_insts[w][k].unit = n}), Warps) <= Lag
=============================================================================
