--------------------------- MODULE InstDependency ---------------------------
(***************************************************************************)
(* get_inst_dependency of a warp (kernel.cpp): which earlier instructions  *)
(* an instruction waits for.  A program is a sequence of instructions      *)
(*   [op, unit, latency, dest, src, requests]                              *)
(* with the sets of registers it writes and reads, and the number of       *)
(* coalesced requests its memory trace gives it.                           *)
(***************************************************************************)
EXTENDS Naturals, Sequences, FiniteSets, FiniteSetsExt

\* EXIT and every kind of BAR wait for all instructions before them.
Drains(inst) == inst.op \in {"EXIT", "BAR"}

\* dependency_map keeps the last instruction that writes a register.
Writers(p, k, r) == {j \in 1 .. k - 1 : r \in p[j].dest}

\* Mutant: only the registers it reads.
m_dependency_SourcesOnly(p, k) ==
    {Max(Writers(p, k, r)) : r \in {x \in p[k].src : Writers(p, k, x) # {}}}
    \cup IF Drains(p[k]) THEN 1 .. k - 1 ELSE {}

\* Mutant: an EXIT waits for its own registers only.
m_dependency_NoDrain(p, k) ==
    {Max(Writers(p, k, r)) : r \in {x \in p[k].dest \cup p[k].src : Writers(p, k, x) # {}}}

m_dependency(p, k) ==
    {Max(Writers(p, k, r)) : r \in {x \in p[k].dest \cup p[k].src : Writers(p, k, x) # {}}}
    \cup IF Drains(p[k]) THEN 1 .. k - 1 ELSE {}
=============================================================================
