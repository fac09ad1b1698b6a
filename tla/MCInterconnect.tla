--------------------------- MODULE MCInterconnect ---------------------------
(* Instances of Interconnect for TLC: a request is <<SM, slice, number>>.  *)
EXTENDS Interconnect

SmOf  == [mf \in MemFetch |-> mf[1]]
MemOf == [mf \in MemFetch |-> mf[2]]

\* Two SMs and two slices; SM 0 sends two requests to slice 2 (order on one
\* pair), SM 1 competes for slice 2 and slice 3 answers SM 0 as well.
Contention == {<<0, 2, 1>>, <<0, 2, 2>>, <<1, 2, 1>>, <<0, 3, 1>>}

=============================================================================
