---------------------------- MODULE CrossbarLoop ----------------------------
(***************************************************************************)
(* xbar_router::RR_Advance once more, as the loop it is in the code, to be *)
(* compared with the declarative Advance of module Crossbar.  The loop     *)
(* carries three things from one iteration to the next: the input buffers, *)
(* the output buffers and the issued flags; next_node_id changes after it. *)
(***************************************************************************)
EXTENDS Crossbar, SequencesExt

\* One iteration.  The code's two "else" branches only count conflicts.
LoopBody(r, st, i) ==
    LET node_id == (i + next_node_id[r]) % total_nodes
        buffer  == st.in[node_id]
        o       == Head(buffer).output_deviceID
    IN  IF /\ buffer # <<>>
           /\ Len(st.out[o]) + 1 <= out_buffer_limit
           /\ ~st.issued[o]
        THEN [in     |-> [st.in EXCEPT ![node_id] = Tail(@)],
              out    |-> [st.out EXCEPT ![o] = Append(@, Head(buffer))],
              issued |-> [st.issued EXCEPT ![o] = TRUE]]
        ELSE st

LoopResult(r) ==
    LET Body(st, i) == LoopBody(r, st, i)
        start == [in     |-> in_buffers[r],
                  out    |-> out_buffers[r],
                  issued |-> [o \in Nodes |-> FALSE]]
    IN  FoldLeft(Body, start, [i \in 1 .. total_nodes |-> i - 1])

-----------------------------------------------------------------------------
\* Any contents of the request router: inputs with one packet or none (the loop
\* never looks behind the front), outputs from empty to full, and the scan starting anywhere.
Packets == {Packet(mf, o) : mf \in MemFetch, o \in Mems}

Filled(limit) == UNION {[1 .. k -> Packets] : k \in 0 .. limit}

LoopInit ==
    /\ \E in \in [Nodes -> Filled(1)] :
          in_buffers = [r \in Nets |-> IF r = REQ_NET THEN in ELSE [n \in Nodes |-> <<>>]]
    /\ \E full \in [Mems -> 0 .. out_buffer_limit] :
          out_buffers = [r \in Nets |-> [n \in Nodes |->
              IF r = REQ_NET /\ n \in Mems
              THEN [i \in 1 .. full[n] |-> Packet(CHOOSE mf \in MemFetch : TRUE, n)]
              ELSE <<>>]]
    /\ \E n \in Nodes : next_node_id = [r \in Nets |-> n]

LoopSpec == LoopInit /\ [][Advance]_icntVars

\* "The first node of the scan that wants an output with room gets it" is
\* what the loop with its issued flags computes, for every contents of the
\* buffers and every start of the scan.
LoopAgrees ==
    \A r \in Nets :
        /\ LoopResult(r).in  = AdvancedIn(r)
        /\ LoopResult(r).out = AdvancedOut(r)
=============================================================================
