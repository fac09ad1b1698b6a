------------------------------ MODULE Crossbar ------------------------------
(***************************************************************************)
(* The crossbar between the streaming multiprocessors and the L2 slices:   *)
(* class LocalInterconnect with its two xbar_router objects (crossbar.h,   *)
(* crossbar.cpp), one for requests and one for replies.  This module holds *)
(* the state of the two routers and the effect of each call on it; the     *)
(* modules that extend it decide who calls what, and when.                 *)
(*                                                                         *)
(* Device numbers are the code's: SMs are 0 .. n_shader-1, L2 slices are   *)
(* n_shader .. total_nodes-1.  The packet size argument is not modelled:   *)
(* HasBuffer ignores it and passes 1, and every packet is one flit.        *)
(***************************************************************************)
EXTENDS Naturals, Sequences

CONSTANTS
    n_shader,           \* number of SMs (sm_num)
    n_mem,              \* number of L2 slices (mem_num)
    in_buffer_limit,    \* g_icnt_config.in_buffer_limit
    out_buffer_limit,   \* g_icnt_config.out_buffer_limit
    MemFetch            \* what a packet carries: a memory request

ASSUME CrossbarAssumption ==
    /\ n_shader \in Nat \ {0}
    /\ n_mem \in Nat \ {0}
    /\ in_buffer_limit \in Nat \ {0}
    /\ out_buffer_limit \in Nat \ {0}

total_nodes == n_shader + n_mem
Nodes       == 0 .. total_nodes - 1
Shaders     == 0 .. n_shader - 1
Mems        == n_shader .. total_nodes - 1

\* enum Interconnect_type, the index of a router in LocalInterconnect::net.
REQ_NET   == 0
REPLY_NET == 1
Nets      == {REQ_NET, REPLY_NET}

VARIABLES
    in_buffers,     \* in_buffers[r][n]: packets node n has pushed into router r
    out_buffers,    \* out_buffers[r][n]: packets router r holds for node n
    next_node_id    \* next_node_id[r]: where the next arbitration scan starts

icntVars == <<in_buffers, out_buffers, next_node_id>>

Packet(mf, o) == [data |-> mf, output_deviceID |-> o]
PacketSet     == [data : MemFetch, output_deviceID : Nodes]

InitIcnt ==
    /\ in_buffers   = [r \in Nets |-> [n \in Nodes |-> <<>>]]
    /\ out_buffers  = [r \in Nets |-> [n \in Nodes |-> <<>>]]
    /\ next_node_id = [r \in Nets |-> 0]

-----------------------------------------------------------------------------
(* Calls of the devices.                                                   *)

\* LocalInterconnect::Push picks the router by the pushing device.
PushNet(d) == IF d < n_shader THEN REQ_NET ELSE REPLY_NET

\* Mutant: Pop with the comparison of Push.
PopNet_AsPush(d) == IF d < n_shader THEN REQ_NET ELSE REPLY_NET

\* LocalInterconnect::Pop picks it by the popping device.
PopNet(d) == IF d < n_shader THEN REPLY_NET ELSE REQ_NET

\* Mutant: the room for the flit about to be pushed is forgotten.
HasBuffer_NoRoomForNew(d) ==
    Len(in_buffers[IF d >= n_shader THEN REPLY_NET ELSE REQ_NET][d])
        <= in_buffer_limit

\* HasBuffer: the caller's input buffer has room for one more flit.
HasBuffer(d) ==
    Len(in_buffers[IF d >= n_shader THEN REPLY_NET ELSE REQ_NET][d]) + 1
        <= in_buffer_limit

\* Mutant: the new packet replaces what waits in the buffer.
Push_Replaces(d, o, mf) ==
    in_buffers' = [in_buffers EXCEPT ![PushNet(d)][d] = <<Packet(mf, o)>>]

\* Push never looks at the limit: that is up to the caller.
Push(d, o, mf) ==
    in_buffers' = [in_buffers EXCEPT ![PushNet(d)][d] = Append(@, Packet(mf, o))]

\* Pop returns NULL when the buffer is empty: HasReply tells the two apart.
HasReply(d) == out_buffers[PopNet(d)][d] # <<>>
Popped(d)   == Head(out_buffers[PopNet(d)][d]).data
Pop(d) ==
    out_buffers' = IF HasReply(d)
                   THEN [out_buffers EXCEPT ![PopNet(d)][d] = Tail(@)]
                   ELSE out_buffers

-----------------------------------------------------------------------------
(* xbar_router::RR_Advance.  The loop visits every node once, in the order *)
(* next_node_id, next_node_id + 1, ... and moves the packet at the front   *)
(* of the node's input buffer unless the output buffer is full or the      *)
(* output was already issued to in this pass.  So the first node in scan   *)
(* order that wants an output with room gets it, and nobody else does.     *)

\* The position of node n in the scan of router r.
ScanPos(r, n) == (n + total_nodes - next_node_id[r]) % total_nodes

Wants(r, n, o) ==
    /\ in_buffers[r][n] # <<>>
    /\ Head(in_buffers[r][n]).output_deviceID = o

Has_Buffer_Out(r, o) == Len(out_buffers[r][o]) + 1 <= out_buffer_limit

\* Mutant: the scan starts at node 0 in every pass.
Issues_FixedScan(r, n, o) ==
    /\ Wants(r, n, o)
    /\ Has_Buffer_Out(r, o)
    /\ \A k \in Nodes : Wants(r, k, o) => n <= k

Issues(r, n, o) ==
    /\ Wants(r, n, o)
    /\ Has_Buffer_Out(r, o)
    /\ \A k \in Nodes : Wants(r, k, o) => ScanPos(r, n) <= ScanPos(r, k)

\* Mutant: the packet is taken from every node that wants an output with
\* room, also from those that lose it to another node.
AdvancedIn_PopsLosers(r) ==
    [n \in Nodes |-> IF \E o \in Nodes : Wants(r, n, o) /\ Has_Buffer_Out(r, o)
                     THEN Tail(in_buffers[r][n])
                     ELSE in_buffers[r][n]]

AdvancedIn(r) ==
    [n \in Nodes |-> IF \E o \in Nodes : Issues(r, n, o)
                     THEN Tail(in_buffers[r][n])
                     ELSE in_buffers[r][n]]

AdvancedOut(r) ==
    [o \in Nodes |-> IF \E n \in Nodes : Issues(r, n, o)
                     THEN Append(out_buffers[r][o],
                                 Head(in_buffers[r][CHOOSE n \in Nodes : Issues(r, n, o)]))
                     ELSE out_buffers[r][o]]

\* Mutant: next_node_id is not reduced modulo total_nodes.
Advance_NoWrap ==
    /\ in_buffers'   = [r \in Nets |-> AdvancedIn(r)]
    /\ out_buffers'  = [r \in Nets |-> AdvancedOut(r)]
    /\ next_node_id' = [r \in Nets |-> next_node_id[r] + 1]

\* LocalInterconnect::Advance: both routers, each with RR_Advance.
Advance ==
    /\ in_buffers'   = [r \in Nets |-> AdvancedIn(r)]
    /\ out_buffers'  = [r \in Nets |-> AdvancedOut(r)]
    /\ next_node_id' = [r \in Nets |-> (next_node_id[r] + 1) % total_nodes]

-----------------------------------------------------------------------------
IcntTypeOK ==
    /\ in_buffers   \in [Nets -> [Nodes -> Seq(PacketSet)]]
    /\ out_buffers  \in [Nets -> [Nodes -> Seq(PacketSet)]]
    /\ next_node_id \in [Nets -> Nodes]
=============================================================================
