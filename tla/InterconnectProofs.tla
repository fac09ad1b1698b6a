------------------------- MODULE InterconnectProofs -------------------------
(***************************************************************************)
(* Proofs about module Interconnect, for any number of SMs and slices, any *)
(* buffer limits and any set of requests:                                  *)
(*   - the types of the state (TypeOK);                                    *)
(*   - a request buffer stays within its limit (ReqInBufferBound);         *)
(*   - an output buffer holds at most the packet of this cycle             *)
(*     (OneFlitPerOutput), which needs that each router only ever holds    *)
(*     packets of its own direction (Direction);                           *)
(*   - arbitration passes a packet over for less than one round            *)
(*     (BoundedWait), which needs OneFlitPerOutput, so that there always   *)
(*     is room for the first in the scan, and that an empty buffer has not *)
(*     waited (EmptyNotWaited);                                            *)
(*   - the crossbar with the calls of its devices implements one first-in  *)
(*     first-out channel for every pair of devices: a request is always    *)
(*     with one device or in one channel, so none is lost, doubled,        *)
(*     misrouted or overtaken (CrossbarIsFifo);                            *)
(*   - the loop of RR_Advance in CrossbarLoop does what Advance says       *)
(*     (LoopIsAdvance).                                                    *)
(***************************************************************************)
EXTENDS Interconnect, CrossbarLoop, CommonLemmas

-----------------------------------------------------------------------------
(* Devices, networks and remainders.                                       *)

\* The SMs and the slices are the devices, and no device is both.
LEMMA NodesFacts ==
    /\ total_nodes \in Nat \ {0}
    /\ Shaders \subseteq Nodes
    /\ Mems \subseteq Nodes
    /\ \A d \in Nodes : d \in Nat /\ d < total_nodes
    /\ \A s \in Shaders : s < n_shader
    /\ \A m \in Mems : ~(m < n_shader)
    /\ 0 \in Nodes
    /\ \A d \in Nodes : d \in Shaders <=> d < n_shader
    /\ \A d \in Nodes : d \in Mems <=> ~(d < n_shader)
BY CrossbarAssumption DEF total_nodes, Shaders, Mems, Nodes

\* A device pushes into one router and pops from the other.
LEMMA NetFacts ==
    ASSUME NEW d \in Nodes
    PROVE  /\ PushNet(d) \in Nets
           /\ PopNet(d) \in Nets
           /\ PopNet(d) = 1 - PushNet(d)
           /\ PushNet(d) = 1 - PopNet(d)
           /\ PushNet(d) # PopNet(d)
BY DEF PushNet, PopNet, Nets, REQ_NET, REPLY_NET

\* The remainder of a number below twice the divisor.
LEMMA SmallMod ==
    ASSUME NEW N \in Nat \ {0}, NEW x \in 0 .. 2 * N - 1
    PROVE  x % N = IF x < N THEN x ELSE x - N
<1>1. CASE x < N
  <2>1. x \in 0 .. N - 1 BY <1>1
  <2> QED BY <1>1, <2>1
<1>2. CASE ~(x < N)
  <2>1. x \in N .. 2 * N - 1 BY <1>2
  <2> QED BY <1>2, <2>1
<1> QED BY <1>1, <1>2

\* The position of a node in the scan of RR_Advance without the remainder.
LEMMA ScanPosValue ==
    ASSUME NEW r \in Nets, NEW n \in Nodes, next_node_id[r] \in Nodes
    PROVE  /\ ScanPos(r, n) \in 0 .. total_nodes - 1
           /\ ScanPos(r, n) = IF n < next_node_id[r] THEN n + total_nodes - next_node_id[r]
                                                     ELSE n - next_node_id[r]
<1> DEFINE N == total_nodes
           x == n + N - next_node_id[r]
<1>1. N \in Nat \ {0} /\ n \in 0 .. N - 1 /\ next_node_id[r] \in 0 .. N - 1
  BY NodesFacts DEF Nodes
<1>2. x \in 0 .. 2 * N - 1
  BY <1>1
<1>3. x % N = IF x < N THEN x ELSE x - N
  BY <1>1, <1>2, SmallMod
<1>4. ScanPos(r, n) = x % N
  BY DEF ScanPos
<1> HIDE DEF N, x
<1>5. ScanPos(r, n) = IF x < N THEN x ELSE x - N
  BY <1>3, <1>4
<1> QED BY <1>1, <1>5 DEF x, N

\* One Advance moves every node one position forward in the scan, the first
\* one to the end.
LEMMA ScanStep ==
    ASSUME NEW r \in Nets, NEW n \in Nodes, next_node_id[r] \in Nodes,
           next_node_id'[r] = (next_node_id[r] + 1) % total_nodes
    PROVE  /\ next_node_id'[r] \in Nodes
           /\ ScanPos(r, n)' = IF ScanPos(r, n) = 0 THEN total_nodes - 1
                                                    ELSE ScanPos(r, n) - 1
<1> DEFINE N == total_nodes
           a == next_node_id[r]
           b == next_node_id'[r]
           y == a + 1
           x == n + N - b
<1>1. N \in Nat \ {0} /\ n \in 0 .. N - 1 /\ a \in 0 .. N - 1
  BY NodesFacts DEF Nodes
<1>2. y \in 0 .. 2 * N - 1
  BY <1>1
<1>3. b = IF y < N THEN y ELSE y - N
  <2>1. b = y % N
    OBVIOUS
  <2> HIDE DEF N, a, b, y
  <2>2. y % N = IF y < N THEN y ELSE y - N
    BY <1>1, <1>2, SmallMod
  <2> QED BY <2>1, <2>2
<1>4. b \in 0 .. N - 1
  BY <1>1, <1>3
<1>5. x \in 0 .. 2 * N - 1
  BY <1>1, <1>4
<1>6. x % N = IF x < N THEN x ELSE x - N
  BY <1>1, <1>5, SmallMod
<1>7. ScanPos(r, n)' = x % N
  BY DEF ScanPos, total_nodes
<1>8. ScanPos(r, n) = IF n < a THEN n + N - a ELSE n - a
  BY ScanPosValue
<1> HIDE DEF N, a, b, x, y
<1>9. ScanPos(r, n)' = IF x < N THEN x ELSE x - N
  BY <1>6, <1>7
<1>10. x = n + N - b /\ y = a + 1
  BY DEF x, y
<1>11. ScanPos(r, n)' = IF ScanPos(r, n) = 0 THEN N - 1 ELSE ScanPos(r, n) - 1
  BY <1>1, <1>3, <1>4, <1>8, <1>9, <1>10
<1> QED BY <1>4, <1>11 DEF N, b, Nodes

\* The next turn, without the remainder.
LEMMA TurnStep ==
    ASSUME turn \in 0 .. total_nodes
    PROVE  /\ NextTurn \in 0 .. total_nodes
           /\ NextTurn = IF turn = total_nodes THEN 0 ELSE turn + 1
<1> DEFINE M == total_nodes + 1
           y == turn + 1
<1>1. M \in Nat \ {0} /\ y \in 1 .. M /\ y \in 0 .. 2 * M - 1
  BY NodesFacts
<1>2. NextTurn = y % M
  BY DEF NextTurn
<1>3. M = total_nodes + 1 /\ y = turn + 1 /\ total_nodes \in Nat
  BY NodesFacts
<1> HIDE DEF M, y
<1>4. y % M = IF y < M THEN y ELSE y - M
  BY <1>1, SmallMod
<1> QED BY <1>1, <1>2, <1>3, <1>4

-----------------------------------------------------------------------------
(* What the calls do to the buffers.                                       *)

\* Push appends one packet to one input buffer.
LEMMA PushEffect ==
    ASSUME IcntTypeOK, NEW d \in Nodes, NEW o \in Nodes, NEW mf \in MemFetch, Push(d, o, mf)
    PROVE  /\ in_buffers' \in [Nets -> [Nodes -> Seq(PacketSet)]]
           /\ in_buffers'[PushNet(d)][d] = Append(in_buffers[PushNet(d)][d], Packet(mf, o))
           /\ \A r \in Nets, n \in Nodes :
                 r # PushNet(d) \/ n # d => in_buffers'[r][n] = in_buffers[r][n]
<1>1. Packet(mf, o) \in PacketSet
  BY DEF Packet, PacketSet
<1>2. PushNet(d) \in Nets
  BY NetFacts
<1> QED BY <1>1, <1>2 DEF IcntTypeOK, Push

\* Pop takes the first packet of one output buffer, if there is one.
LEMMA PopEffect ==
    ASSUME IcntTypeOK, NEW d \in Nodes, Pop(d)
    PROVE  /\ out_buffers' \in [Nets -> [Nodes -> Seq(PacketSet)]]
           /\ HasReply(d) => /\ Popped(d) \in MemFetch
                             /\ out_buffers'[PopNet(d)][d] = Tail(out_buffers[PopNet(d)][d])
           /\ ~HasReply(d) => out_buffers'[PopNet(d)][d] = <<>>
           /\ \A r \in Nets, n \in Nodes :
                 r # PopNet(d) \/ n # d => out_buffers'[r][n] = out_buffers[r][n]
<1>1. PopNet(d) \in Nets
  BY NetFacts
<1>2. out_buffers[PopNet(d)][d] \in Seq(PacketSet)
  BY <1>1 DEF IcntTypeOK
<1>3. CASE HasReply(d)
  <2>1. Head(out_buffers[PopNet(d)][d]) \in PacketSet
    BY <1>2, <1>3 DEF HasReply
  <2>2. Tail(out_buffers[PopNet(d)][d]) \in Seq(PacketSet)
    BY <1>2, <1>3 DEF HasReply
  <2>3. out_buffers' = [out_buffers EXCEPT ![PopNet(d)][d] = Tail(@)]
    BY <1>3 DEF Pop
  <2> QED BY <1>1, <1>3, <2>1, <2>2, <2>3 DEF IcntTypeOK, Popped, PacketSet
<1>4. CASE ~HasReply(d)
  BY <1>1, <1>4 DEF IcntTypeOK, Pop, HasReply
<1> QED BY <1>3, <1>4

\* A node that is issued to an output has a packet for it.
LEMMA IssuesFront ==
    ASSUME IcntTypeOK, NEW r \in Nets, NEW n \in Nodes, NEW o \in Nodes, Issues(r, n, o)
    PROVE  /\ in_buffers[r][n] \in Seq(PacketSet)
           /\ in_buffers[r][n] # <<>>
           /\ Head(in_buffers[r][n]) \in PacketSet
           /\ Tail(in_buffers[r][n]) \in Seq(PacketSet)
           /\ Head(in_buffers[r][n]).output_deviceID = o
<1>1. in_buffers[r][n] \in Seq(PacketSet) /\ in_buffers[r][n] # <<>>
  BY DEF IcntTypeOK, Issues, Wants
<1> QED BY <1>1 DEF Issues, Wants

\* Advance takes the front packet of some input buffers ...
LEMMA AdvanceInEffect ==
    ASSUME IcntTypeOK, Advance
    PROVE  /\ in_buffers' \in [Nets -> [Nodes -> Seq(PacketSet)]]
           /\ \A r \in Nets, n \in Nodes :
                 IF \E o \in Nodes : Issues(r, n, o)
                 THEN in_buffers[r][n] # <<>> /\ in_buffers'[r][n] = Tail(in_buffers[r][n])
                 ELSE in_buffers'[r][n] = in_buffers[r][n]
<1>1. \A r \in Nets, n \in Nodes :
         in_buffers'[r][n] = IF \E o \in Nodes : Issues(r, n, o)
                             THEN Tail(in_buffers[r][n]) ELSE in_buffers[r][n]
  BY DEF Advance, AdvancedIn
<1>2. \A r \in Nets, n \in Nodes :
         /\ in_buffers'[r][n] \in Seq(PacketSet)
         /\ (\E o \in Nodes : Issues(r, n, o)) => in_buffers[r][n] # <<>>
  <2> TAKE r \in Nets, n \in Nodes
  <2>1. CASE \E o \in Nodes : Issues(r, n, o)
    <3>1. PICK o \in Nodes : Issues(r, n, o)
      BY <2>1
    <3>2. in_buffers[r][n] # <<>> /\ Tail(in_buffers[r][n]) \in Seq(PacketSet)
      BY <3>1, IssuesFront
    <3> QED BY <1>1, <2>1, <3>2
  <2>2. CASE ~\E o \in Nodes : Issues(r, n, o)
    BY <1>1, <2>2 DEF IcntTypeOK
  <2> QED BY <2>1, <2>2
<1>3. in_buffers' = [r \in Nets |-> [n \in Nodes |-> in_buffers'[r][n]]]
  BY DEF Advance, AdvancedIn
<1> QED BY <1>1, <1>2, <1>3

\* ... and gives each output buffer at most one, which is for it.
LEMMA AdvanceOutEffect ==
    ASSUME IcntTypeOK, Advance
    PROVE  /\ out_buffers' \in [Nets -> [Nodes -> Seq(PacketSet)]]
           /\ \A r \in Nets, o \in Nodes :
                 \/ out_buffers'[r][o] = out_buffers[r][o]
                 \/ \E n \in Nodes :
                       /\ Issues(r, n, o)
                       /\ out_buffers'[r][o] = Append(out_buffers[r][o], Head(in_buffers[r][n]))
<1>1. \A r \in Nets, o \in Nodes :
         out_buffers'[r][o] = AdvancedOut(r)[o]
  BY DEF Advance, AdvancedOut
<1>2. ASSUME NEW r \in Nets, NEW o \in Nodes, ~\E n \in Nodes : Issues(r, n, o)
      PROVE  out_buffers'[r][o] = out_buffers[r][o]
  BY <1>1, <1>2 DEF AdvancedOut
<1>3. ASSUME NEW r \in Nets, NEW o \in Nodes, \E n \in Nodes : Issues(r, n, o)
      PROVE  \E n \in Nodes :
                /\ Issues(r, n, o)
                /\ out_buffers'[r][o] = Append(out_buffers[r][o], Head(in_buffers[r][n]))
  <2> DEFINE k == CHOOSE n \in Nodes : Issues(r, n, o)
  <2>1. k \in Nodes /\ Issues(r, k, o)
    BY <1>3
  <2>2. out_buffers'[r][o] = Append(out_buffers[r][o], Head(in_buffers[r][k]))
    BY <1>1, <1>3 DEF AdvancedOut
  <2> QED BY <2>1, <2>2
<1>4. \A r \in Nets, o \in Nodes : out_buffers'[r][o] \in Seq(PacketSet)
  <2> TAKE r \in Nets, o \in Nodes
  <2>1. out_buffers[r][o] \in Seq(PacketSet)
    BY DEF IcntTypeOK
  <2>2. CASE ~\E n \in Nodes : Issues(r, n, o)
    BY <1>2, <2>1, <2>2
  <2>3. CASE \E n \in Nodes : Issues(r, n, o)
    <3>1. PICK n \in Nodes :
             /\ Issues(r, n, o)
             /\ out_buffers'[r][o] = Append(out_buffers[r][o], Head(in_buffers[r][n]))
      BY <1>3, <2>3
    <3>2. Head(in_buffers[r][n]) \in PacketSet
      BY <3>1, IssuesFront
    <3> QED BY <2>1, <3>1, <3>2
  <2> QED BY <2>2, <2>3
<1>5. out_buffers' = [r \in Nets |-> [o \in Nodes |-> out_buffers'[r][o]]]
  BY DEF Advance, AdvancedOut
<1> QED BY <1>2, <1>3, <1>4, <1>5

-----------------------------------------------------------------------------
(* The inductive invariant.                                                *)

\* A router carries packets of one direction: requests to slices, replies
\* to SMs.
Direction ==
    \A r \in Nets, n \in Nodes : \A i \in DOMAIN in_buffers[r][n] :
        PopNet(in_buffers[r][n][i].output_deviceID) = r

\* An empty buffer has nothing that waited.
EmptyNotWaited ==
    \A r \in Nets, n \in Nodes : in_buffers[r][n] = <<>> => waited[r][n] = 0

IInv ==
    /\ TypeOK
    /\ ReqInBufferBound
    /\ Direction
    /\ OneFlitPerOutput
    /\ EmptyNotWaited
    /\ BoundedWait

-----------------------------------------------------------------------------
(* Types.                                                                  *)

\* The initial state has the types.
THEOREM TypeInit == Init => TypeOK
<1> SUFFICES ASSUME Init PROVE TypeOK
  OBVIOUS
<1>1. IcntTypeOK
  BY NodesFacts DEF Init, InitIcnt, IcntTypeOK
<1>2. turn \in 0 .. total_nodes
  BY CrossbarAssumption DEF Init, total_nodes
<1> QED BY <1>1, <1>2 DEF Init, TypeOK

\* Every call of a device and every Advance keeps them.
THEOREM TypeStep == TypeOK /\ [Next]_vars => TypeOK'
<1> SUFFICES ASSUME TypeOK, [Next]_vars PROVE TypeOK'
  OBVIOUS
<1>1. IcntTypeOK /\ turn \in 0 .. total_nodes
  BY DEF TypeOK
<1>2. NextTurn \in 0 .. total_nodes
  BY <1>1, TurnStep
<1>3. ASSUME NEW m \in Mems, MemPop(m) PROVE TypeOK'
  <2>1. m \in Nodes
    BY NodesFacts
  <2>2. out_buffers' \in [Nets -> [Nodes -> Seq(PacketSet)]] /\ (HasReply(m) => Popped(m) \in MemFetch)
    BY <1>1, <1>3, <2>1, PopEffect DEF MemPop
  <2>3. held' \in [Mems -> SUBSET MemFetch]
    BY <1>3, <2>2 DEF MemPop, TypeOK
  <2> QED BY <1>2, <1>3, <2>2, <2>3 DEF MemPop, TypeOK, IcntTypeOK
<1>4. ASSUME NEW m \in Mems, NEW mf \in MemFetch, MemReply(m, mf) PROVE TypeOK'
  <2>1. m \in Nodes /\ m_sm_id[mf] \in Nodes
    BY NodesFacts, RoutingAssumption
  <2>2. in_buffers' \in [Nets -> [Nodes -> Seq(PacketSet)]]
    BY <1>1, <1>4, <2>1, PushEffect DEF MemReply
  <2>3. held' \in [Mems -> SUBSET MemFetch]
    BY <1>4 DEF MemReply, TypeOK
  <2> QED BY <1>4, <2>2, <2>3 DEF MemReply, TypeOK, IcntTypeOK
<1>5. CASE XbarAdvance
  <2>1. /\ in_buffers' \in [Nets -> [Nodes -> Seq(PacketSet)]]
        /\ out_buffers' \in [Nets -> [Nodes -> Seq(PacketSet)]]
    BY <1>1, <1>5, AdvanceInEffect, AdvanceOutEffect DEF XbarAdvance
  <2>2. next_node_id' \in [Nets -> Nodes]
    <3>1. \A r \in Nets : next_node_id'[r] = (next_node_id[r] + 1) % total_nodes
      BY <1>5 DEF XbarAdvance, Advance
    <3>2. \A r \in Nets : next_node_id'[r] \in Nodes
      BY <1>1, <3>1, ScanStep, NodesFacts DEF IcntTypeOK
    <3>3. next_node_id' = [r \in Nets |-> next_node_id'[r]]
      BY <1>5 DEF XbarAdvance, Advance
    <3> QED BY <3>2, <3>3
  <2>3. waited' \in [Nets -> [Nodes -> Nat]]
    <3>1. \A r \in Nets, n \in Nodes : Waited(r, n) \in Nat
      BY DEF Waited, TypeOK
    <3> QED BY <1>5, <3>1 DEF XbarAdvance
  <2> QED BY <1>2, <1>5, <2>1, <2>2, <2>3 DEF XbarAdvance, TypeOK, IcntTypeOK
<1>6. ASSUME NEW s \in Shaders, SmSilent(s) PROVE TypeOK'
  <2>1. s \in Nodes
    BY NodesFacts
  <2>2. out_buffers' \in [Nets -> [Nodes -> Seq(PacketSet)]] /\ (HasReply(s) => Popped(s) \in MemFetch)
    BY <1>1, <1>6, <2>1, PopEffect DEF SmSilent
  <2>3. idle' \in SUBSET MemFetch
    BY <1>6, <2>2 DEF SmSilent, ReplyTo, TypeOK
  <2> QED BY <1>2, <1>6, <2>2, <2>3 DEF SmSilent, TypeOK, IcntTypeOK
<1>7. ASSUME NEW s \in Shaders, NEW mf \in MemFetch, SmRequest(s, mf) PROVE TypeOK'
  <2>1. s \in Nodes /\ m_sub_partition[mf] \in Nodes
    BY NodesFacts, RoutingAssumption
  <2>2. out_buffers' \in [Nets -> [Nodes -> Seq(PacketSet)]] /\ (HasReply(s) => Popped(s) \in MemFetch)
    BY <1>1, <1>7, <2>1, PopEffect DEF SmRequest
  <2>3. in_buffers' \in [Nets -> [Nodes -> Seq(PacketSet)]]
    BY <1>1, <1>7, <2>1, PushEffect DEF SmRequest
  <2>4. idle' \in SUBSET MemFetch
    BY <1>7, <2>2 DEF SmRequest, ReplyTo, TypeOK
  <2> QED BY <1>2, <1>7, <2>2, <2>3, <2>4 DEF SmRequest, TypeOK, IcntTypeOK
<1>8. CASE UNCHANGED vars
  BY <1>8 DEF vars, TypeOK, IcntTypeOK
<1> QED BY <1>3, <1>4, <1>5, <1>6, <1>7, <1>8 DEF Next

\* The variables keep their types, for every number of devices.
THEOREM TypeCorrect == Spec => []TypeOK
<1> QED BY TypeInit, TypeStep, PTL DEF Spec

-----------------------------------------------------------------------------
(* The parts of the invariant, one theorem each.                           *)

\* HasBuffer keeps the request buffers within in_buffer_limit: Push appends
\* to one only when an SM calls it, and Advance only takes packets out.
THEOREM BoundStep == TypeOK /\ ReqInBufferBound /\ [Next]_vars => ReqInBufferBound'
<1> SUFFICES ASSUME TypeOK, ReqInBufferBound, [Next]_vars, NEW n \in Nodes
             PROVE  Len(in_buffers'[REQ_NET][n]) <= in_buffer_limit
  BY DEF ReqInBufferBound, Nodes, total_nodes
<1>1. IcntTypeOK /\ REQ_NET \in Nets /\ REPLY_NET \in Nets /\ REQ_NET # REPLY_NET
  BY DEF TypeOK, Nets, REQ_NET, REPLY_NET
<1>2. in_buffers[REQ_NET][n] \in Seq(PacketSet) /\ Len(in_buffers[REQ_NET][n]) <= in_buffer_limit
  BY <1>1 DEF IcntTypeOK, ReqInBufferBound
<1>3. ASSUME NEW m \in Mems, NEW mf \in MemFetch, MemReply(m, mf)
      PROVE  in_buffers'[REQ_NET][n] = in_buffers[REQ_NET][n]
  <2>1. m \in Nodes /\ ~(m < n_shader) /\ m_sm_id[mf] \in Nodes
    BY NodesFacts, RoutingAssumption
  <2>2. PushNet(m) = REPLY_NET
    BY <2>1 DEF PushNet
  <2> QED BY <1>1, <1>3, <2>1, <2>2, PushEffect DEF MemReply
<1>4. ASSUME XbarAdvance
      PROVE  Len(in_buffers'[REQ_NET][n]) <= in_buffer_limit
  <2>1. \/ in_buffers[REQ_NET][n] # <<>> /\ in_buffers'[REQ_NET][n] = Tail(in_buffers[REQ_NET][n])
        \/ in_buffers'[REQ_NET][n] = in_buffers[REQ_NET][n]
    BY <1>1, <1>4, AdvanceInEffect DEF XbarAdvance
  <2>2. /\ Len(in_buffers[REQ_NET][n]) \in Nat
        /\ in_buffers[REQ_NET][n] # <<>> =>
              /\ Len(Tail(in_buffers[REQ_NET][n])) \in Nat
              /\ Len(Tail(in_buffers[REQ_NET][n])) < Len(in_buffers[REQ_NET][n])
    BY <1>2
  <2>3. CASE in_buffers[REQ_NET][n] # <<>> /\ in_buffers'[REQ_NET][n] = Tail(in_buffers[REQ_NET][n])
    <3>1. Len(in_buffers'[REQ_NET][n]) = Len(Tail(in_buffers[REQ_NET][n]))
      BY <2>3
    <3> QED BY <1>2, <2>2, <2>3, <3>1, CrossbarAssumption
  <2>4. CASE in_buffers'[REQ_NET][n] = in_buffers[REQ_NET][n]
    BY <1>2, <2>4
  <2> QED BY <2>1, <2>3, <2>4
<1>5. ASSUME NEW s \in Shaders, NEW mf \in MemFetch, SmRequest(s, mf)
      PROVE  Len(in_buffers'[REQ_NET][n]) <= in_buffer_limit
  <2>1. s \in Nodes /\ s < n_shader /\ m_sub_partition[mf] \in Nodes /\ s \in Nat
    BY NodesFacts, RoutingAssumption
  <2>2. PushNet(s) = REQ_NET
    BY <2>1 DEF PushNet
  <2>3. Len(in_buffers[REQ_NET][s]) + 1 <= in_buffer_limit
    BY <1>5, <2>1, CrossbarAssumption DEF SmRequest, HasBuffer
  <2>4. CASE n = s
    <3>1. in_buffers'[REQ_NET][n] = Append(in_buffers[REQ_NET][n], Packet(mf, m_sub_partition[mf]))
      BY <1>1, <1>5, <2>1, <2>2, <2>4, PushEffect DEF SmRequest
    <3> QED BY <1>2, <2>3, <2>4, <3>1
  <2>5. CASE n # s
    BY <1>1, <1>2, <1>5, <2>1, <2>5, PushEffect DEF SmRequest
  <2> QED BY <2>4, <2>5
<1>6. ASSUME \/ \E m \in Mems : MemPop(m)
             \/ \E s \in Shaders : SmSilent(s)
             \/ UNCHANGED vars
      PROVE  in_buffers'[REQ_NET][n] = in_buffers[REQ_NET][n]
  BY <1>6 DEF MemPop, SmSilent, vars
<1> QED BY <1>2, <1>3, <1>4, <1>5, <1>6 DEF Next

\* Every packet is pushed into the router its destination pops from.
THEOREM DirectionStep == TypeOK /\ Direction /\ [Next]_vars => Direction'
<1> SUFFICES ASSUME TypeOK, Direction, [Next]_vars,
                    NEW r \in Nets, NEW n \in Nodes, NEW i \in DOMAIN in_buffers'[r][n]
             PROVE  PopNet(in_buffers'[r][n][i].output_deviceID) = r
  BY DEF Direction, Nodes, total_nodes, PopNet
<1>1. IcntTypeOK /\ in_buffers[r][n] \in Seq(PacketSet)
  BY DEF TypeOK, IcntTypeOK
<1>2. ASSUME in_buffers'[r][n] = in_buffers[r][n]
      PROVE  PopNet(in_buffers'[r][n][i].output_deviceID) = r
  BY <1>2 DEF Direction
<1>3. ASSUME NEW d \in Nodes, NEW o \in Nodes, NEW mf \in MemFetch, Push(d, o, mf),
             PopNet(o) = PushNet(d)
      PROVE  PopNet(in_buffers'[r][n][i].output_deviceID) = r
  <2>1. CASE r = PushNet(d) /\ n = d
    <3>1. in_buffers'[r][n] = Append(in_buffers[r][n], Packet(mf, o))
      BY <1>1, <1>3, <2>1, PushEffect
    <3>2. \/ i \in DOMAIN in_buffers[r][n] /\ in_buffers'[r][n][i] = in_buffers[r][n][i]
          \/ in_buffers'[r][n][i] = Packet(mf, o)
      BY <1>1, <3>1
    <3> QED BY <1>3, <2>1, <3>2 DEF Direction, Packet
  <2>2. CASE ~(r = PushNet(d) /\ n = d)
    BY <1>1, <1>2, <1>3, <2>2, PushEffect
  <2> QED BY <2>1, <2>2
<1>4. ASSUME NEW m \in Mems, NEW mf \in MemFetch, MemReply(m, mf)
      PROVE  PopNet(in_buffers'[r][n][i].output_deviceID) = r
  <2>1. m \in Nodes /\ ~(m < n_shader) /\ m_sm_id[mf] \in Nodes /\ m_sm_id[mf] < n_shader
    BY NodesFacts, RoutingAssumption
  <2> QED BY <1>3, <1>4, <2>1 DEF MemReply, PushNet, PopNet
<1>5. ASSUME NEW s \in Shaders, NEW mf \in MemFetch, SmRequest(s, mf)
      PROVE  PopNet(in_buffers'[r][n][i].output_deviceID) = r
  <2>1. s \in Nodes /\ s < n_shader /\ m_sub_partition[mf] \in Nodes /\ ~(m_sub_partition[mf] < n_shader)
    BY NodesFacts, RoutingAssumption
  <2> QED BY <1>3, <1>5, <2>1 DEF SmRequest, PushNet, PopNet
<1>6. ASSUME XbarAdvance
      PROVE  PopNet(in_buffers'[r][n][i].output_deviceID) = r
  <2>1. CASE in_buffers'[r][n] = in_buffers[r][n]
    BY <1>2, <2>1
  <2>2. CASE in_buffers[r][n] # <<>> /\ in_buffers'[r][n] = Tail(in_buffers[r][n])
    <3>1. i + 1 \in DOMAIN in_buffers[r][n] /\ in_buffers'[r][n][i] = in_buffers[r][n][i + 1]
      BY <1>1, <2>2
    <3> QED BY <3>1 DEF Direction
  <2> QED BY <1>1, <1>6, <2>1, <2>2, AdvanceInEffect DEF XbarAdvance
<1>7. ASSUME \/ \E m \in Mems : MemPop(m)
             \/ \E s \in Shaders : SmSilent(s)
             \/ UNCHANGED vars
      PROVE  in_buffers'[r][n] = in_buffers[r][n]
  BY <1>7 DEF MemPop, SmSilent, vars
<1> QED BY <1>2, <1>4, <1>5, <1>6, <1>7 DEF Next

\* A device that pops in its turn leaves its output buffer empty.
LEMMA PopOneFlit ==
    ASSUME TypeOK, OneFlitPerOutput, NEW s \in Nodes, turn = s, Pop(s), turn' = NextTurn
    PROVE  OneFlitPerOutput'
<1> SUFFICES ASSUME NEW d \in Nodes
             PROVE  /\ Len(out_buffers'[PopNet(d)][d]) <= IF turn' <= d THEN 1 ELSE 0
                    /\ out_buffers'[1 - PopNet(d)][d] = <<>>
  BY DEF OneFlitPerOutput, Nodes, total_nodes, PopNet
<1>1. IcntTypeOK /\ turn' = s + 1 /\ s \in Nat /\ d \in Nat
  BY TurnStep, NodesFacts DEF TypeOK
<1>2. PopNet(d) \in Nets /\ 1 - PopNet(d) \in Nets /\ 1 - PopNet(d) # PopNet(d)
  BY NetFacts
<1>3. /\ out_buffers[PopNet(d)][d] \in Seq(PacketSet)
      /\ Len(out_buffers[PopNet(d)][d]) <= IF s <= d THEN 1 ELSE 0
      /\ out_buffers[1 - PopNet(d)][d] = <<>>
  BY <1>1, <1>2 DEF IcntTypeOK, OneFlitPerOutput
<1>4. CASE d = s
  <2>1. out_buffers'[1 - PopNet(d)][d] = <<>>
    BY <1>1, <1>2, <1>3, <1>4, PopEffect
  <2>2. Len(out_buffers'[PopNet(d)][d]) = 0
    <3>1. CASE HasReply(s)
      <4>1. out_buffers[PopNet(d)][d] # <<>> /\ out_buffers'[PopNet(d)][d] = Tail(out_buffers[PopNet(d)][d])
        BY <1>1, <1>4, <3>1, PopEffect DEF HasReply
      <4>2. Len(out_buffers[PopNet(d)][d]) = 1
        <5>1. Len(out_buffers[PopNet(d)][d]) <= 1
          BY <1>1, <1>3, <1>4
        <5>2. Len(out_buffers[PopNet(d)][d]) \in Nat /\ Len(out_buffers[PopNet(d)][d]) # 0
          BY <1>3, <4>1
        <5>3. \A k \in Nat : k # 0 /\ k <= 1 => k = 1
          OBVIOUS
        <5> QED BY <5>1, <5>2, <5>3, Zenon
      <4> QED BY <1>3, <4>1, <4>2
    <3>2. CASE ~HasReply(s)
      BY <1>1, <1>4, <3>2, PopEffect
    <3> QED BY <3>1, <3>2
  <2> QED BY <1>1, <2>1, <2>2
<1>5. CASE d # s
  <2>1. out_buffers'[PopNet(d)][d] = out_buffers[PopNet(d)][d]
        /\ out_buffers'[1 - PopNet(d)][d] = out_buffers[1 - PopNet(d)][d]
    BY <1>1, <1>2, <1>5, PopEffect
  <2>2. s <= d <=> turn' <= d
    BY <1>1, <1>5
  <2> QED BY <1>3, <2>1, <2>2
<1> QED BY <1>4, <1>5

\* At the crossbar's turn every output buffer is empty.
LEMMA OutputsEmpty ==
    ASSUME TypeOK, OneFlitPerOutput, turn = CrossbarTurn, NEW r \in Nets, NEW o \in Nodes
    PROVE  out_buffers[r][o] = <<>>
<1>1. o \in Nat /\ o < total_nodes /\ total_nodes \in Nat
  BY NodesFacts
<1>2. out_buffers[PopNet(o)][o] \in Seq(PacketSet) /\ Len(out_buffers[PopNet(o)][o]) <= 0
  BY <1>1, NetFacts DEF TypeOK, IcntTypeOK, OneFlitPerOutput, CrossbarTurn
<1>3. out_buffers[PopNet(o)][o] = <<>>
  BY <1>2
<1>4. r = PopNet(o) \/ r = 1 - PopNet(o)
  BY DEF PopNet, Nets, REQ_NET, REPLY_NET
<1> QED BY <1>3, <1>4 DEF OneFlitPerOutput

\* So an Advance, which adds at most one packet to it, leaves one at most.
THEOREM OneFlitStep ==
    TypeOK /\ Direction /\ OneFlitPerOutput /\ [Next]_vars => OneFlitPerOutput'
<1> SUFFICES ASSUME TypeOK, Direction, OneFlitPerOutput, [Next]_vars PROVE OneFlitPerOutput'
  OBVIOUS
<1>1. ASSUME NEW m \in Mems, MemPop(m) PROVE OneFlitPerOutput'
  BY <1>1, NodesFacts, PopOneFlit DEF MemPop
<1>2. ASSUME NEW s \in Shaders, SmSilent(s) PROVE OneFlitPerOutput'
  BY <1>2, NodesFacts, PopOneFlit DEF SmSilent
<1>3. ASSUME NEW s \in Shaders, NEW mf \in MemFetch, SmRequest(s, mf) PROVE OneFlitPerOutput'
  BY <1>3, NodesFacts, PopOneFlit DEF SmRequest
<1>4. ASSUME UNCHANGED <<out_buffers, turn>> PROVE OneFlitPerOutput'
  BY <1>4 DEF OneFlitPerOutput, Nodes, total_nodes, PopNet
<1>5. CASE XbarAdvance
  <2> SUFFICES ASSUME NEW d \in Nodes
               PROVE  /\ Len(out_buffers'[PopNet(d)][d]) <= IF turn' <= d THEN 1 ELSE 0
                      /\ out_buffers'[1 - PopNet(d)][d] = <<>>
    BY DEF OneFlitPerOutput, Nodes, total_nodes, PopNet
  <2>1. IcntTypeOK /\ Advance /\ turn = CrossbarTurn /\ turn' = 0 /\ d \in Nat
    BY <1>5, TurnStep, NodesFacts DEF XbarAdvance, CrossbarTurn, TypeOK
  <2>2. PopNet(d) \in Nets /\ 1 - PopNet(d) \in Nets /\ 1 - PopNet(d) # PopNet(d)
    BY NetFacts
  <2>3. out_buffers[PopNet(d)][d] = <<>> /\ out_buffers[1 - PopNet(d)][d] = <<>>
    BY <2>1, <2>2, OutputsEmpty
  <2>4. Len(out_buffers'[PopNet(d)][d]) <= 1
    <3>1. CASE out_buffers'[PopNet(d)][d] = out_buffers[PopNet(d)][d]
      BY <2>3, <3>1
    <3>2. ASSUME NEW n \in Nodes, Issues(PopNet(d), n, d),
                 out_buffers'[PopNet(d)][d] = Append(out_buffers[PopNet(d)][d], Head(in_buffers[PopNet(d)][n]))
          PROVE  Len(out_buffers'[PopNet(d)][d]) <= 1
      <4>1. Head(in_buffers[PopNet(d)][n]) \in PacketSet
        BY <2>1, <2>2, <3>2, IssuesFront
      <4> QED BY <2>3, <3>2, <4>1
    <3> QED BY <2>1, <2>2, <3>1, <3>2, AdvanceOutEffect
  <2>5. out_buffers'[1 - PopNet(d)][d] = <<>>
    <3>1. ASSUME NEW n \in Nodes, Issues(1 - PopNet(d), n, d) PROVE FALSE
      <4>1. /\ in_buffers[1 - PopNet(d)][n] \in Seq(PacketSet)
            /\ in_buffers[1 - PopNet(d)][n] # <<>>
            /\ in_buffers[1 - PopNet(d)][n][1].output_deviceID = d
        BY <2>1, <2>2, <3>1, IssuesFront
      <4>2. 1 \in DOMAIN in_buffers[1 - PopNet(d)][n]
        BY <4>1
      <4> QED BY <2>2, <4>1, <4>2 DEF Direction
    <3> QED BY <2>1, <2>2, <2>3, <3>1, AdvanceOutEffect
  <2> QED BY <2>1, <2>4, <2>5
<1> QED BY <1>1, <1>2, <1>3, <1>4, <1>5 DEF Next, MemReply, vars

\* What Push does to an empty or a nonempty input buffer.
LEMMA PushKeeps ==
    ASSUME IcntTypeOK, NEW d \in Nodes, NEW o \in Nodes, NEW mf \in MemFetch, Push(d, o, mf),
           NEW r \in Nets, NEW n \in Nodes
    PROVE  in_buffers'[r][n] = <<>> => in_buffers[r][n] = <<>>
<1>1. CASE r = PushNet(d) /\ n = d
  <2>1. in_buffers[r][n] \in Seq(PacketSet) /\ Packet(mf, o) \in PacketSet
    BY DEF IcntTypeOK, Packet, PacketSet
  <2>2. in_buffers'[r][n] = Append(in_buffers[r][n], Packet(mf, o))
    BY <1>1, PushEffect
  <2>3. Len(in_buffers'[r][n]) = Len(in_buffers[r][n]) + 1 /\ Len(in_buffers[r][n]) \in Nat
    BY <2>1, <2>2
  <2>4. Len(<<>>) = 0
    OBVIOUS
  <2>5. in_buffers'[r][n] # <<>>
    <3> SUFFICES ASSUME in_buffers'[r][n] = <<>> PROVE FALSE
      OBVIOUS
    <3> QED BY <2>3, <2>4
  <2> QED BY <2>5
<1>2. CASE ~(r = PushNet(d) /\ n = d)
  BY <1>2, PushEffect
<1> QED BY <1>1, <1>2

\* Every step but the crossbar's leaves the scan and the waiting times alone
\* and empties no input buffer.
LEMMA OtherSteps ==
    ASSUME TypeOK, [Next]_vars, ~XbarAdvance
    PROVE  /\ UNCHANGED <<next_node_id, waited>>
           /\ \A r \in Nets, n \in Nodes : in_buffers'[r][n] = <<>> => in_buffers[r][n] = <<>>
<1>1. ASSUME NEW m \in Mems, NEW mf \in MemFetch, MemReply(m, mf)
      PROVE  \A r \in Nets, n \in Nodes : in_buffers'[r][n] = <<>> => in_buffers[r][n] = <<>>
  <2>1. m \in Nodes /\ m_sm_id[mf] \in Nodes
    BY NodesFacts, RoutingAssumption
  <2> QED BY <1>1, <2>1, PushKeeps DEF MemReply, TypeOK
<1>2. ASSUME NEW s \in Shaders, NEW mf \in MemFetch, SmRequest(s, mf)
      PROVE  \A r \in Nets, n \in Nodes : in_buffers'[r][n] = <<>> => in_buffers[r][n] = <<>>
  <2>1. s \in Nodes /\ m_sub_partition[mf] \in Nodes
    BY NodesFacts, RoutingAssumption
  <2> QED BY <1>2, <2>1, PushKeeps DEF SmRequest, TypeOK
<1> QED BY <1>1, <1>2 DEF Next, MemReply, MemPop, SmSilent, SmRequest, vars

\* A buffer that becomes empty does so by an Advance, which resets the count.
THEOREM EmptyStep == TypeOK /\ EmptyNotWaited /\ [Next]_vars => EmptyNotWaited'
<1> SUFFICES ASSUME TypeOK, EmptyNotWaited, [Next]_vars,
                    NEW r \in Nets, NEW n \in Nodes, in_buffers'[r][n] = <<>>
             PROVE  waited'[r][n] = 0
  BY DEF EmptyNotWaited, Nodes, total_nodes
<1>1. CASE XbarAdvance
  BY <1>1 DEF XbarAdvance, Waited
<1>2. CASE ~XbarAdvance
  BY <1>2, OtherSteps DEF EmptyNotWaited
<1> QED BY <1>1, <1>2

\* Round robin: a packet that an Advance leaves where it is has moved one
\* place forward in the scan; the first place is always served.
THEOREM WaitStep ==
    TypeOK /\ OneFlitPerOutput /\ EmptyNotWaited /\ BoundedWait /\ [Next]_vars => BoundedWait'
<1> SUFFICES ASSUME TypeOK, OneFlitPerOutput, EmptyNotWaited, BoundedWait, [Next]_vars,
                    NEW r \in Nets, NEW n \in Nodes, in_buffers'[r][n] # <<>>
             PROVE  waited'[r][n] + ScanPos(r, n)' <= total_nodes - 1
  BY DEF BoundedWait, Nodes, total_nodes
<1>1. IcntTypeOK /\ next_node_id[r] \in Nodes /\ waited[r][n] \in Nat /\ total_nodes \in Nat \ {0}
  BY NodesFacts DEF TypeOK, IcntTypeOK
<1>2. \A k \in Nodes : ScanPos(r, k) \in 0 .. total_nodes - 1
  BY <1>1, ScanPosValue
<1>3. CASE ~XbarAdvance
  <2>1. waited'[r][n] = waited[r][n] /\ ScanPos(r, n)' = ScanPos(r, n)
    BY <1>3, OtherSteps DEF ScanPos, total_nodes
  <2>2. CASE in_buffers[r][n] # <<>>
    BY <2>1, <2>2 DEF BoundedWait
  <2>3. CASE in_buffers[r][n] = <<>>
    BY <1>1, <1>2, <2>1, <2>3 DEF EmptyNotWaited
  <2> QED BY <2>2, <2>3
<1>4. CASE XbarAdvance
  <2>1. Advance /\ turn = CrossbarTurn /\ waited'[r][n] = Waited(r, n)
    BY <1>4 DEF XbarAdvance
  <2>2. ScanPos(r, n)' = IF ScanPos(r, n) = 0 THEN total_nodes - 1 ELSE ScanPos(r, n) - 1
    BY <1>1, <2>1, ScanStep DEF Advance
  <2>3. CASE waited'[r][n] = 0
    BY <1>1, <1>2, <2>2, <2>3
  <2>4. CASE waited'[r][n] # 0
    <3>1. in_buffers[r][n] # <<>> /\ in_buffers'[r][n] = in_buffers[r][n]
          /\ waited'[r][n] = waited[r][n] + 1
      BY <2>1, <2>4 DEF Waited
    <3>2. in_buffers[r][n] \in Seq(PacketSet)
      BY <1>1 DEF IcntTypeOK
    <3>3. ScanPos(r, n) # 0
      <4> SUFFICES ASSUME ScanPos(r, n) = 0 PROVE FALSE
        OBVIOUS
      <4> DEFINE o == Head(in_buffers[r][n]).output_deviceID
      <4>1. o \in Nodes
        <5>1. Head(in_buffers[r][n]) \in PacketSet
          BY <3>1, <3>2
        <5> QED BY <5>1 DEF PacketSet
      <4>2. Has_Buffer_Out(r, o)
        BY <2>1, <4>1, OutputsEmpty, CrossbarAssumption DEF Has_Buffer_Out
      <4>3. Issues(r, n, o)
        BY <1>2, <3>1, <4>2 DEF Issues, Wants
      <4>4. in_buffers'[r][n] = Tail(in_buffers[r][n])
        BY <1>1, <2>1, <4>1, <4>3, AdvanceInEffect
      <4>5. Len(Tail(in_buffers[r][n])) # Len(in_buffers[r][n])
        BY <3>1, <3>2
      <4> QED BY <3>1, <4>4, <4>5
    <3>4. waited[r][n] + ScanPos(r, n) <= total_nodes - 1
      BY <3>1 DEF BoundedWait
    <3> QED BY <1>1, <1>2, <2>2, <3>1, <3>3, <3>4
  <2> QED BY <2>3, <2>4
<1> QED BY <1>3, <1>4

-----------------------------------------------------------------------------
(* The theorems.                                                           *)

\* The invariant holds at the start ...
THEOREM InvInit == Init => IInv
<1> SUFFICES ASSUME Init PROVE IInv
  OBVIOUS
<1>1. TypeOK
  BY TypeInit
<1>2. \A r \in Nets, n \in Nodes :
         in_buffers[r][n] = <<>> /\ out_buffers[r][n] = <<>> /\ waited[r][n] = 0
  BY DEF Init, InitIcnt
<1>3. ReqInBufferBound /\ Direction /\ EmptyNotWaited /\ BoundedWait
  BY <1>2, CrossbarAssumption
     DEF ReqInBufferBound, Direction, EmptyNotWaited, BoundedWait, Nets, REQ_NET
<1>4. OneFlitPerOutput
  <2> SUFFICES ASSUME NEW d \in Nodes
               PROVE  /\ Len(out_buffers[PopNet(d)][d]) <= IF turn <= d THEN 1 ELSE 0
                      /\ out_buffers[1 - PopNet(d)][d] = <<>>
    BY DEF OneFlitPerOutput
  <2>1. PopNet(d) \in Nets /\ 1 - PopNet(d) \in Nets
    BY NetFacts
  <2> QED BY <1>2, <2>1
<1> QED BY <1>1, <1>3, <1>4 DEF IInv

\* ... and every step keeps it.
THEOREM InvStep == IInv /\ [Next]_vars => IInv'
BY TypeStep, BoundStep, DirectionStep, OneFlitStep, EmptyStep, WaitStep DEF IInv

\* So it always holds, for any number of SMs and slices, any limits of the
\* buffers and any set of requests.
THEOREM Invariant == Spec => []IInv
BY InvInit, InvStep, PTL DEF Spec

\* The HasBuffer test of the SMs (m_miss_queue_cycle) keeps every request
\* buffer within in_buffer_limit.
THEOREM RequestBuffersBounded == Spec => []ReqInBufferBound
<1>1. IInv => ReqInBufferBound
  BY DEF IInv
<1> QED BY <1>1, Invariant, PTL

\* A device that pops once per cycle never leaves two packets in its output
\* buffer, so RR_Advance never meets a full one.
THEOREM OutputsDrained == Spec => []OneFlitPerOutput
<1>1. IInv => OneFlitPerOutput
  BY DEF IInv
<1> QED BY <1>1, Invariant, PTL

\* RR_Advance passes nobody over for a whole round.
THEOREM NobodyStarves == Spec => []BoundedWait
<1>1. IInv => BoundedWait
  BY DEF IInv
<1> QED BY <1>1, Invariant, PTL

-----------------------------------------------------------------------------
(* Places in a finite set of numbers.                                      *)

\* The ranks of the elements of P are 1 .. Cardinality(P), in their order.
LEMMA Ranks ==
    ASSUME NEW n \in Nat, NEW P \in SUBSET (1 .. n)
    PROVE  /\ IsFiniteSet(P) /\ Cardinality(P) \in Nat
           /\ \A k \in P : Rank(P, k) \in 1 .. Cardinality(P)
           /\ \A k, l \in P : k < l => Rank(P, k) < Rank(P, l)
           /\ \A j \in 1 .. Cardinality(P) : \E k \in P : Rank(P, k) = j
<1> DEFINE UpTo(k) == {m \in P : m <= k}
           N == Cardinality(P)
<1>1. IsFiniteSet(P) /\ N \in Nat
  <2>1. IsFiniteSet(1 .. n)
    BY FS_Interval
  <2>2. IsFiniteSet(P)
    BY <2>1, FS_Subset
  <2> QED BY <2>2, FS_CardinalityType
<1>2. \A k \in P : IsFiniteSet(UpTo(k)) /\ Cardinality(UpTo(k)) \in 1 .. N
  <2> SUFFICES ASSUME NEW k \in P PROVE IsFiniteSet(UpTo(k)) /\ Cardinality(UpTo(k)) \in 1 .. N
    OBVIOUS
  <2>1. UpTo(k) \in SUBSET P /\ k \in UpTo(k)
    OBVIOUS
  <2> DEFINE U == UpTo(k)
  <2> HIDE DEF U
  <2>2. U \in SUBSET P /\ U # {}
    BY <2>1 DEF U
  <2>3. IsFiniteSet(U) /\ Cardinality(U) <= N
    BY <1>1, <2>2, FS_Subset
  <2>4. Cardinality(U) \in Nat /\ Cardinality(U) # 0
    BY <2>2, <2>3, FS_CardinalityType, FS_EmptySet
  <2> QED BY <1>1, <2>3, <2>4 DEF U
<1>3. ASSUME NEW k \in P, NEW l \in P, k < l
      PROVE  Cardinality(UpTo(k)) < Cardinality(UpTo(l))
  <2>1. UpTo(k) \in SUBSET UpTo(l) /\ l \in UpTo(l) /\ l \notin UpTo(k)
    <3>1. k \in Int /\ l \in Int /\ \A m \in P : m \in Int
      OBVIOUS
    <3>2. l \in UpTo(l) /\ l \notin UpTo(k)
      BY <1>3, <3>1
    <3>3. \A m \in P : m <= k => m <= l
      BY <1>3, <3>1
    <3> QED BY <3>2, <3>3
  <2> DEFINE A == UpTo(k)
             B == UpTo(l)
  <2>2. IsFiniteSet(B) /\ Cardinality(A) \in Nat /\ Cardinality(B) \in Nat
    BY <1>2
  <2>3. A \in SUBSET B /\ A # B
    BY <2>1
  <2> HIDE DEF A, B
  <2>4. Cardinality(A) <= Cardinality(B) /\ Cardinality(A) # Cardinality(B)
    BY <2>2, <2>3, FS_Subset
  <2>5. Cardinality(A) < Cardinality(B)
    BY <2>2, <2>4
  <2> QED BY <2>5 DEF A, B
<1>4. \A j \in 1 .. N : \E k \in P : Cardinality(UpTo(k)) = j
  <2> DEFINE f == [k \in P |-> Cardinality(UpTo(k))]
             S == 1 .. N
  <2>1. f \in [P -> S] /\ \A k, l \in P : f[k] = f[l] => k = l
    <3>1. \A k, l \in P : k = l \/ k < l \/ l < k
      OBVIOUS
    <3>2. \A k \in P : f[k] = Cardinality(UpTo(k)) /\ f[k] \in 1 .. N
      BY <1>2
    <3>3. \A k, l \in P : k < l => f[k] < f[l]
      BY <1>3, <3>2
    <3>4. ASSUME NEW k \in P, NEW l \in P, f[k] = f[l] PROVE k = l
      <4>1. f[k] \in Nat /\ f[l] \in Nat /\ ~ (f[k] < f[l]) /\ ~ (f[l] < f[k])
        BY <3>2, <3>4
      <4> QED BY <3>1, <3>3, <4>1
    <3> QED BY <3>2, <3>4
  <2>2. IsFiniteSet(S) /\ Cardinality(S) = N
    <3>1. IsFiniteSet(1 .. N) /\ Cardinality(1 .. N) = IF 1 > N THEN 0 ELSE N - 1 + 1
      BY <1>1, FS_Interval
    <3> QED BY <1>1, <3>1
  <2>3. f \in Injection(P, S)
    <3> HIDE DEF f, S
    <3> QED BY <2>1 DEF Injection, IsInjective
  <2>4. f \in Surjection(P, S)
    <3> HIDE DEF f, S
    <3> QED BY <2>2, <2>3, FS_Injection
  <2>5. \A j \in S : \E k \in P : f[k] = j
    BY <2>4 DEF Surjection
  <2> QED BY <2>5
<1> QED BY <1>1, <1>2, <1>3, <1>4 DEF Rank

\* So the element with a given rank is unique.
LEMMA NthRank ==
    ASSUME NEW n \in Nat, NEW P \in SUBSET (1 .. n)
    PROVE  /\ \A k \in P : Nth(P, Rank(P, k)) = k
           /\ \A j \in 1 .. Cardinality(P) : Nth(P, j) \in P /\ Rank(P, Nth(P, j)) = j
<1>1. \A j \in 1 .. Cardinality(P) : Nth(P, j) \in P /\ Rank(P, Nth(P, j)) = j
  BY Ranks DEF Nth
<1>2. ASSUME NEW k \in P PROVE Nth(P, Rank(P, k)) = k
  <2> DEFINE l == Nth(P, Rank(P, k))
  <2>1. Rank(P, k) \in 1 .. Cardinality(P) /\ Cardinality(P) \in Nat
    BY Ranks
  <2>2. l \in P /\ Rank(P, l) = Rank(P, k)
    BY <1>1, <2>1
  <2> HIDE DEF l
  <2>3. k = l \/ k < l \/ l < k
    BY <2>2
  <2>4. ~ (k < l) /\ ~ (l < k)
    <3>1. \A a, b \in P : a < b => Rank(P, a) < Rank(P, b)
      BY Ranks
    <3>2. Rank(P, k) \in Nat /\ Rank(P, l) \in Nat
      BY <2>1, <2>2
    <3>3. ~ (Rank(P, k) < Rank(P, l)) /\ ~ (Rank(P, l) < Rank(P, k))
      BY <2>2, <3>2
    <3> QED BY <2>2, <3>1, <3>3
  <2> QED BY <2>3, <2>4 DEF l
<1> QED BY <1>1, <1>2

\* A set of numbers moved by one has as many elements.
LEMMA Moved ==
    ASSUME NEW A \in SUBSET Nat, NEW B \in SUBSET Nat, IsFiniteSet(A),
           \A m \in A : m + 1 \in B, \A m \in B : m # 0 /\ m - 1 \in A
    PROVE  IsFiniteSet(B) /\ Cardinality(B) = Cardinality(A)
<1> DEFINE f == [m \in A |-> m + 1]
<1>1. f \in [A -> B] /\ \A a, b \in A : f[a] = f[b] => a = b
  OBVIOUS
<1>2. \A b \in B : b - 1 \in A /\ f[b - 1] = b
  OBVIOUS
<1> HIDE DEF f
<1>3. f \in Injection(A, B)
  BY <1>1 DEF Injection, IsInjective
<1>4. f \in Surjection(A, B)
  BY <1>1, <1>2 DEF Surjection
<1> QED BY <1>3, <1>4, FS_Surjection

-----------------------------------------------------------------------------
(* The elements of a sequence that are in a set.                           *)

\* Each place of the sequence that holds one has its place among them.
LEMMA SelectedPlaces ==
    ASSUME NEW S, NEW s \in Seq(S), NEW T
    PROVE  /\ Places(s, T) \in SUBSET (1 .. Len(s))
           /\ IsFiniteSet(Places(s, T)) /\ Cardinality(Places(s, T)) \in Nat
           /\ Selected(s, T) \in Seq(S)
           /\ Len(Selected(s, T)) = Cardinality(Places(s, T))
           /\ \A k \in Places(s, T) :
                 /\ Rank(Places(s, T), k) \in 1 .. Cardinality(Places(s, T))
                 /\ Selected(s, T)[Rank(Places(s, T), k)] = s[k]
           /\ \A j \in 1 .. Cardinality(Places(s, T)) :
                 \E k \in Places(s, T) : Rank(Places(s, T), k) = j
<1> DEFINE P == Places(s, T)
<1>1. P \in SUBSET (1 .. Len(s)) /\ Len(s) \in Nat
  BY DEF Places
<1>2. Selected(s, T) = [j \in 1 .. Cardinality(P) |-> s[Nth(P, j)]]
  BY DEF Selected
<1> HIDE DEF P
<1>3. IsFiniteSet(P) /\ Cardinality(P) \in Nat
  BY <1>1, Ranks
<1>4. \A j \in 1 .. Cardinality(P) : Nth(P, j) \in P /\ s[Nth(P, j)] \in S
  <2>1. \A k \in P : s[k] \in S
    BY <1>1
  <2>2. \A j \in 1 .. Cardinality(P) : Nth(P, j) \in P
    BY <1>1, NthRank
  <2> QED BY <2>1, <2>2
<1>5. Selected(s, T) \in Seq(S) /\ Len(Selected(s, T)) = Cardinality(P)
  BY <1>2, <1>3, <1>4
<1>6. \A k \in P : Rank(P, k) \in 1 .. Cardinality(P) /\ Nth(P, Rank(P, k)) = k
  BY <1>1, Ranks, NthRank
<1>7. \A k \in P : Selected(s, T)[Rank(P, k)] = s[k]
  BY <1>2, <1>6
<1>8. \A j \in 1 .. Cardinality(P) : \E k \in P : Rank(P, k) = j
  BY <1>1, Ranks
<1> QED BY <1>1, <1>3, <1>5, <1>6, <1>7, <1>8 DEF P

\* Nothing is selected from nothing.
LEMMA SelectedEmpty == ASSUME NEW T PROVE Selected(<<>>, T) = <<>>
<1>1. Places(<<>>, T) = {}
  BY DEF Places
<1>2. Cardinality(Places(<<>>, T)) = 0
  BY <1>1, FS_EmptySet
<1> QED BY <1>2 DEF Selected

\* What is appended is selected last, or not at all.
LEMMA SelectedAppend ==
    ASSUME NEW S, NEW s \in Seq(S), NEW x \in S, NEW T
    PROVE  Selected(Append(s, x), T) =
             IF x \in T THEN Append(Selected(s, T), x) ELSE Selected(s, T)
<1> DEFINE n == Len(s)
           t == Append(s, x)
           P == Places(s, T)
           Q == Places(t, T)
           a == Selected(s, T)
           b == Selected(t, T)
<1>1. n \in Nat /\ t \in Seq(S) /\ Len(t) = n + 1 /\ t[n + 1] = x /\ \A k \in 1 .. n : t[k] = s[k]
  OBVIOUS
<1>2. \A k : k \in Q <=> k \in P \/ (k = n + 1 /\ x \in T)
  <2>1. DOMAIN s = 1 .. n /\ DOMAIN t = 1 .. n + 1
    OBVIOUS
  <2>2. \A k : k \in 1 .. n + 1 <=> k \in 1 .. n \/ k = n + 1
    BY <1>1
  <2>3. n + 1 \notin 1 .. n
    BY <1>1
  <2> HIDE DEF n, t
  <2> QED BY <1>1, <2>1, <2>2, <2>3 DEF Places
<1>3. /\ P \in SUBSET (1 .. n) /\ IsFiniteSet(P) /\ Cardinality(P) \in Nat
      /\ a \in Seq(S) /\ Len(a) = Cardinality(P)
      /\ \A k \in P : Rank(P, k) \in 1 .. Cardinality(P) /\ a[Rank(P, k)] = s[k]
      /\ \A j \in 1 .. Cardinality(P) : \E k \in P : Rank(P, k) = j
  BY SelectedPlaces
<1>4. /\ Q \in SUBSET (1 .. n + 1) /\ IsFiniteSet(Q) /\ Cardinality(Q) \in Nat
      /\ b \in Seq(S) /\ Len(b) = Cardinality(Q)
      /\ \A k \in Q : Rank(Q, k) \in 1 .. Cardinality(Q) /\ b[Rank(Q, k)] = t[k]
  <2> HIDE DEF t
  <2> QED BY <1>1, SelectedPlaces
<1> HIDE DEF n, t, P, Q, a, b
<1>5. \A k \in P : Rank(Q, k) = Rank(P, k)
  <2> SUFFICES ASSUME NEW k \in P PROVE {m \in Q : m <= k} = {m \in P : m <= k}
    BY DEF Rank
  <2>1. ~ (n + 1 <= k)
    BY <1>1, <1>3
  <2> QED BY <1>2, <2>1
<1>6. CASE x \notin T
  <2>1. Q = P
    BY <1>2, <1>6
  <2>2. \A j \in 1 .. Cardinality(P) : b[j] = a[j]
    <3> SUFFICES ASSUME NEW j \in 1 .. Cardinality(P) PROVE b[j] = a[j]
      OBVIOUS
    <3>1. PICK k \in P : Rank(P, k) = j
      BY <1>3
    <3> QED BY <1>1, <1>3, <1>4, <2>1, <3>1
  <2>3. b = a
    BY <1>3, <1>4, <2>1, <2>2
  <2> QED BY <1>6, <2>3 DEF a, b, t
<1>7. CASE x \in T
  <2>1. Q = P \cup {n + 1} /\ n + 1 \notin P
    BY <1>1, <1>2, <1>3, <1>7
  <2>2. Cardinality(Q) = Cardinality(P) + 1
    BY <1>3, <2>1, FS_AddElement
  <2>3. Rank(Q, n + 1) = Cardinality(P) + 1
    <3>1. {m \in Q : m <= n + 1} = Q
      <4>1. \A m \in Q : m \in 1 .. n + 1
        BY <1>4
      <4>2. \A m \in Q : m <= n + 1
        BY <1>1, <4>1
      <4> QED BY <4>2
    <3> QED BY <2>2, <3>1 DEF Rank
  <2>4. \A j \in 1 .. Cardinality(P) : b[j] = a[j]
    <3> SUFFICES ASSUME NEW j \in 1 .. Cardinality(P) PROVE b[j] = a[j]
      OBVIOUS
    <3>1. PICK k \in P : Rank(P, k) = j
      BY <1>3
    <3>2. k \in Q /\ k \in 1 .. n /\ Rank(Q, k) = j
      BY <1>3, <1>5, <2>1, <3>1
    <3> QED BY <1>1, <1>3, <1>4, <3>1, <3>2
  <2>5. b[Cardinality(P) + 1] = x
    <3>1. n + 1 \in Q
      BY <2>1
    <3>2. b[Rank(Q, n + 1)] = t[n + 1]
      BY <1>4, <3>1
    <3> QED BY <1>1, <2>3, <3>2
  <2>6. b = Append(a, x)
    BY <1>3, <1>4, <2>2, <2>4, <2>5
  <2> QED BY <1>7, <2>6 DEF a, b, t
<1> QED BY <1>6, <1>7

\* Without the first element, without its place if it had one.
LEMMA SelectedTail ==
    ASSUME NEW S, NEW s \in Seq(S), s # <<>>, NEW T
    PROVE  /\ Head(s) \in T => /\ Selected(s, T) # <<>>
                               /\ Head(Selected(s, T)) = Head(s)
                               /\ Selected(Tail(s), T) = Tail(Selected(s, T))
           /\ Head(s) \notin T => Selected(Tail(s), T) = Selected(s, T)
<1> DEFINE n == Len(s)
           t == Tail(s)
           P == Places(s, T)
           Q == Places(t, T)
           a == Selected(s, T)
           b == Selected(t, T)
<1>1. n \in Nat \ {0} /\ t \in Seq(S) /\ Len(t) = n - 1 /\ \A k \in 1 .. n - 1 : t[k] = s[k + 1]
  OBVIOUS
<1>2. /\ P \in SUBSET (1 .. n) /\ IsFiniteSet(P) /\ Cardinality(P) \in Nat
      /\ a \in Seq(S) /\ Len(a) = Cardinality(P)
      /\ \A k \in P : Rank(P, k) \in 1 .. Cardinality(P) /\ a[Rank(P, k)] = s[k]
  BY SelectedPlaces
<1>3. /\ Q \in SUBSET (1 .. n - 1) /\ IsFiniteSet(Q) /\ Cardinality(Q) \in Nat
      /\ b \in Seq(S) /\ Len(b) = Cardinality(Q)
      /\ \A k \in Q : Rank(Q, k) \in 1 .. Cardinality(Q) /\ b[Rank(Q, k)] = t[k]
      /\ \A j \in 1 .. Cardinality(Q) : \E k \in Q : Rank(Q, k) = j
  <2> HIDE DEF t
  <2> QED BY <1>1, SelectedPlaces
<1>4. \A k \in 1 .. n - 1 : k \in Q <=> k + 1 \in P
  <2>1. DOMAIN s = 1 .. n /\ DOMAIN t = 1 .. n - 1
    OBVIOUS
  <2>2. \A k \in 1 .. n - 1 : k + 1 \in 1 .. n
    BY <1>1
  <2> HIDE DEF n, t
  <2> QED BY <1>1, <2>1, <2>2 DEF Places
<1>5. Head(s) = s[1] /\ (Head(s) \in T <=> 1 \in P)
  <2>1. 1 \in DOMAIN s
    BY <1>1
  <2> QED BY <2>1 DEF Places
<1> HIDE DEF n, t, P, Q, a, b
<1>6. /\ \A m \in P : m \in Nat /\ m >= 1 /\ m <= n
      /\ \A m \in P : m # 1 => m - 1 \in Q
      /\ \A m \in Q : m \in Nat /\ m >= 1 /\ m <= n /\ m + 1 \in P
  <2>1. \A m \in P : m \in Nat /\ m >= 1 /\ m <= n
    BY <1>1, <1>2
  <2>2. \A m \in P : m # 1 => m - 1 \in 1 .. n - 1 /\ (m - 1) + 1 = m
    BY <1>1, <2>1
  <2>3. \A m \in Q : m \in 1 .. n - 1 /\ m \in Nat /\ m >= 1 /\ m <= n
    BY <1>1, <1>3
  <2> QED BY <1>4, <2>1, <2>2, <2>3
<1>7. ASSUME NEW k \in Nat
      PROVE  /\ Cardinality({m \in P : m <= k + 1 /\ m # 1}) = Cardinality({m \in Q : m <= k})
             /\ IsFiniteSet({m \in P : m <= k + 1 /\ m # 1})
  <2> DEFINE A == {m \in Q : m <= k}
             B == {m \in P : m <= k + 1 /\ m # 1}
  <2>1. A \in SUBSET Nat /\ B \in SUBSET Nat
    BY <1>6
  <2>2. A \in SUBSET Q
    OBVIOUS
  <2>3. \A m \in A : m + 1 \in B
    <3> SUFFICES ASSUME NEW m \in A PROVE m + 1 \in B
      OBVIOUS
    <3>1. m \in Nat /\ m >= 1 /\ m + 1 \in P /\ m <= k
      BY <1>6
    <3>2. m + 1 <= k + 1 /\ m + 1 # 1
      BY <3>1
    <3> QED BY <3>1, <3>2
  <2>4. \A m \in B : m # 0 /\ m - 1 \in A
    <3> SUFFICES ASSUME NEW m \in B PROVE m # 0 /\ m - 1 \in A
      OBVIOUS
    <3>1. m \in Nat /\ m >= 1 /\ m - 1 \in Q /\ m <= k + 1
      BY <1>6
    <3>2. m - 1 <= k /\ m # 0
      BY <3>1
    <3> QED BY <3>1, <3>2
  <2> HIDE DEF A, B
  <2>5. IsFiniteSet(A)
    BY <1>3, <2>2, FS_Subset
  <2>6. IsFiniteSet(B) /\ Cardinality(B) = Cardinality(A)
    BY <2>1, <2>3, <2>4, <2>5, Moved
  <2> QED BY <2>6 DEF A, B
<1>8. CASE 1 \notin P
  <2>1. ASSUME NEW k \in Nat PROVE Cardinality({m \in P : m <= k + 1}) = Cardinality({m \in Q : m <= k})
    <3>1. {m \in P : m <= k + 1} = {m \in P : m <= k + 1 /\ m # 1}
      BY <1>8
    <3> QED BY <1>7, <3>1
  <2>2. \A k \in Q : Rank(P, k + 1) = Rank(Q, k)
    BY <1>6, <2>1 DEF Rank
  <2>3. Cardinality(P) = Cardinality(Q)
    <3>1. {m \in P : m <= n + 1} = P
      BY <1>1, <1>6
    <3>2. {m \in Q : m <= n} = Q
      BY <1>6
    <3> QED BY <1>1, <2>1, <3>1, <3>2
  <2>4. ASSUME NEW j \in 1 .. Cardinality(Q) PROVE b[j] = a[j]
    <3>1. PICK k \in Q : Rank(Q, k) = j
      BY <1>3
    <3>2. b[j] = t[k] /\ a[j] = s[k + 1]
      BY <1>2, <1>3, <1>6, <2>2, <3>1
    <3> QED BY <1>1, <1>3, <3>1, <3>2
  <2>5. b = a
    BY <1>2, <1>3, <2>3, <2>4
  <2> QED BY <1>5, <1>8, <2>5 DEF a, b, t
<1>9. CASE 1 \in P
  <2>1. ASSUME NEW k \in Nat
        PROVE  Cardinality({m \in P : m <= k + 1}) = Cardinality({m \in Q : m <= k}) + 1
    <3> DEFINE B == {m \in P : m <= k + 1 /\ m # 1}
    <3>1. {m \in P : m <= k + 1} = B \cup {1} /\ 1 \notin B
      <4>1. 1 <= k + 1
        OBVIOUS
      <4> QED BY <1>9, <4>1
    <3>2. IsFiniteSet(B) /\ Cardinality(B) = Cardinality({m \in Q : m <= k})
      BY <1>7
    <3> HIDE DEF B
    <3>3. Cardinality(B \cup {1}) = Cardinality(B) + 1
      BY <3>1, <3>2, FS_AddElement
    <3> QED BY <3>1, <3>2, <3>3
  <2>2. \A k \in Q : Rank(P, k + 1) = Rank(Q, k) + 1
    BY <1>6, <2>1 DEF Rank
  <2>3. Cardinality(P) = Cardinality(Q) + 1
    <3>1. {m \in P : m <= n + 1} = P
      BY <1>1, <1>6
    <3>2. {m \in Q : m <= n} = Q
      BY <1>6
    <3> QED BY <1>1, <2>1, <3>1, <3>2
  <2>4. Rank(P, 1) = 1
    <3>1. {m \in P : m <= 1} = {1}
      BY <1>6, <1>9
    <3>2. Cardinality({1}) = 1
      BY FS_Singleton
    <3> QED BY <3>1, <3>2 DEF Rank
  <2>5. a[1] = s[1]
    BY <1>2, <1>9, <2>4
  <2>6. ASSUME NEW j \in 1 .. Cardinality(Q) PROVE b[j] = a[j + 1]
    <3>1. PICK k \in Q : Rank(Q, k) = j
      BY <1>3
    <3>2. b[j] = t[k] /\ a[j + 1] = s[k + 1]
      BY <1>2, <1>3, <1>6, <2>2, <3>1
    <3> QED BY <1>1, <1>3, <3>1, <3>2
  <2>7. a # <<>> /\ Head(a) = a[1]
    BY <1>2, <1>3, <2>3
  <2>8. b = Tail(a)
    <3>1. Tail(a) \in Seq(S) /\ Len(Tail(a)) = Len(a) - 1
          /\ \A j \in 1 .. Len(a) - 1 : Tail(a)[j] = a[j + 1]
      BY <1>2, <2>7
    <3>2. Len(a) - 1 = Cardinality(Q)
      BY <1>2, <1>3, <2>3
    <3> QED BY <1>3, <2>6, <3>1, <3>2
  <2> QED BY <1>5, <1>9, <2>5, <2>7, <2>8 DEF a, b, t
<1> QED BY <1>8, <1>9

-----------------------------------------------------------------------------
(* The channels.                                                           *)

\* The packets a device may have pushed into a router, and those that may
\* come out for a device.
From(r, i) == {p \in PacketSet : Source(r, p.data) = i /\ p.output_deviceID = Source(1 - r, p.data)}
For(r, o)  == {p \in PacketSet : p.output_deviceID = o /\ Source(1 - r, p.data) = o}

\* Every packet is where it came from or where it goes to, and a slice only
\* holds requests to itself.
Addressed ==
    /\ \A r \in Nets, n \in Nodes :
          /\ in_buffers[r][n] \in Seq(From(r, n))
          /\ out_buffers[r][n] \in Seq(For(r, n))
    /\ \A m \in Mems : \A mf \in held[m] : m_sub_partition[mf] = m

\* The packets on the way and a channel, before and after a step.
LEMMA OnTheWayIs ==
    ASSUME NEW r \in Nets, NEW i \in Nodes, NEW o \in Nodes
    PROVE  /\ OnTheWay(r, i, o) = Selected(out_buffers[r][o], Between(r, i, o))
                                  \o Selected(in_buffers[r][i], Between(r, i, o))
           /\ OnTheWay(r, i, o)' = Selected(out_buffers'[r][o], Between(r, i, o))
                                   \o Selected(in_buffers'[r][i], Between(r, i, o))
BY DEF OnTheWay, Selected, Nth, Rank, Places, Between, PacketSet, Source,
       Nets, Nodes, total_nodes

LEMMA ChannelIs ==
    ASSUME NEW r \in Nets, NEW i \in Nodes, NEW o \in Nodes
    PROVE  /\ Channels[r][i][o] = Carried(OnTheWay(r, i, o))
           /\ Channels'[r][i][o] = Carried(OnTheWay(r, i, o)')
BY DEF Channels, Carried, Nets, Nodes, total_nodes

\* Two sequences joined: more at the end, less at the front, and one element
\* moved from the second to the first.
LEMMA Joined ==
    ASSUME NEW S, NEW a \in Seq(S), NEW b \in Seq(S)
    PROVE  /\ a \o b \in Seq(S)
           /\ \A x \in S : a \o Append(b, x) = Append(a \o b, x)
           /\ a # <<>> => /\ a \o b # <<>>
                          /\ Head(a \o b) = Head(a)
                          /\ Tail(a) \o b = Tail(a \o b)
           /\ b # <<>> => Append(a, Head(b)) \o Tail(b) = a \o b
<1>1. a \o b \in Seq(S)
  OBVIOUS
<1>2. \A x \in S : a \o Append(b, x) = Append(a \o b, x)
  OBVIOUS
<1>3. ASSUME a # <<>> PROVE a \o b # <<>> /\ Head(a \o b) = Head(a) /\ Tail(a) \o b = Tail(a \o b)
  BY <1>3
<1>4. ASSUME b # <<>> PROVE Append(a, Head(b)) \o Tail(b) = a \o b
  BY <1>4
<1> QED BY <1>1, <1>2, <1>3, <1>4

\* What a sequence of packets carries follows the sequence.
LEMMA CarriedOf ==
    ASSUME NEW s \in Seq(PacketSet)
    PROVE  /\ \A p \in PacketSet : Carried(Append(s, p)) = Append(Carried(s), p.data)
           /\ s # <<>> => /\ Carried(s) # <<>>
                          /\ Head(Carried(s)) = Head(s).data
                          /\ Carried(Tail(s)) = Tail(Carried(s))
<1>1. \A t \in Seq(PacketSet) :
         /\ Carried(t) \in Seq(MemFetch) /\ Len(Carried(t)) = Len(t)
         /\ \A j \in 1 .. Len(t) : Carried(t)[j] = t[j].data
  <2> TAKE t \in Seq(PacketSet)
  <2>1. DOMAIN t = 1 .. Len(t) /\ Len(t) \in Nat /\ \A j \in 1 .. Len(t) : t[j] \in PacketSet
    OBVIOUS
  <2>2. Carried(t) = [j \in 1 .. Len(t) |-> t[j].data]
    BY <2>1 DEF Carried
  <2>3. \A j \in 1 .. Len(t) : t[j].data \in MemFetch
    BY <2>1 DEF PacketSet
  <2> QED BY <2>1, <2>2, <2>3
<1>2. ASSUME NEW p \in PacketSet PROVE Carried(Append(s, p)) = Append(Carried(s), p.data)
  <2>1. /\ Append(s, p) \in Seq(PacketSet) /\ Len(Append(s, p)) = Len(s) + 1
        /\ Append(s, p)[Len(s) + 1] = p /\ \A j \in 1 .. Len(s) : Append(s, p)[j] = s[j]
    OBVIOUS
  <2>2. p.data \in MemFetch
    BY DEF PacketSet
  <2>3. /\ Carried(s) \in Seq(MemFetch) /\ Len(Carried(s)) = Len(s)
        /\ \A j \in 1 .. Len(s) : Carried(s)[j] = s[j].data
        /\ Carried(Append(s, p)) \in Seq(MemFetch) /\ Len(Carried(Append(s, p))) = Len(s) + 1
        /\ \A j \in 1 .. Len(s) + 1 : Carried(Append(s, p))[j] = Append(s, p)[j].data
    BY <1>1, <2>1
  <2>4. \A j \in 1 .. Len(s) + 1 :
           Carried(Append(s, p))[j] = IF j = Len(s) + 1 THEN p.data ELSE Carried(s)[j]
    BY <2>1, <2>3
  <2> QED BY <2>2, <2>3, <2>4
<1>3. ASSUME s # <<>>
      PROVE  /\ Carried(s) # <<>> /\ Head(Carried(s)) = Head(s).data
             /\ Carried(Tail(s)) = Tail(Carried(s))
  <2>1. /\ Tail(s) \in Seq(PacketSet) /\ Len(Tail(s)) = Len(s) - 1 /\ Len(s) \in Nat \ {0}
        /\ \A j \in 1 .. Len(s) - 1 : Tail(s)[j] = s[j + 1]
        /\ Head(s) = s[1]
    BY <1>3
  <2>2. /\ Carried(s) \in Seq(MemFetch) /\ Len(Carried(s)) = Len(s)
        /\ \A j \in 1 .. Len(s) : Carried(s)[j] = s[j].data
        /\ Carried(Tail(s)) \in Seq(MemFetch) /\ Len(Carried(Tail(s))) = Len(s) - 1
        /\ \A j \in 1 .. Len(s) - 1 : Carried(Tail(s))[j] = Tail(s)[j].data
    BY <1>1, <2>1
  <2>3. Carried(s) # <<>> /\ Head(Carried(s)) = Head(s).data
    BY <2>1, <2>2
  <2>4. \A j \in 1 .. Len(s) - 1 : Carried(Tail(s))[j] = Carried(s)[j + 1]
    BY <2>1, <2>2
  <2>5. Carried(Tail(s)) = Tail(Carried(s))
    BY <2>1, <2>2, <2>4
  <2> QED BY <2>3, <2>5
<1> QED BY <1>2, <1>3

\* The two parts of what is on the way are sequences of packets.
LEMMA SelectedParts ==
    ASSUME TypeOK, NEW r \in Nets, NEW i \in Nodes, NEW o \in Nodes
    PROVE  /\ in_buffers[r][i] \in Seq(PacketSet)
           /\ out_buffers[r][o] \in Seq(PacketSet)
           /\ Selected(in_buffers[r][i], Between(r, i, o)) \in Seq(PacketSet)
           /\ Selected(out_buffers[r][o], Between(r, i, o)) \in Seq(PacketSet)
           /\ OnTheWay(r, i, o) \in Seq(PacketSet)
<1>1. in_buffers[r][i] \in Seq(PacketSet) /\ out_buffers[r][o] \in Seq(PacketSet)
  BY DEF TypeOK, IcntTypeOK
<1>2. /\ Selected(in_buffers[r][i], Between(r, i, o)) \in Seq(PacketSet)
      /\ Selected(out_buffers[r][o], Between(r, i, o)) \in Seq(PacketSet)
  BY <1>1, SelectedPlaces
<1> QED BY <1>1, <1>2, Joined DEF OnTheWay

\* A Push appends its request to the channel of its two devices, and to no
\* other.
LEMMA PushChannel ==
    ASSUME TypeOK, NEW d \in Nodes, NEW t \in Nodes, NEW mf \in MemFetch, Push(d, t, mf),
           Source(PushNet(d), mf) = d,
           NEW r \in Nets, NEW i \in Nodes, NEW o \in Nodes,
           out_buffers'[r][o] = out_buffers[r][o]
    PROVE  Channels'[r][i][o] = IF r = PushNet(d) /\ i = d /\ o = t
                                THEN Append(Channels[r][i][o], mf)
                                ELSE Channels[r][i][o]
<1> DEFINE T == Between(r, i, o)
           a == Selected(out_buffers[r][o], T)
           b == Selected(in_buffers[r][i], T)
           x == Packet(mf, t)
<1>1. a \in Seq(PacketSet) /\ b \in Seq(PacketSet) /\ in_buffers[r][i] \in Seq(PacketSet)
  BY SelectedParts
<1>2. x \in PacketSet /\ x.data = mf
  BY DEF Packet, PacketSet
<1>3. r = PushNet(d) /\ i = d => (x \in T <=> o = t)
  BY <1>2 DEF Packet, Between
<1>4. /\ OnTheWay(r, i, o) = a \o b
      /\ OnTheWay(r, i, o)' = Selected(out_buffers'[r][o], T) \o Selected(in_buffers'[r][i], T)
  BY OnTheWayIs
<1> HIDE DEF T, x
<1>5. Selected(in_buffers'[r][i], T) = IF r = PushNet(d) /\ i = d /\ o = t THEN Append(b, x) ELSE b
  <2>1. CASE r = PushNet(d) /\ i = d
    <3>1. in_buffers'[r][i] = Append(in_buffers[r][i], x)
      BY <2>1, PushEffect DEF TypeOK, x
    <3>2. Selected(Append(in_buffers[r][i], x), T) =
            IF x \in T THEN Append(Selected(in_buffers[r][i], T), x) ELSE Selected(in_buffers[r][i], T)
      BY <1>1, <1>2, SelectedAppend
    <3> QED BY <1>3, <2>1, <3>1, <3>2
  <2>2. CASE ~ (r = PushNet(d) /\ i = d)
    <3>1. in_buffers'[r][i] = in_buffers[r][i]
      BY <2>2, PushEffect DEF TypeOK
    <3> QED BY <2>2, <3>1
  <2> QED BY <2>1, <2>2
<1>6. Selected(out_buffers'[r][o], T) = a
  OBVIOUS
<1> HIDE DEF a, b
<1>7. a \o Append(b, x) = Append(a \o b, x)
  BY <1>1, <1>2, Joined
<1>8. OnTheWay(r, i, o)' = IF r = PushNet(d) /\ i = d /\ o = t
                           THEN Append(OnTheWay(r, i, o), x) ELSE OnTheWay(r, i, o)
  BY <1>4, <1>5, <1>6, <1>7
<1>9. OnTheWay(r, i, o) \in Seq(PacketSet)
  BY SelectedParts
<1>10. Carried(Append(OnTheWay(r, i, o), x)) = Append(Carried(OnTheWay(r, i, o)), mf)
  BY <1>2, <1>9, CarriedOf
<1>11. /\ Channels[r][i][o] = Carried(OnTheWay(r, i, o))
       /\ Channels'[r][i][o] = Carried(OnTheWay(r, i, o)')
  BY ChannelIs
<1> QED BY <1>8, <1>10, <1>11

\* A Pop takes the oldest request of one channel to its device, if anything
\* has come out for it, and changes no other channel.
LEMMA PopChannel ==
    ASSUME TypeOK, Addressed, NEW d \in Nodes, Pop(d),
           NEW r \in Nets, NEW i \in Nodes, NEW o \in Nodes,
           in_buffers'[r][i] = in_buffers[r][i]
    PROVE  IF HasReply(d) /\ r = PopNet(d) /\ o = d /\ i = Source(r, Popped(d))
           THEN /\ Channels[r][i][o] # <<>>
                /\ Head(Channels[r][i][o]) = Popped(d)
                /\ Channels'[r][i][o] = Tail(Channels[r][i][o])
           ELSE Channels'[r][i][o] = Channels[r][i][o]
<1> DEFINE T == Between(r, i, o)
           s == out_buffers[r][o]
           a == Selected(s, T)
           b == Selected(in_buffers[r][i], T)
           Its == HasReply(d) /\ r = PopNet(d) /\ o = d
<1>1. a \in Seq(PacketSet) /\ b \in Seq(PacketSet) /\ s \in Seq(PacketSet)
  BY SelectedParts
<1>2. OnTheWay(r, i, o) = a \o b /\ OnTheWay(r, i, o)' = Selected(out_buffers'[r][o], T) \o b
  <2>1. OnTheWay(r, i, o) = a \o b
    BY OnTheWayIs
  <2>2. OnTheWay(r, i, o)' = Selected(out_buffers'[r][o], T) \o Selected(in_buffers'[r][i], T)
    BY OnTheWayIs
  <2>3. Selected(in_buffers'[r][i], T) = b
    OBVIOUS
  <2> QED BY <2>1, <2>2, <2>3
<1>3. OnTheWay(r, i, o) \in Seq(PacketSet)
  BY SelectedParts
<1>4. CASE ~Its
  <2>1. out_buffers'[r][o] = s
    BY <1>4, NetFacts, PopEffect DEF TypeOK, HasReply
  <2> HIDE DEF T, s
  <2>2. OnTheWay(r, i, o)' = OnTheWay(r, i, o)
    BY <1>2, <2>1
  <2> QED BY <1>4, <2>2, ChannelIs
<1>5. CASE Its
  <2>1. s # <<>> /\ out_buffers'[r][o] = Tail(s) /\ Head(s) \in PacketSet
    BY <1>1, <1>5, PopEffect DEF TypeOK, HasReply
  <2>2. Popped(d) = Head(s).data
    BY <1>5 DEF Popped
  <2>3. Head(s) \in For(r, o)
    <3>1. s \in Seq(For(r, o))
      BY DEF Addressed
    <3> QED BY <2>1, <3>1
  <2>4. Head(s) \in T <=> i = Source(r, Popped(d))
    BY <2>1, <2>2, <2>3 DEF For, Between
  <2> HIDE DEF T, s
  <2>5. CASE i = Source(r, Popped(d))
    <3>1. a # <<>> /\ Head(a) = Head(s) /\ Selected(out_buffers'[r][o], T) = Tail(a)
      BY <1>1, <2>1, <2>4, <2>5, SelectedTail
    <3> HIDE DEF a, b
    <3>2. a \o b # <<>> /\ Head(a \o b) = Head(a) /\ Tail(a) \o b = Tail(a \o b)
      BY <1>1, <3>1, Joined
    <3>3. /\ OnTheWay(r, i, o) # <<>> /\ Head(OnTheWay(r, i, o)) = Head(s)
          /\ OnTheWay(r, i, o)' = Tail(OnTheWay(r, i, o))
      BY <1>2, <3>1, <3>2
    <3>4. /\ Carried(OnTheWay(r, i, o)) # <<>>
          /\ Head(Carried(OnTheWay(r, i, o))) = Head(OnTheWay(r, i, o)).data
          /\ Carried(Tail(OnTheWay(r, i, o))) = Tail(Carried(OnTheWay(r, i, o)))
      BY <1>3, <3>3, CarriedOf
    <3>5. /\ Channels[r][i][o] # <<>> /\ Head(Channels[r][i][o]) = Popped(d)
          /\ Channels'[r][i][o] = Tail(Channels[r][i][o])
      BY <2>2, <3>3, <3>4, ChannelIs
    <3> QED BY <1>5, <2>5, <3>5
  <2>6. CASE i # Source(r, Popped(d))
    <3>1. Selected(out_buffers'[r][o], T) = a
      BY <1>1, <2>1, <2>4, <2>6, SelectedTail
    <3>2. OnTheWay(r, i, o)' = OnTheWay(r, i, o)
      BY <1>2, <3>1
    <3> QED BY <2>6, <3>2, ChannelIs
  <2> QED BY <2>5, <2>6
<1> QED BY <1>4, <1>5

\* RR_Advance issues at most one packet to an output.
LEMMA OneIssued ==
    ASSUME TypeOK, NEW r \in Nets, NEW o \in Nodes, NEW n \in Nodes, NEW k \in Nodes,
           Issues(r, n, o), Issues(r, k, o)
    PROVE  n = k
<1>1. next_node_id[r] \in Nodes
  BY DEF TypeOK, IcntTypeOK
<1>2. /\ ScanPos(r, n) = IF n < next_node_id[r] THEN n + total_nodes - next_node_id[r]
                                                ELSE n - next_node_id[r]
      /\ ScanPos(r, k) = IF k < next_node_id[r] THEN k + total_nodes - next_node_id[r]
                                                ELSE k - next_node_id[r]
      /\ ScanPos(r, n) \in Nat /\ ScanPos(r, k) \in Nat
  BY <1>1, ScanPosValue
<1>3. ScanPos(r, n) <= ScanPos(r, k) /\ ScanPos(r, k) <= ScanPos(r, n)
  BY DEF Issues
<1>4. /\ n \in Nat /\ n < total_nodes /\ k \in Nat /\ k < total_nodes
      /\ next_node_id[r] \in Nat /\ next_node_id[r] < total_nodes /\ total_nodes \in Nat
  BY <1>1, NodesFacts
<1>5. ScanPos(r, n) = ScanPos(r, k)
  BY <1>2, <1>3
<1> QED BY <1>2, <1>4, <1>5

\* An Advance moves packets along the channels and changes none of them.
LEMMA AdvanceChannel ==
    ASSUME TypeOK, Addressed, Advance, NEW r \in Nets, NEW i \in Nodes, NEW o \in Nodes
    PROVE  Channels'[r][i][o] = Channels[r][i][o]
<1> DEFINE T == Between(r, i, o)
           a == Selected(out_buffers[r][o], T)
           b == Selected(in_buffers[r][i], T)
           p(n) == Head(in_buffers[r][n])
<1>1. /\ a \in Seq(PacketSet) /\ b \in Seq(PacketSet)
      /\ in_buffers[r][i] \in Seq(PacketSet) /\ out_buffers[r][o] \in Seq(PacketSet)
  BY SelectedParts
<1>2. /\ OnTheWay(r, i, o) = a \o b
      /\ OnTheWay(r, i, o)' = Selected(out_buffers'[r][o], T) \o Selected(in_buffers'[r][i], T)
  BY OnTheWayIs
<1>3. ASSUME NEW n \in Nodes, NEW t \in Nodes, Issues(r, n, t)
      PROVE  /\ in_buffers[r][n] # <<>> /\ p(n) \in PacketSet
             /\ p(n) \in T <=> n = i /\ t = o
  <2>1. in_buffers[r][n] \in Seq(From(r, n)) /\ in_buffers[r][n] # <<>>
    BY <1>3, IssuesFront DEF Addressed, TypeOK
  <2>2. p(n) \in From(r, n)
    BY <2>1
  <2>3. p(n).output_deviceID = t
    BY <1>3, IssuesFront DEF TypeOK
  <2> HIDE DEF p
  <2> QED BY <2>1, <2>2, <2>3 DEF From, Between
<1>4. IF \E t \in Nodes : Issues(r, i, t)
      THEN in_buffers'[r][i] = Tail(in_buffers[r][i])
      ELSE in_buffers'[r][i] = in_buffers[r][i]
  BY AdvanceInEffect DEF TypeOK
<1>5. ASSUME NEW n \in Nodes, Issues(r, n, o)
      PROVE  out_buffers'[r][o] = Append(out_buffers[r][o], p(n))
  <2> DEFINE k == CHOOSE m \in Nodes : Issues(r, m, o)
  <2>1. k \in Nodes /\ Issues(r, k, o)
    BY <1>5
  <2>2. out_buffers'[r][o] = Append(out_buffers[r][o], p(k))
    BY <1>5 DEF Advance, AdvancedOut
  <2> HIDE DEF k, p
  <2>3. k = n
    BY <1>5, <2>1, OneIssued
  <2> QED BY <2>2, <2>3
<1>6. (~ \E n \in Nodes : Issues(r, n, o)) => out_buffers'[r][o] = out_buffers[r][o]
  BY AdvanceOutEffect DEF TypeOK
<1> HIDE DEF T, p
<1>7. CASE Issues(r, i, o)
  <2>1. Selected(out_buffers'[r][o], T) = Append(a, p(i))
    <3>1. p(i) \in PacketSet /\ p(i) \in T /\ out_buffers'[r][o] = Append(out_buffers[r][o], p(i))
      BY <1>3, <1>5, <1>7
    <3>2. Selected(Append(out_buffers[r][o], p(i)), T) = Append(Selected(out_buffers[r][o], T), p(i))
      BY <1>1, <3>1, SelectedAppend
    <3> QED BY <3>1, <3>2
  <2>2. /\ b # <<>> /\ Head(b) = p(i)
        /\ Selected(in_buffers'[r][i], T) = Tail(b)
    <3>1. in_buffers[r][i] # <<>> /\ p(i) \in T /\ in_buffers'[r][i] = Tail(in_buffers[r][i])
      BY <1>3, <1>4, <1>7
    <3> QED BY <1>1, <3>1, SelectedTail DEF p
  <2> HIDE DEF a, b
  <2>3. Append(a, Head(b)) \o Tail(b) = a \o b
    BY <1>1, <2>2, Joined
  <2>4. OnTheWay(r, i, o)' = OnTheWay(r, i, o)
    BY <1>2, <2>1, <2>2, <2>3
  <2> QED BY <2>4, ChannelIs
<1>8. CASE ~Issues(r, i, o)
  <2>1. Selected(out_buffers'[r][o], T) = a
    <3>1. CASE \E n \in Nodes : Issues(r, n, o)
      <4>1. PICK n \in Nodes : Issues(r, n, o)
        BY <3>1
      <4>2. p(n) \in PacketSet /\ p(n) \notin T
        BY <1>3, <1>8, <4>1
      <4>3. Selected(Append(out_buffers[r][o], p(n)), T) = Selected(out_buffers[r][o], T)
        BY <1>1, <4>2, SelectedAppend
      <4> QED BY <1>5, <4>1, <4>3
    <3>2. CASE ~ \E n \in Nodes : Issues(r, n, o)
      BY <1>6, <3>2
    <3> QED BY <3>1, <3>2
  <2>2. Selected(in_buffers'[r][i], T) = b
    <3>1. CASE \E t \in Nodes : Issues(r, i, t)
      <4>1. PICK t \in Nodes : Issues(r, i, t)
        BY <3>1
      <4>2. in_buffers[r][i] # <<>> /\ p(i) \notin T
        BY <1>3, <1>8, <4>1
      <4> QED BY <1>1, <1>4, <3>1, <4>2, SelectedTail DEF p
    <3>2. CASE ~ \E t \in Nodes : Issues(r, i, t)
      BY <1>4, <3>2
    <3> QED BY <3>1, <3>2
  <2> QED BY <1>2, <2>1, <2>2, ChannelIs
<1> QED BY <1>7, <1>8

-----------------------------------------------------------------------------
(* Every packet is addressed.                                              *)

\* A sequence without its first element keeps its type.
LEMMA TailIn == ASSUME NEW S, NEW s \in Seq(S), s # <<>> PROVE Tail(s) \in Seq(S)
OBVIOUS

\* Empty buffers hold nothing that is not addressed.
LEMMA AddressedInit == Init => Addressed
<1> SUFFICES ASSUME Init PROVE Addressed
  OBVIOUS
<1>1. \A r \in Nets, n \in Nodes : in_buffers[r][n] = <<>> /\ out_buffers[r][n] = <<>>
  BY DEF Init, InitIcnt
<1>2. \A m \in Mems : held[m] = {}
  BY DEF Init
<1>3. \A S : <<>> \in Seq(S)
  OBVIOUS
<1> QED BY <1>1, <1>2, <1>3 DEF Addressed

\* A step that adds one packet from its sender, and no other.
LEMMA PushAddressed ==
    ASSUME TypeOK, Addressed, NEW d \in Nodes, NEW t \in Nodes, NEW mf \in MemFetch,
           Push(d, t, mf), Source(PushNet(d), mf) = d, Source(1 - PushNet(d), mf) = t,
           NEW r \in Nets, NEW n \in Nodes
    PROVE  in_buffers'[r][n] \in Seq(From(r, n))
<1>1. in_buffers[r][n] \in Seq(From(r, n))
  BY DEF Addressed
<1>2. CASE r = PushNet(d) /\ n = d
  <2>1. in_buffers'[r][n] = Append(in_buffers[r][n], Packet(mf, t))
    BY <1>2, PushEffect DEF TypeOK
  <2>2. Packet(mf, t) \in From(r, n)
    BY <1>2 DEF Packet, PacketSet, From
  <2> HIDE DEF From
  <2> QED BY <1>1, <2>1, <2>2
<1>3. CASE ~ (r = PushNet(d) /\ n = d)
  BY <1>1, <1>3, PushEffect DEF TypeOK
<1> QED BY <1>2, <1>3

\* A Pop takes a packet that was for the device.
LEMMA PopAddressed ==
    ASSUME TypeOK, Addressed, NEW d \in Nodes, Pop(d)
    PROVE  /\ \A r \in Nets, o \in Nodes : out_buffers'[r][o] \in Seq(For(r, o))
           /\ HasReply(d) => Source(1 - PopNet(d), Popped(d)) = d
<1>1. \A r \in Nets, o \in Nodes : out_buffers[r][o] \in Seq(For(r, o))
  BY DEF Addressed
<1>2. \A r \in Nets, o \in Nodes :
         \/ out_buffers'[r][o] = out_buffers[r][o]
         \/ out_buffers[r][o] # <<>> /\ out_buffers'[r][o] = Tail(out_buffers[r][o])
  BY PopEffect DEF TypeOK, HasReply
<1>3. \A r \in Nets, o \in Nodes : out_buffers'[r][o] \in Seq(For(r, o))
  <2> SUFFICES ASSUME NEW r \in Nets, NEW o \in Nodes PROVE out_buffers'[r][o] \in Seq(For(r, o))
    OBVIOUS
  <2> QED BY <1>1, <1>2, TailIn
<1>4. HasReply(d) => Source(1 - PopNet(d), Popped(d)) = d
  <2> SUFFICES ASSUME HasReply(d) PROVE Source(1 - PopNet(d), Popped(d)) = d
    OBVIOUS
  <2>1. PopNet(d) \in Nets
    BY NetFacts
  <2>2. out_buffers[PopNet(d)][d] \in Seq(For(PopNet(d), d)) /\ out_buffers[PopNet(d)][d] # <<>>
    BY <1>1, <2>1 DEF HasReply
  <2>3. Head(out_buffers[PopNet(d)][d]) \in For(PopNet(d), d)
    BY <2>2
  <2> QED BY <2>3 DEF For, Popped
<1> QED BY <1>3, <1>4

\* An Advance takes a packet to the output it is for.
LEMMA AdvanceAddressed ==
    ASSUME TypeOK, Addressed, Advance, NEW r \in Nets, NEW n \in Nodes
    PROVE  in_buffers'[r][n] \in Seq(From(r, n)) /\ out_buffers'[r][n] \in Seq(For(r, n))
<1>1. \A k \in Nodes : in_buffers[r][k] \in Seq(From(r, k)) /\ out_buffers[r][k] \in Seq(For(r, k))
  BY DEF Addressed
<1>2. in_buffers'[r][n] \in Seq(From(r, n))
  <2>1. \/ in_buffers[r][n] # <<>> /\ in_buffers'[r][n] = Tail(in_buffers[r][n])
        \/ in_buffers'[r][n] = in_buffers[r][n]
    BY AdvanceInEffect DEF TypeOK
  <2> QED BY <1>1, <2>1, TailIn
<1>3. ASSUME NEW k \in Nodes, Issues(r, k, n),
             out_buffers'[r][n] = Append(out_buffers[r][n], Head(in_buffers[r][k]))
      PROVE  out_buffers'[r][n] \in Seq(For(r, n))
  <2>1. in_buffers[r][k] # <<>> /\ Head(in_buffers[r][k]).output_deviceID = n
    BY <1>3, IssuesFront DEF TypeOK
  <2>2. Head(in_buffers[r][k]) \in From(r, k)
    BY <1>1, <2>1
  <2>3. Head(in_buffers[r][k]) \in For(r, n)
    BY <2>1, <2>2 DEF From, For
  <2> QED BY <1>1, <1>3, <2>3
<1>4. out_buffers'[r][n] \in Seq(For(r, n))
  BY <1>1, <1>3, AdvanceOutEffect DEF TypeOK
<1> QED BY <1>2, <1>4

\* What a device pushes comes from it: an SM sends its own requests, a slice
\* answers requests it popped.
LEMMA AddressedStep == TypeOK /\ Addressed /\ [Next]_vars => Addressed'
<1> SUFFICES ASSUME TypeOK, Addressed, [Next]_vars
             PROVE  /\ \A r \in Nets, n \in Nodes : in_buffers'[r][n] \in Seq(From(r, n))
                    /\ \A r \in Nets, n \in Nodes : out_buffers'[r][n] \in Seq(For(r, n))
                    /\ \A m \in Mems : \A mf \in held'[m] : m_sub_partition[mf] = m
  BY DEF Addressed, From, For, PacketSet, Source, Nets, Nodes, Mems, total_nodes
<1> DEFINE InOK   == \A r \in Nets, n \in Nodes : in_buffers'[r][n] \in Seq(From(r, n))
           OutOK  == \A r \in Nets, n \in Nodes : out_buffers'[r][n] \in Seq(For(r, n))
           HeldOK == \A m \in Mems : \A mf \in held'[m] : m_sub_partition[mf] = m
<1>1. /\ UNCHANGED in_buffers => InOK
      /\ UNCHANGED out_buffers => OutOK
      /\ UNCHANGED held => HeldOK
  BY DEF Addressed
<1>2. ASSUME NEW m \in Mems, MemPop(m) PROVE InOK /\ OutOK /\ HeldOK
  <2>1. m \in Nodes /\ PopNet(m) = REQ_NET
    BY NodesFacts DEF PopNet
  <2>2. OutOK /\ (HasReply(m) => Source(1 - PopNet(m), Popped(m)) = m)
    BY <1>2, <2>1, PopAddressed DEF MemPop
  <2>3. HasReply(m) => m_sub_partition[Popped(m)] = m
    BY <2>1, <2>2 DEF Source, REQ_NET
  <2>4. HeldOK
    BY <1>2, <2>3 DEF MemPop, Addressed, TypeOK
  <2> QED BY <1>1, <1>2, <2>2, <2>4 DEF MemPop
<1>3. ASSUME NEW m \in Mems, NEW mf \in MemFetch, MemReply(m, mf) PROVE InOK /\ OutOK /\ HeldOK
  <2>1. m \in Nodes /\ m_sm_id[mf] \in Nodes /\ PushNet(m) = REPLY_NET
    BY NodesFacts, RoutingAssumption DEF PushNet
  <2>2. m_sub_partition[mf] = m
    BY <1>3 DEF MemReply, Addressed
  <2>3. Source(PushNet(m), mf) = m /\ Source(1 - PushNet(m), mf) = m_sm_id[mf]
    BY <2>1, <2>2 DEF Source, REQ_NET, REPLY_NET
  <2>4. InOK
    BY <1>3, <2>1, <2>3, PushAddressed DEF MemReply
  <2>5. HeldOK
    BY <1>3 DEF MemReply, Addressed, TypeOK
  <2> QED BY <1>1, <1>3, <2>4, <2>5 DEF MemReply
<1>4. CASE XbarAdvance
  BY <1>1, <1>4, AdvanceAddressed DEF XbarAdvance
<1>5. ASSUME NEW s \in Shaders, SmSilent(s) PROVE InOK /\ OutOK /\ HeldOK
  <2>1. s \in Nodes
    BY NodesFacts
  <2> QED BY <1>1, <1>5, <2>1, PopAddressed DEF SmSilent
<1>6. ASSUME NEW s \in Shaders, NEW mf \in MemFetch, SmRequest(s, mf) PROVE InOK /\ OutOK /\ HeldOK
  <2>1. s \in Nodes /\ m_sub_partition[mf] \in Nodes /\ PushNet(s) = REQ_NET
    BY NodesFacts, RoutingAssumption DEF PushNet
  <2>2. Source(PushNet(s), mf) = s /\ Source(1 - PushNet(s), mf) = m_sub_partition[mf]
    BY <1>6, <2>1 DEF Source, REQ_NET, SmRequest
  <2>3. InOK
    BY <1>6, <2>1, <2>2, PushAddressed DEF SmRequest
  <2>4. OutOK
    BY <1>6, <2>1, PopAddressed DEF SmRequest
  <2> QED BY <1>1, <1>6, <2>3, <2>4 DEF SmRequest
<1>7. CASE UNCHANGED vars
  BY <1>1, <1>7 DEF vars
<1> QED BY <1>2, <1>3, <1>4, <1>5, <1>6, <1>7 DEF Next

-----------------------------------------------------------------------------
(* The refinement.                                                         *)

\* What is with a device, before and after a step.
LEMMA AtDeviceIs ==
    /\ \A s \in Shaders : /\ AtDevice[s] = {mf \in idle : m_sm_id[mf] = s}
                           /\ AtDevice'[s] = {mf \in idle' : m_sm_id[mf] = s}
    /\ \A m \in Mems : AtDevice[m] = held[m] /\ AtDevice'[m] = held'[m]
<1>1. \A s \in Shaders : s \in Nodes /\ s < n_shader
  BY NodesFacts DEF Shaders
<1>2. \A m \in Mems : m \in Nodes /\ ~ (m < n_shader)
  BY NodesFacts DEF Mems
<1>3. \A d \in Nodes :
         /\ AtDevice[d] = IF d < n_shader THEN {mf \in idle : m_sm_id[mf] = d} ELSE held[d]
         /\ AtDevice'[d] = IF d < n_shader THEN {mf \in idle' : m_sm_id[mf] = d} ELSE held'[d]
  BY DEF AtDevice, Nodes, total_nodes
<1> QED BY <1>1, <1>2, <1>3

\* At the start the channels are empty and the SMs have all requests.
THEOREM FifoInit == Init => Fifo!Init
<1> SUFFICES ASSUME Init PROVE Fifo!Init
  OBVIOUS
<1>1. \A r \in Nets, n \in Nodes : in_buffers[r][n] = <<>> /\ out_buffers[r][n] = <<>>
  BY DEF Init, InitIcnt
<1>2. \A r \in Nets, i, o \in Nodes : Carried(OnTheWay(r, i, o)) = <<>>
  <2> SUFFICES ASSUME NEW r \in Nets, NEW i \in Nodes, NEW o \in Nodes
               PROVE  Carried(OnTheWay(r, i, o)) = <<>>
    OBVIOUS
  <2>1. Selected(<<>>, Between(r, i, o)) = <<>>
    BY SelectedEmpty
  <2>2. <<>> \o <<>> = <<>>
    OBVIOUS
  <2>3. OnTheWay(r, i, o) = <<>>
    BY <1>1, <2>1, <2>2 DEF OnTheWay
  <2> QED BY <2>3 DEF Carried
<1>3. TypeOK
  BY TypeInit
<1>4. \A d \in Nodes : d \in Shaders \/ d \in Mems
  BY NodesFacts
<1>5. \A m \in Mems : AtDevice[m] = {}
  BY AtDeviceIs DEF Init
<1>6. \A d, e \in Nodes : d # e => AtDevice[d] \cap AtDevice[e] = {}
  BY <1>4, <1>5, AtDeviceIs
<1>7. AtDevice \in [Nodes -> SUBSET MemFetch]
  <2>1. \A d \in Nodes : AtDevice[d] \in SUBSET MemFetch
    BY <1>3, <1>4, <1>5, AtDeviceIs DEF TypeOK
  <2>2. AtDevice = [d \in Nodes |-> AtDevice[d]]
    BY DEF AtDevice
  <2> QED BY <2>1, <2>2
<1> QED BY <1>2, <1>6, <1>7 DEF Fifo!Init, Channels

\* The channels are a function of two networks and two devices, before and
\* after a step.
LEMMA ChannelsDomain ==
    /\ Channels = [r \in Nets |-> [i \in Nodes |-> [o \in Nodes |-> Channels[r][i][o]]]]
    /\ Channels' = [r \in Nets |-> [i \in Nodes |-> [o \in Nodes |-> Channels'[r][i][o]]]]
BY DEF Channels, Nets, Nodes, total_nodes

\* What a device has after a step that changes only what it has.
LEMMA AtOneDevice ==
    ASSUME NEW d \in Nodes, NEW S,
           AtDevice'[d] = S, \A e \in Nodes \ {d} : AtDevice'[e] = AtDevice[e]
    PROVE  AtDevice' = [AtDevice EXCEPT ![d] = S]
<1>1. AtDevice' = [e \in Nodes |-> AtDevice'[e]]
  BY DEF AtDevice, Nodes, total_nodes
<1>2. AtDevice = [e \in Nodes |-> AtDevice[e]]
  BY DEF AtDevice
<1> QED BY <1>1, <1>2

\* A packet comes from a device.
LEMMA SourceIsNode ==
    ASSUME NEW r \in Nets, NEW mf \in MemFetch PROVE Source(r, mf) \in Nodes
BY RoutingAssumption, NodesFacts DEF Source

\* A step in which one device pops and nobody pushes.
LEMMA PopReceives ==
    ASSUME TypeOK, Addressed, NEW d \in Nodes, Pop(d), HasReply(d), UNCHANGED in_buffers,
           AtDevice'[d] = AtDevice[d] \cup {Popped(d)},
           \A e \in Nodes \ {d} : AtDevice'[e] = AtDevice[e]
    PROVE  Fifo!Next
<1> DEFINE n == PopNet(d)
           i == Source(n, Popped(d))
<1>1. n \in Nets
  BY NetFacts
<1>2. i \in Nodes
  <2>1. Popped(d) \in MemFetch
    BY PopEffect DEF TypeOK
  <2> QED BY <1>1, <2>1, SourceIsNode
<1> DEFINE v == Tail(Channels[n][i][d])
<1>3. \A q \in Nets, k, t \in Nodes :
         Channels'[q][k][t] = IF q = n /\ k = i /\ t = d THEN v ELSE Channels[q][k][t]
  BY PopChannel
<1> HIDE DEF n, i, v
<1>4. Channels[n][i][d] # <<>> /\ Head(Channels[n][i][d]) = Popped(d)
  BY <1>1, <1>2, PopChannel DEF n, i
<1>5. Channels' = [Channels EXCEPT ![n][i][d] = v]
  BY <1>1, <1>2, <1>3, ChannelsDomain
<1>6. AtDevice' = [AtDevice EXCEPT ![d] = AtDevice[d] \cup {Popped(d)}]
  BY AtOneDevice
<1>7. Fifo!Receive(n, i, d)
  BY <1>4, <1>5, <1>6 DEF Fifo!Receive, v
<1> QED BY <1>1, <1>2, <1>7 DEF Fifo!Next

\* A step in which one device pushes and nobody pops.
LEMMA PushSends ==
    ASSUME TypeOK, NEW d \in Nodes, NEW t \in Nodes, NEW mf \in MemFetch, Push(d, t, mf),
           Source(PushNet(d), mf) = d, UNCHANGED out_buffers,
           mf \in AtDevice[d], AtDevice'[d] = AtDevice[d] \ {mf},
           \A e \in Nodes \ {d} : AtDevice'[e] = AtDevice[e]
    PROVE  Fifo!Next
<1> DEFINE n == PushNet(d)
           v == Append(Channels[n][d][t], mf)
<1>1. n \in Nets
  BY NetFacts
<1>2. \A q \in Nets, k, o \in Nodes :
         Channels'[q][k][o] = IF q = n /\ k = d /\ o = t THEN v ELSE Channels[q][k][o]
  BY PushChannel
<1> HIDE DEF n, v
<1>3. Channels' = [Channels EXCEPT ![n][d][t] = v]
  BY <1>1, <1>2, ChannelsDomain
<1>4. AtDevice' = [AtDevice EXCEPT ![d] = AtDevice[d] \ {mf}]
  BY AtOneDevice
<1>5. Fifo!Send(n, d, t, mf)
  BY <1>3, <1>4 DEF Fifo!Send, v
<1> QED BY <1>1, <1>5 DEF Fifo!Next

\* A step in which one SM pops a reply and pushes a request.
LEMMA SmExchanges ==
    ASSUME TypeOK, Addressed, NEW d \in Nodes, Pop(d), HasReply(d),
           NEW t \in Nodes, NEW mf \in MemFetch, Push(d, t, mf),
           Source(PushNet(d), mf) = d,
           mf \in AtDevice[d], AtDevice'[d] = (AtDevice[d] \cup {Popped(d)}) \ {mf},
           \A e \in Nodes \ {d} : AtDevice'[e] = AtDevice[e]
    PROVE  Fifo!Next
<1> DEFINE n == PopNet(d)
           i == Source(n, Popped(d))
           q == PushNet(d)
           v == Tail(Channels[n][i][d])
           w == Append(Channels[q][d][t], mf)
<1>1. n \in Nets /\ q \in Nets /\ n # q /\ \A r \in Nets : r = n \/ r = q
  BY DEF PopNet, PushNet, Nets, REQ_NET, REPLY_NET
<1>2. i \in Nodes
  <2>1. Popped(d) \in MemFetch
    BY PopEffect DEF TypeOK
  <2> QED BY <1>1, <2>1, SourceIsNode
<1>3. \A k \in Nodes : in_buffers'[n][k] = in_buffers[n][k]
  BY <1>1, PushEffect DEF TypeOK
<1>4. \A k \in Nodes : out_buffers'[q][k] = out_buffers[q][k]
  BY <1>1, PopEffect DEF TypeOK
<1>5. \A k, o \in Nodes :
         Channels'[n][k][o] = IF k = i /\ o = d THEN v ELSE Channels[n][k][o]
  BY <1>1, <1>3, PopChannel
<1>6. Channels[n][i][d] # <<>> /\ Head(Channels[n][i][d]) = Popped(d)
  BY <1>1, <1>2, <1>3, PopChannel
<1>7. \A k, o \in Nodes :
         Channels'[q][k][o] = IF k = d /\ o = t THEN w ELSE Channels[q][k][o]
  BY <1>1, <1>4, PushChannel
<1> HIDE DEF n, i, q, v, w
<1>8. \A r \in Nets, k, o \in Nodes :
         Channels'[r][k][o] = IF r = n /\ k = i /\ o = d THEN v
                              ELSE IF r = q /\ k = d /\ o = t THEN w
                              ELSE Channels[r][k][o]
  BY <1>1, <1>5, <1>7
<1>9. Channels' = [Channels EXCEPT ![n][i][d] = v, ![q][d][t] = w]
  BY <1>1, <1>2, <1>8, ChannelsDomain
<1>10. AtDevice' = [AtDevice EXCEPT ![d] = (AtDevice[d] \cup {Popped(d)}) \ {mf}]
  BY AtOneDevice
<1>11. [Channels EXCEPT ![n][i][d] = v][q][d][t] = Channels[q][d][t]
  BY <1>1, <1>2, ChannelsDomain
<1>12. Fifo!Exchange(n, i, d, q, t, mf)
  BY <1>1, <1>6, <1>9, <1>10, <1>11 DEF Fifo!Exchange, v, w
<1> QED BY <1>1, <1>2, <1>12 DEF Fifo!Next

\* Every step is one of the channels' or changes nothing of theirs.
THEOREM FifoStep == TypeOK /\ Addressed /\ [Next]_vars => [Fifo!Next]_(Fifo!vars)
<1> SUFFICES ASSUME TypeOK, Addressed, [Next]_vars
             PROVE  Fifo!Next \/ (Channels' = Channels /\ AtDevice' = AtDevice)
  BY DEF Fifo!vars
<1>1. \A d \in Nodes : d \in Shaders \/ d \in Mems
  BY NodesFacts
<1>2. (\A d \in Nodes : AtDevice'[d] = AtDevice[d]) => AtDevice' = AtDevice
  BY DEF AtDevice, Nodes, total_nodes
<1>3. (\A r \in Nets, i, o \in Nodes : Channels'[r][i][o] = Channels[r][i][o]) => Channels' = Channels
  BY ChannelsDomain
<1>4. ASSUME NEW d \in Nodes, Pop(d), ~HasReply(d), UNCHANGED in_buffers
      PROVE  Channels' = Channels
  BY <1>3, <1>4, PopChannel
<1>5. ASSUME NEW m \in Mems, MemPop(m)
      PROVE  Fifo!Next \/ (Channels' = Channels /\ AtDevice' = AtDevice)
  <2>1. m \in Nodes /\ Pop(m) /\ UNCHANGED in_buffers /\ UNCHANGED idle
    BY <1>5, NodesFacts DEF MemPop
  <2>2. /\ held'[m] = IF HasReply(m) THEN held[m] \cup {Popped(m)} ELSE held[m]
        /\ \A k \in Mems \ {m} : held'[k] = held[k]
    BY <1>5 DEF MemPop, TypeOK
  <2>3. \A e \in Nodes \ {m} : AtDevice'[e] = AtDevice[e]
    BY <1>1, <2>1, <2>2, AtDeviceIs
  <2>4. AtDevice'[m] = IF HasReply(m) THEN AtDevice[m] \cup {Popped(m)} ELSE AtDevice[m]
    BY <2>2, AtDeviceIs
  <2>5. CASE HasReply(m)
    BY <2>1, <2>3, <2>4, <2>5, PopReceives
  <2>6. CASE ~HasReply(m)
    <3>1. \A d \in Nodes : AtDevice'[d] = AtDevice[d]
      BY <2>3, <2>4, <2>6
    <3> QED BY <1>2, <1>4, <2>1, <2>6, <3>1
  <2> QED BY <2>5, <2>6
<1>6. ASSUME NEW m \in Mems, NEW mf \in MemFetch, MemReply(m, mf) PROVE Fifo!Next
  <2>1. /\ m \in Nodes /\ m_sm_id[mf] \in Nodes /\ PushNet(m) = REPLY_NET
        /\ Push(m, m_sm_id[mf], mf) /\ UNCHANGED out_buffers /\ UNCHANGED idle
    BY <1>6, NodesFacts, RoutingAssumption DEF MemReply, PushNet
  <2>2. Source(PushNet(m), mf) = m
    BY <1>6, <2>1 DEF MemReply, Addressed, Source, REQ_NET, REPLY_NET
  <2>3. /\ mf \in held[m] /\ held'[m] = held[m] \ {mf}
        /\ \A k \in Mems \ {m} : held'[k] = held[k]
    BY <1>6 DEF MemReply, TypeOK
  <2>4. /\ mf \in AtDevice[m] /\ AtDevice'[m] = AtDevice[m] \ {mf}
        /\ \A e \in Nodes \ {m} : AtDevice'[e] = AtDevice[e]
    BY <1>1, <2>1, <2>3, AtDeviceIs
  <2> QED BY <2>1, <2>2, <2>4, PushSends
<1>7. CASE XbarAdvance
  <2>1. Channels' = Channels
    BY <1>3, <1>7, AdvanceChannel DEF XbarAdvance
  <2>2. \A d \in Nodes : AtDevice'[d] = AtDevice[d]
    BY <1>1, <1>7, AtDeviceIs DEF XbarAdvance
  <2> QED BY <1>2, <2>1, <2>2
<1>8. ASSUME NEW s \in Shaders, Pop(s), HasReply(s) PROVE m_sm_id[Popped(s)] = s
  <2>1. s \in Nodes /\ PopNet(s) = REPLY_NET
    BY NodesFacts DEF PopNet
  <2> QED BY <1>8, <2>1, PopAddressed DEF Source, REQ_NET, REPLY_NET
<1>9. ASSUME NEW s \in Shaders, SmSilent(s)
      PROVE  Fifo!Next \/ (Channels' = Channels /\ AtDevice' = AtDevice)
  <2>1. /\ s \in Nodes /\ Pop(s) /\ UNCHANGED in_buffers /\ UNCHANGED held
        /\ idle' = IF HasReply(s) THEN idle \cup {Popped(s)} ELSE idle
    BY <1>9, NodesFacts DEF SmSilent, ReplyTo
  <2>2. CASE HasReply(s)
    <3>1. /\ AtDevice'[s] = AtDevice[s] \cup {Popped(s)}
          /\ \A e \in Nodes \ {s} : AtDevice'[e] = AtDevice[e]
      <4>1. m_sm_id[Popped(s)] = s
        BY <1>8, <2>1, <2>2
      <4>2. AtDevice'[s] = AtDevice[s] \cup {Popped(s)}
        <5>1. AtDevice'[s] = {mf \in idle' : m_sm_id[mf] = s}
          BY AtDeviceIs
        <5>2. AtDevice[s] = {mf \in idle : m_sm_id[mf] = s}
          BY AtDeviceIs
        <5> QED BY <2>1, <2>2, <4>1, <5>1, <5>2
      <4>3. \A e \in Shaders \ {s} : AtDevice'[e] = AtDevice[e]
        <5> TAKE e \in Shaders \ {s}
        <5>1. AtDevice'[e] = {mf \in idle' : m_sm_id[mf] = e}
          BY AtDeviceIs
        <5>2. AtDevice[e] = {mf \in idle : m_sm_id[mf] = e}
          BY AtDeviceIs
        <5> QED BY <2>1, <2>2, <4>1, <5>1, <5>2
      <4>4. \A e \in Mems : AtDevice'[e] = AtDevice[e]
        BY <2>1, AtDeviceIs
      <4> QED BY <1>1, <4>2, <4>3, <4>4
    <3> QED BY <2>1, <2>2, <3>1, PopReceives
  <2>3. CASE ~HasReply(s)
    <3>1. \A d \in Nodes : AtDevice'[d] = AtDevice[d]
      BY <1>1, <2>1, <2>3, AtDeviceIs
    <3> QED BY <1>2, <1>4, <2>1, <2>3, <3>1
  <2> QED BY <2>2, <2>3
<1>10. ASSUME NEW s \in Shaders, NEW mf \in MemFetch, SmRequest(s, mf) PROVE Fifo!Next
  <2>1. /\ s \in Nodes /\ m_sub_partition[mf] \in Nodes /\ PushNet(s) = REQ_NET
        /\ Pop(s) /\ Push(s, m_sub_partition[mf], mf) /\ UNCHANGED held
        /\ mf \in idle /\ m_sm_id[mf] = s
        /\ idle' = (IF HasReply(s) THEN idle \cup {Popped(s)} ELSE idle) \ {mf}
    BY <1>10, NodesFacts, RoutingAssumption DEF SmRequest, ReplyTo, PushNet
  <2>2. Source(PushNet(s), mf) = s
    BY <2>1 DEF Source
  <2>3. mf \in AtDevice[s] /\ \A e \in Nodes \ {s} : AtDevice'[e] = AtDevice[e]
    <3>1. HasReply(s) => m_sm_id[Popped(s)] = s
      BY <1>8, <2>1
    <3>2. mf \in AtDevice[s]
      BY <2>1, AtDeviceIs
    <3>3. \A e \in Shaders \ {s} : AtDevice'[e] = AtDevice[e]
      <4> TAKE e \in Shaders \ {s}
      <4>1. AtDevice'[e] = {k \in idle' : m_sm_id[k] = e}
        BY AtDeviceIs
      <4>2. AtDevice[e] = {k \in idle : m_sm_id[k] = e}
        BY AtDeviceIs
      <4> QED BY <2>1, <3>1, <4>1, <4>2
    <3>4. \A e \in Mems : AtDevice'[e] = AtDevice[e]
      BY <2>1, AtDeviceIs
    <3> QED BY <1>1, <3>2, <3>3, <3>4
  <2>4. CASE HasReply(s)
    <3>1. AtDevice'[s] = (AtDevice[s] \cup {Popped(s)}) \ {mf}
      BY <1>8, <2>1, <2>4, AtDeviceIs
    <3> QED BY <2>1, <2>2, <2>3, <2>4, <3>1, SmExchanges
  <2>5. CASE ~HasReply(s)
    <3>1. AtDevice'[s] = AtDevice[s] \ {mf}
      BY <2>1, <2>5, AtDeviceIs
    <3>2. UNCHANGED out_buffers
      BY <2>1, <2>5 DEF Pop
    <3> QED BY <2>1, <2>2, <2>3, <3>1, <3>2, PushSends
  <2> QED BY <2>4, <2>5
<1>11. CASE UNCHANGED vars
  <2>1. Channels' = Channels
    <3> SUFFICES ASSUME NEW r \in Nets, NEW i \in Nodes, NEW o \in Nodes
                 PROVE  Channels'[r][i][o] = Channels[r][i][o]
      BY <1>3
    <3>1. OnTheWay(r, i, o)' = OnTheWay(r, i, o)
      BY <1>11, OnTheWayIs DEF vars
    <3> QED BY <3>1, ChannelIs
  <2>2. \A d \in Nodes : AtDevice'[d] = AtDevice[d]
    BY <1>1, <1>11, AtDeviceIs DEF vars
  <2> QED BY <1>2, <2>1, <2>2
<1> QED BY <1>5, <1>6, <1>7, <1>9, <1>10, <1>11 DEF Next

\* The crossbar loses, doubles, invents, misroutes and reorders nothing: every
\* request is with a device or in the channel between its two devices, enters
\* it at the end when its sender pushes it and leaves it from the front when
\* its receiver pops it, and RR_Advance changes no channel.
THEOREM CrossbarIsFifo == Spec => ImplementsFifo
<1>1. Init => Fifo!Init
  BY FifoInit
<1>2. Init => Addressed
  BY AddressedInit
<1>3. IInv => TypeOK
  BY DEF IInv
<1>4. TypeOK /\ Addressed /\ [Next]_vars => Addressed'
  BY AddressedStep
<1>5. TypeOK /\ Addressed /\ [Next]_vars => [Fifo!Next]_(Fifo!vars)
  BY FifoStep
<1> QED BY <1>1, <1>2, <1>3, <1>4, <1>5, Invariant, PTL DEF Spec, ImplementsFifo, Fifo!Spec

-----------------------------------------------------------------------------
(* RR_Advance as the loop of the code: what it has done after k of its     *)
(* iterations is what Advance does for the first k nodes of the scan.      *)

Reached(r, n, o, k) == Issues(r, n, o) /\ ScanPos(r, n) < k

AfterSteps(r, k) ==
    [in     |-> [n \in Nodes |-> IF \E o \in Nodes : Reached(r, n, o, k)
                                 THEN Tail(in_buffers[r][n]) ELSE in_buffers[r][n]],
     out    |-> [o \in Nodes |-> IF \E n \in Nodes : Reached(r, n, o, k)
                                 THEN Append(out_buffers[r][o],
                                        Head(in_buffers[r][CHOOSE n \in Nodes : Issues(r, n, o)]))
                                 ELSE out_buffers[r][o]],
     issued |-> [o \in Nodes |-> \E n \in Nodes : Reached(r, n, o, k)]]

LoopStates == [in     : [Nodes -> Seq(PacketSet)],
               out    : [Nodes -> Seq(PacketSet)],
               issued : [Nodes -> BOOLEAN]]

LoopStart(r) == [in     |-> in_buffers[r],
                 out    |-> out_buffers[r],
                 issued |-> [o \in Nodes |-> FALSE]]

\* The node of an iteration, and its place in the scan.
LEMMA NodeOfStep ==
    ASSUME NEW r \in Nets, next_node_id[r] \in Nodes, NEW i \in 0 .. total_nodes - 1
    PROVE  /\ (i + next_node_id[r]) % total_nodes \in Nodes
           /\ \A n \in Nodes : ScanPos(r, n) = i <=> n = (i + next_node_id[r]) % total_nodes
<1> DEFINE N == total_nodes
           x == i + next_node_id[r]
<1>1. N \in Nat \ {0} /\ next_node_id[r] \in 0 .. N - 1 /\ Nodes = 0 .. N - 1
  BY NodesFacts DEF Nodes
<1>2. x \in 0 .. 2 * N - 1
  BY <1>1
<1> HIDE DEF N
<1>3. x % N = IF x < N THEN x ELSE x - N
  <2> HIDE DEF x
  <2> QED BY <1>1, <1>2, SmallMod
<1>4. x % N \in 0 .. N - 1
  BY <1>1, <1>2, <1>3
<1>5. ASSUME NEW n \in Nodes PROVE ScanPos(r, n) = i <=> n = x % N
  <2>1. ScanPos(r, n) = IF n < next_node_id[r] THEN n + N - next_node_id[r]
                                               ELSE n - next_node_id[r]
    BY ScanPosValue DEF N
  <2>2. i \in 0 .. N - 1 /\ n \in 0 .. N - 1
    BY <1>1 DEF N
  <2> DEFINE a == next_node_id[r]
             y == x % N
  <2>3. /\ a \in 0 .. N - 1 /\ N \in Nat \ {0}
        /\ y = IF i + a < N THEN i + a ELSE i + a - N
        /\ ScanPos(r, n) = IF n < a THEN n + N - a ELSE n - a
    BY <1>1, <1>3, <2>1
  <2> HIDE DEF a, x, y
  <2>4. ScanPos(r, n) = i <=> n = y
    BY <2>2, <2>3
  <2> QED BY <2>4 DEF y
<1> QED BY <1>1, <1>4, <1>5 DEF N

\* The loop's test is that of Issues: an output with room was not issued to
\* yet just when nobody who wants it is earlier in the scan.
LEMMA StepIssues ==
    ASSUME IcntTypeOK, NEW r \in Nets, NEW n \in Nodes, NEW o \in Nodes, Wants(r, n, o)
    PROVE  Issues(r, n, o) <=> /\ Has_Buffer_Out(r, o)
                               /\ ~\E m \in Nodes : Reached(r, m, o, ScanPos(r, n))
<1>1. \A m \in Nodes : ScanPos(r, m) \in Nat
  BY ScanPosValue, NodesFacts DEF IcntTypeOK
<1>2. ASSUME Issues(r, n, o) PROVE ~\E m \in Nodes : Reached(r, m, o, ScanPos(r, n))
  BY <1>1, <1>2 DEF Reached, Issues
<1>3. ASSUME Has_Buffer_Out(r, o), ~Issues(r, n, o)
      PROVE  \E m \in Nodes : Reached(r, m, o, ScanPos(r, n))
  <2> DEFINE wanting == {m \in Nodes : Wants(r, m, o)}
             places  == {ScanPos(r, m) : m \in wanting}
  <2>1. places \in SUBSET Nat /\ places # {}
    BY <1>1
  <2>2. PICK p \in places : \A q \in places : p <= q
    <3> HIDE DEF places
    <3> QED BY <2>1, Least
  <2>3. PICK m \in wanting : p = ScanPos(r, m)
    BY <2>2
  <2>4. \A k \in Nodes : Wants(r, k, o) => ScanPos(r, m) <= ScanPos(r, k)
    BY <2>2, <2>3
  <2>5. Issues(r, m, o)
    BY <1>3, <2>3, <2>4 DEF Issues
  <2>6. PICK k \in Nodes : Wants(r, k, o) /\ ~(ScanPos(r, n) <= ScanPos(r, k))
    BY <1>3 DEF Issues
  <2>7. ScanPos(r, m) < ScanPos(r, n)
    BY <1>1, <2>3, <2>4, <2>6
  <2> QED BY <2>3, <2>5, <2>7 DEF Reached
<1> QED BY <1>2, <1>3 DEF Issues

\* A node is issued to at most one output, and an output by one node.
LEMMA IssuesOnce ==
    ASSUME IcntTypeOK, NEW r \in Nets, NEW n \in Nodes, NEW o \in Nodes, Issues(r, n, o)
    PROVE  /\ \A p \in Nodes : Issues(r, n, p) => p = o
           /\ \A m \in Nodes : Issues(r, m, o) => m = n
           /\ (CHOOSE m \in Nodes : Issues(r, m, o)) = n
<1>1. \A p \in Nodes : Issues(r, n, p) => p = o
  BY DEF Issues, Wants
<1>2. ASSUME NEW m \in Nodes, Issues(r, m, o) PROVE m = n
  <2>1. \A k \in Nodes : ScanPos(r, k) \in 0 .. total_nodes - 1
    BY ScanPosValue DEF IcntTypeOK
  <2>2. ScanPos(r, m) = ScanPos(r, n)
    <3>1. ScanPos(r, m) <= ScanPos(r, n) /\ ScanPos(r, n) <= ScanPos(r, m)
      BY <1>2 DEF Issues
    <3>2. ScanPos(r, m) \in Int /\ ScanPos(r, n) \in Int
      BY <2>1, NodesFacts
    <3> QED BY <3>1, <3>2
  <2>3. next_node_id[r] \in Nodes
    BY DEF IcntTypeOK
  <2> QED BY <2>1, <2>2, <2>3, NodeOfStep
<1>3. (CHOOSE m \in Nodes : Issues(r, m, o)) = n
  BY <1>2
<1> QED BY <1>1, <1>2, <1>3
LEMMA AfterStepsType ==
    ASSUME IcntTypeOK, NEW r \in Nets, NEW k \in 0 .. total_nodes
    PROVE  AfterSteps(r, k) \in LoopStates
<1> DEFINE st == AfterSteps(r, k)
<1>1. ASSUME NEW n \in Nodes PROVE st.in[n] \in Seq(PacketSet)
  <2>1. in_buffers[r][n] \in Seq(PacketSet)
    BY DEF IcntTypeOK
  <2>2. ASSUME NEW o \in Nodes, Reached(r, n, o, k) PROVE Tail(in_buffers[r][n]) \in Seq(PacketSet)
    BY <2>2, IssuesFront DEF Reached
  <2>3. st.in[n] = IF \E o \in Nodes : Reached(r, n, o, k)
                   THEN Tail(in_buffers[r][n]) ELSE in_buffers[r][n]
    BY DEF AfterSteps
  <2> HIDE DEF st
  <2> QED BY <2>1, <2>2, <2>3
<1>2. ASSUME NEW o \in Nodes PROVE st.out[o] \in Seq(PacketSet)
  <2> DEFINE c == CHOOSE n \in Nodes : Issues(r, n, o)
  <2>1. out_buffers[r][o] \in Seq(PacketSet)
    BY DEF IcntTypeOK
  <2>2. ASSUME NEW n \in Nodes, Reached(r, n, o, k) PROVE Head(in_buffers[r][c]) \in PacketSet
    <3>1. Issues(r, n, o)
      BY <2>2 DEF Reached
    <3>2. c = n
      BY <3>1, IssuesOnce
    <3> QED BY <3>1, <3>2, IssuesFront
  <2>3. st.out[o] = IF \E n \in Nodes : Reached(r, n, o, k)
                    THEN Append(out_buffers[r][o], Head(in_buffers[r][c]))
                    ELSE out_buffers[r][o]
    BY DEF AfterSteps
  <2> HIDE DEF st, c
  <2>4. CASE \E n \in Nodes : Reached(r, n, o, k)
    <3>1. Head(in_buffers[r][c]) \in PacketSet
      BY <2>2, <2>4
    <3> QED BY <2>1, <2>3, <2>4, <3>1
  <2>5. CASE ~\E n \in Nodes : Reached(r, n, o, k)
    BY <2>1, <2>3, <2>5
  <2> QED BY <2>4, <2>5
<1>3. st.issued \in [Nodes -> BOOLEAN]
  <2>1. st.issued = [o \in Nodes |-> \E n \in Nodes : Reached(r, n, o, k)]
    BY DEF AfterSteps
  <2>2. \A o \in Nodes : (\E n \in Nodes : Reached(r, n, o, k)) \in BOOLEAN
    OBVIOUS
  <2> QED BY ONLY <2>1, <2>2, Zenon
<1>4. st.in \in [Nodes -> Seq(PacketSet)] /\ st.out \in [Nodes -> Seq(PacketSet)]
  <2>1. st.in = [n \in Nodes |-> st.in[n]] /\ st.out = [o \in Nodes |-> st.out[o]]
    BY DEF AfterSteps
  <2> HIDE DEF st
  <2> QED BY <1>1, <1>2, <2>1
<1>5. st = [in |-> st.in, out |-> st.out, issued |-> st.issued]
  BY DEF AfterSteps
<1> HIDE DEF st
<1> QED BY <1>3, <1>4, <1>5 DEF LoopStates, st

\* The first iteration starts from what is there.
LEMMA NoSteps ==
    ASSUME IcntTypeOK, NEW r \in Nets
    PROVE  AfterSteps(r, 0) = LoopStart(r)
<1>1. \A n, o \in Nodes : ~Reached(r, n, o, 0)
  BY ScanPosValue, NodesFacts DEF Reached, IcntTypeOK
<1>2. /\ in_buffers[r] = [n \in Nodes |-> in_buffers[r][n]]
      /\ out_buffers[r] = [o \in Nodes |-> out_buffers[r][o]]
  BY DEF IcntTypeOK
<1> QED BY <1>1, <1>2 DEF AfterSteps, LoopStart

\* After the last one every node was visited.
LEMMA AllSteps ==
    ASSUME IcntTypeOK, NEW r \in Nets
    PROVE  /\ AfterSteps(r, total_nodes).in = AdvancedIn(r)
           /\ AfterSteps(r, total_nodes).out = AdvancedOut(r)
<1>1. \A n \in Nodes : ScanPos(r, n) \in 0 .. total_nodes - 1 /\ total_nodes \in Nat
  BY ScanPosValue, NodesFacts DEF IcntTypeOK
<1>2. \A n \in Nodes : ScanPos(r, n) < total_nodes
  BY <1>1
<1>3. \A n, o \in Nodes : Reached(r, n, o, total_nodes) <=> Issues(r, n, o)
  BY <1>2 DEF Reached
<1> QED BY <1>3 DEF AfterSteps, AdvancedIn, AdvancedOut

\* What the loop has done depends only on whom it has reached.
LEMMA SameReached ==
    ASSUME NEW r, NEW i, NEW k,
           \A n, o \in Nodes : Reached(r, n, o, k) <=> Reached(r, n, o, i)
    PROVE  AfterSteps(r, k) = AfterSteps(r, i)
<1>1. ASSUME NEW n \in Nodes
      PROVE  (\E o \in Nodes : Reached(r, n, o, k)) <=> (\E o \in Nodes : Reached(r, n, o, i))
  OBVIOUS
<1>2. ASSUME NEW o \in Nodes
      PROVE  (\E n \in Nodes : Reached(r, n, o, k)) = (\E n \in Nodes : Reached(r, n, o, i))
  BY Zenon
<1>3. AfterSteps(r, k).in = AfterSteps(r, i).in
  BY <1>1 DEF AfterSteps
<1>4. AfterSteps(r, k).out = AfterSteps(r, i).out
  BY <1>2 DEF AfterSteps
<1>5. AfterSteps(r, k).issued = AfterSteps(r, i).issued
  <2>1. \A j : AfterSteps(r, j).issued = [o \in Nodes |-> \E n \in Nodes : Reached(r, n, o, j)]
    BY DEF AfterSteps
  <2> QED BY ONLY <1>2, <2>1, Zenon
<1>6. \A j : AfterSteps(r, j) = [in |-> AfterSteps(r, j).in, out |-> AfterSteps(r, j).out,
                                 issued |-> AfterSteps(r, j).issued]
  BY DEF AfterSteps
<1> QED BY ONLY <1>3, <1>4, <1>5, <1>6

\* One iteration visits one more node of the scan.
LEMMA NextStep ==
    ASSUME IcntTypeOK, NEW r \in Nets, NEW k \in 1 .. total_nodes
    PROVE  LoopBody(r, AfterSteps(r, k - 1), k - 1) = AfterSteps(r, k)
<1> DEFINE i == k - 1
           n == (i + next_node_id[r]) % total_nodes
           p == Head(in_buffers[r][n])
           o == p.output_deviceID
           st == AfterSteps(r, i)
<1>1. /\ i \in 0 .. total_nodes - 1 /\ i \in 0 .. total_nodes
      /\ total_nodes \in Nat /\ k = i + 1 /\ next_node_id[r] \in Nodes
  BY NodesFacts DEF IcntTypeOK
<1>2. n \in Nodes /\ \A m \in Nodes : ScanPos(r, m) = i <=> m = n
  <2> HIDE DEF i
  <2> QED BY <1>1, NodeOfStep
<1>3. \A m \in Nodes : ScanPos(r, m) \in Nat
  BY <1>1, ScanPosValue, NodesFacts
<1> HIDE DEF i, n
<1>4. ASSUME NEW m \in Nodes, NEW q \in Nodes
      PROVE  Reached(r, m, q, k) <=> Reached(r, m, q, i) \/ (m = n /\ Issues(r, n, q))
  <2>1. ScanPos(r, m) < k <=> ScanPos(r, m) < i \/ m = n
    <3>1. ScanPos(r, m) \in Nat /\ i \in Nat /\ k = i + 1
      BY <1>1, <1>3
    <3>2. ScanPos(r, m) = i <=> m = n
      BY <1>2
    <3> QED BY <3>1, <3>2
  <2> QED BY <2>1 DEF Reached
<1>5. ScanPos(r, n) = i /\ \A q \in Nodes : ~Reached(r, n, q, i)
  BY <1>2, <1>1 DEF Reached
<1>6. st.in[n] = in_buffers[r][n]
  BY <1>2, <1>5 DEF AfterSteps
<1>7. LoopBody(r, st, i) =
        IF /\ in_buffers[r][n] # <<>>
           /\ Len(st.out[o]) + 1 <= out_buffer_limit
           /\ ~st.issued[o]
        THEN [in     |-> [st.in EXCEPT ![n] = Tail(@)],
              out    |-> [st.out EXCEPT ![o] = Append(@, p)],
              issued |-> [st.issued EXCEPT ![o] = TRUE]]
        ELSE st
  BY <1>6 DEF LoopBody, n
<1>8. CASE in_buffers[r][n] = <<>>
  <2>1. \A q \in Nodes : ~Issues(r, n, q)
    BY <1>8 DEF Issues, Wants
  <2>2. \A m, q \in Nodes : Reached(r, m, q, k) <=> Reached(r, m, q, i)
    BY <1>4, <2>1
  <2> HIDE DEF o, p
  <2>3. AfterSteps(r, k) = st
    BY <2>2, SameReached
  <2> QED BY <1>7, <1>8, <2>3 DEF i
<1>9. CASE in_buffers[r][n] # <<>>
  <2>1. o \in Nodes /\ Wants(r, n, o) /\ \A q \in Nodes : Wants(r, n, q) => q = o
    <3>1. in_buffers[r][n] \in Seq(PacketSet)
      BY <1>2 DEF IcntTypeOK
    <3>2. p \in PacketSet
      BY <1>9, <3>1
    <3> QED BY <1>9, <3>2 DEF Wants, PacketSet
  <2>2. st.issued[o] <=> \E m \in Nodes : Reached(r, m, o, i)
    BY <2>1, Zenon DEF AfterSteps
  <2>3. ~st.issued[o] => st.out[o] = out_buffers[r][o]
    BY <2>1, <2>2 DEF AfterSteps
  <2>4. Issues(r, n, o) <=> Has_Buffer_Out(r, o) /\ ~\E m \in Nodes : Reached(r, m, o, i)
    BY <1>2, <1>5, <2>1, StepIssues
  <2>5. Issues(r, n, o) <=> Len(st.out[o]) + 1 <= out_buffer_limit /\ ~st.issued[o]
    BY <2>2, <2>3, <2>4 DEF Has_Buffer_Out
  <2> HIDE DEF o, p
  <2>6. CASE ~Issues(r, n, o)
    <3>1. \A q \in Nodes : ~Issues(r, n, q)
      BY <2>1, <2>6 DEF Issues
    <3>2. \A m, q \in Nodes : Reached(r, m, q, k) <=> Reached(r, m, q, i)
      BY <1>4, <3>1
    <3>3. AfterSteps(r, k) = st
      BY <3>2, SameReached
    <3> QED BY <1>7, <2>5, <2>6, <3>3 DEF i
  <2>7. CASE Issues(r, n, o)
    <3> DEFINE moved == [in     |-> [st.in EXCEPT ![n] = Tail(@)],
                         out    |-> [st.out EXCEPT ![o] = Append(@, p)],
                         issued |-> [st.issued EXCEPT ![o] = TRUE]]
               nx == AfterSteps(r, k)
    <3>1. LoopBody(r, st, i) = moved
      BY <1>7, <1>9, <2>5, <2>7
    <3>2. (CHOOSE m \in Nodes : Issues(r, m, o)) = n /\ \A q \in Nodes : Issues(r, n, q) => q = o
      BY <1>2, <2>1, <2>7, IssuesOnce
    <3>3. \A m, q \in Nodes : Reached(r, m, q, k) <=> Reached(r, m, q, i) \/ (m = n /\ q = o)
      BY <1>4, <2>7, <3>2
    <3>4. nx.in = [st.in EXCEPT ![n] = Tail(@)]
      <4>1. ASSUME NEW m \in Nodes
            PROVE  nx.in[m] = IF m = n THEN Tail(in_buffers[r][n]) ELSE st.in[m]
        <5>1. nx.in[m] = IF \E q \in Nodes : Reached(r, m, q, k)
                         THEN Tail(in_buffers[r][m]) ELSE in_buffers[r][m]
          BY DEF AfterSteps
        <5>2. st.in[m] = IF \E q \in Nodes : Reached(r, m, q, i)
                         THEN Tail(in_buffers[r][m]) ELSE in_buffers[r][m]
          BY DEF AfterSteps
        <5> HIDE DEF nx, st
        <5>3. CASE m = n
          BY <2>1, <3>3, <5>1, <5>3
        <5>4. CASE m # n
          BY <3>3, <5>1, <5>2, <5>4
        <5> QED BY <5>3, <5>4
      <4>2. nx.in = [m \in Nodes |-> nx.in[m]] /\ st.in = [m \in Nodes |-> st.in[m]]
        BY DEF AfterSteps
      <4> HIDE DEF nx, st
      <4> QED BY <1>2, <1>6, <4>1, <4>2
    <3>5. nx.out = [st.out EXCEPT ![o] = Append(@, p)]
      <4>1. ASSUME NEW q \in Nodes
            PROVE  nx.out[q] = IF q = o THEN Append(st.out[o], p) ELSE st.out[q]
        <5> DEFINE c == CHOOSE m \in Nodes : Issues(r, m, q)
        <5>1. nx.out[q] = IF \E m \in Nodes : Reached(r, m, q, k)
                          THEN Append(out_buffers[r][q], Head(in_buffers[r][c]))
                          ELSE out_buffers[r][q]
          BY DEF AfterSteps
        <5>2. st.out[q] = IF \E m \in Nodes : Reached(r, m, q, i)
                          THEN Append(out_buffers[r][q], Head(in_buffers[r][c]))
                          ELSE out_buffers[r][q]
          BY DEF AfterSteps
        <5>3. q = o => c = n
          BY <3>2
        <5>4. q = o => out_buffers[r][q] = st.out[o]
          BY <2>3, <2>5, <2>7
        <5> HIDE DEF nx, st, c
        <5>5. CASE q = o
          BY <1>2, <3>3, <5>1, <5>3, <5>4, <5>5 DEF p
        <5>6. CASE q # o
          BY <3>3, <5>1, <5>2, <5>6
        <5> QED BY <5>5, <5>6
      <4>2. nx.out = [q \in Nodes |-> nx.out[q]] /\ st.out = [q \in Nodes |-> st.out[q]]
        BY DEF AfterSteps
      <4> HIDE DEF nx, st
      <4> QED BY <2>1, <4>1, <4>2
    <3>6. nx.issued = [st.issued EXCEPT ![o] = TRUE]
      <4>1. ASSUME NEW q \in Nodes
            PROVE  nx.issued[q] = IF q = o THEN TRUE ELSE st.issued[q]
        <5>1. nx.issued[q] = \E m \in Nodes : Reached(r, m, q, k)
          BY Zenon DEF AfterSteps
        <5>2. st.issued[q] = \E m \in Nodes : Reached(r, m, q, i)
          BY Zenon DEF AfterSteps
        <5> HIDE DEF nx, st
        <5>3. CASE q = o
          <6>1. \E m \in Nodes : Reached(r, m, q, k)
            BY <1>2, <3>3, <5>3
          <6> QED BY Zenon, <5>1, <5>3, <6>1
        <5>4. CASE q # o
          <6>1. (\E m \in Nodes : Reached(r, m, q, k)) <=> \E m \in Nodes : Reached(r, m, q, i)
            BY <3>3, <5>4
          <6> QED BY Zenon, <5>1, <5>2, <5>4, <6>1
        <5> QED BY <5>3, <5>4
      <4>2. nx.issued = [q \in Nodes |-> nx.issued[q]] /\ st.issued = [q \in Nodes |-> st.issued[q]]
        BY Zenon DEF AfterSteps
      <4> HIDE DEF nx, st
      <4>3. [st.issued EXCEPT ![o] = TRUE] = [q \in Nodes |-> IF q = o THEN TRUE ELSE st.issued[q]]
        BY Zenon, <4>2
      <4> QED BY Zenon, <4>1, <4>2, <4>3
    <3>7. nx = [in |-> nx.in, out |-> nx.out, issued |-> nx.issued]
      BY DEF AfterSteps
    <3> HIDE DEF nx, st
    <3> QED BY <3>1, <3>4, <3>5, <3>6, <3>7 DEF nx, st, i
  <2> QED BY <2>6, <2>7
<1> QED BY <1>8, <1>9
\* The fold of LoopResult is the chain of these steps.
LEMMA LoopResultIs ==
    ASSUME IcntTypeOK, NEW r \in Nets
    PROVE  LoopResult(r) = AfterSteps(r, total_nodes)
<1> DEFINE N == total_nodes
           seq == [i \in 1 .. N |-> i - 1]
           S == 1 .. N
           Unfolds(g) == g = [s \in SUBSET S |->
                                IF s = {} THEN LoopStart(r)
                                ELSE LoopBody(r, g[s \ {Max(s)}], seq[Max(s)])]
           iter == CHOOSE g : Unfolds(g)
           V == LoopStates
           step == [i \in S |-> [st \in V |-> LoopBody(r, st, i - 1)]]
           pick == [s \in SUBSET S |-> Max(s)]
<1>1. LoopResult(r) = iter[S]
  <2>1. DOMAIN seq = S
    OBVIOUS
  <2> QED BY <2>1 DEF LoopResult, FoldLeft, MapThenFoldSet, LoopStart
<1>2. N \in Nat \ {0} /\ next_node_id[r] \in Nodes
  BY NodesFacts DEF IcntTypeOK
<1>3. ASSUME NEW i \in S, NEW st \in V PROVE LoopBody(r, st, i - 1) \in V
  <2> DEFINE n == (i - 1 + next_node_id[r]) % total_nodes
             o == Head(st.in[n]).output_deviceID
  <2>1. n \in Nodes
    <3>1. i - 1 \in 0 .. N - 1
      BY <1>2
    <3> QED BY <1>2, <3>1, NodeOfStep
  <2>2. /\ st.in \in [Nodes -> Seq(PacketSet)] /\ st.out \in [Nodes -> Seq(PacketSet)]
        /\ st.issued \in [Nodes -> BOOLEAN]
    BY DEF LoopStates
  <2>3. CASE LoopBody(r, st, i - 1) = st
    BY <2>3
  <2>4. CASE LoopBody(r, st, i - 1) # st
    <3> HIDE DEF n
    <3>1. st.in[n] # <<>> /\ LoopBody(r, st, i - 1) =
             [in     |-> [st.in EXCEPT ![n] = Tail(@)],
              out    |-> [st.out EXCEPT ![o] = Append(@, Head(st.in[n]))],
              issued |-> [st.issued EXCEPT ![o] = TRUE]]
      BY <2>4 DEF LoopBody, n
    <3>2. st.in[n] \in Seq(PacketSet)
      BY <2>1, <2>2
    <3>3. Head(st.in[n]) \in PacketSet /\ Tail(st.in[n]) \in Seq(PacketSet)
      BY <3>1, <3>2
    <3>4. o \in Nodes
      BY <3>3 DEF PacketSet
    <3> HIDE DEF o
    <3>5. [st.in EXCEPT ![n] = Tail(@)] \in [Nodes -> Seq(PacketSet)]
      BY <2>1, <2>2, <3>3
    <3>6. [st.out EXCEPT ![o] = Append(@, Head(st.in[n]))] \in [Nodes -> Seq(PacketSet)]
      <4>1. Append(st.out[o], Head(st.in[n])) \in Seq(PacketSet)
        BY <2>2, <3>3, <3>4
      <4> QED BY <2>2, <3>4, <4>1
    <3>7. [st.issued EXCEPT ![o] = TRUE] \in [Nodes -> BOOLEAN]
      BY ONLY <2>2, <3>4
    <3> DEFINE x == [st.in EXCEPT ![n] = Tail(@)]
               y == [st.out EXCEPT ![o] = Append(@, Head(st.in[n]))]
               z == [st.issued EXCEPT ![o] = TRUE]
    <3>8. LoopBody(r, st, i - 1) = [in |-> x, out |-> y, issued |-> z]
      BY <3>1
    <3> HIDE DEF x, y, z
    <3>9. [in |-> x, out |-> y, issued |-> z] \in LoopStates
      BY <3>5, <3>6, <3>7 DEF LoopStates, x, y, z
    <3> QED BY <3>8, <3>9
  <2> QED BY <2>3, <2>4
<1>4. LoopStart(r) \in V
  <2>1. LoopStart(r) = AfterSteps(r, 0) /\ 0 \in 0 .. N
    BY <1>2, NoSteps
  <2> QED BY <2>1, AfterStepsType
<1>5. ASSUME NEW s \in SUBSET S, s # {} PROVE Max(s) \in s
  BY <1>2, <1>5, FoldIndices
<1>6. IsFiniteSet(S)
  BY <1>2, FoldIndices
<1>7. \E g : Unfolds(g)
  <2>1. Picks(pick, S)
    BY <1>5 DEF Picks
  <2>2. Keeps(step, S, V)
    <3> HIDE DEF V
    <3> QED BY <1>3 DEF Keeps
  <2>3. PICK g \in [SUBSET S -> V] : Folds(g, S, LoopStart(r), pick, step)
    <3> HIDE DEF pick, step, V, S
    <3> QED BY <1>4, <1>6, <2>1, <2>2, FoldExists
  <2>4. ASSUME NEW s \in SUBSET S
        PROVE  g[s] = IF s = {} THEN LoopStart(r)
                      ELSE LoopBody(r, g[s \ {Max(s)}], seq[Max(s)])
    <3>1. CASE s = {}
      BY <2>3, <3>1 DEF Folds
    <3>2. CASE s # {}
      <4>1. Max(s) \in S /\ pick[s] = Max(s) /\ s \ {Max(s)} \in SUBSET S
        BY <1>5, <3>2
      <4>2. seq[Max(s)] = Max(s) - 1 /\ g[s \ {Max(s)}] \in V
        <5> HIDE DEF V
        <5> QED BY <4>1
      <4>3. g[s] = step[Max(s)][g[s \ {Max(s)}]]
        BY <2>3, <3>2, <4>1 DEF Folds
      <4>4. step[Max(s)][g[s \ {Max(s)}]] = LoopBody(r, g[s \ {Max(s)}], Max(s) - 1)
        <5> HIDE DEF V
        <5> QED BY <4>1, <4>2
      <4> HIDE DEF step, seq, S
      <4> QED BY <3>2, <4>2, <4>3, <4>4
    <3> QED BY <3>1, <3>2
  <2>5. g = [s \in SUBSET S |-> IF s = {} THEN LoopStart(r)
                                ELSE LoopBody(r, g[s \ {Max(s)}], seq[Max(s)])]
    <3> HIDE DEF V, S, seq
    <3> QED BY <2>4
  <2> QED BY <2>5
<1>8. Unfolds(iter)
  <2> HIDE DEF Unfolds
  <2> QED BY <1>7
<1> HIDE DEF iter
<1>9. iter[{}] = LoopStart(r)
  BY <1>8
<1>10. ASSUME NEW k \in 1 .. N, iter[1 .. k - 1] = AfterSteps(r, k - 1)
       PROVE  iter[1 .. k] = AfterSteps(r, k)
  <2>1. 1 .. k \in SUBSET S /\ 1 .. k # {} /\ Max(1 .. k) = k /\ (1 .. k) \ {k} = 1 .. k - 1
    BY <1>2, FoldIndices
  <2>2. iter[1 .. k] = LoopBody(r, iter[(1 .. k) \ {Max(1 .. k)}], seq[Max(1 .. k)])
    BY <1>8, <2>1
  <2>3. seq[k] = k - 1
    OBVIOUS
  <2>4. iter[1 .. k] = LoopBody(r, AfterSteps(r, k - 1), k - 1)
    <3> HIDE DEF seq
    <3> QED BY <1>10, <2>1, <2>2, <2>3
  <2> QED BY <2>4, NextStep
<1> DEFINE H == {k \in 0 .. N : iter[1 .. k] = AfterSteps(r, k)}
<1>11. 0 \in H
  <2>1. 1 .. 0 = {} /\ 0 \in 0 .. N
    BY <1>2
  <2> QED BY <1>9, <2>1, NoSteps
<1>12. ASSUME NEW k \in 1 .. N, k - 1 \in H PROVE k \in H
  <2>1. k \in 0 .. N
    OBVIOUS
  <2> QED BY <1>10, <1>12, <2>1
<1>13. N \in H
  <2> HIDE DEF H
  <2>1. \A k \in 0 .. N : k \in H
    BY <1>2, <1>11, <1>12, CountUp
  <2> QED BY <1>2, <2>1
<1> QED BY <1>1, <1>13

\* Whatever is in the buffers and wherever the scan starts: "the first node
\* of the scan that wants an output with room gets it" is what the loop of
\* RR_Advance with its issued flags computes (crossbar.cpp, RR_Advance).
THEOREM LoopIsAdvance == IcntTypeOK => LoopAgrees
<1> SUFFICES ASSUME IcntTypeOK, NEW r \in Nets
             PROVE  LoopResult(r).in = AdvancedIn(r) /\ LoopResult(r).out = AdvancedOut(r)
  BY DEF LoopAgrees
<1> QED BY LoopResultIs, AllSteps

\* So it is in every state the crossbar reaches.
THEOREM LoopIsAlwaysAdvance == Spec => []LoopAgrees
<1>1. TypeOK => LoopAgrees
  BY LoopIsAdvance DEF TypeOK
<1> QED BY <1>1, TypeCorrect, PTL
=============================================================================
