---------------------------- MODULE Interconnect ----------------------------
(***************************************************************************)
(* The crossbar at work: the calls the SMs and the L2 slices make on it,   *)
(* in the order of one turn of the loop of gpu::gpu_cycle.  In each cycle  *)
(* every L2 slice runs (it pushes the replies that are due, then pops one  *)
(* request), then the crossbar advances, then every SM runs (it pops one   *)
(* reply and may push one request, if HasBuffer lets it).                  *)
(*                                                                         *)
(* What the devices do with a request between a Pop and the next Push is   *)
(* left open: a slice may answer what it holds at any turn and in any      *)
(* order, an SM may ask or stay silent.  A request that was answered may   *)
(* be asked again, so the system never has to stop.  Every SM takes its    *)
(* turn in every cycle, as it does in the code for as long as it is active.*)
(***************************************************************************)
EXTENDS Crossbar, FiniteSets

CONSTANTS
    m_sm_id,            \* mem_fetch::m_sm_id
    m_sub_partition     \* mem_fetch::get_mem_sub_partition_id

ASSUME RoutingAssumption ==
    /\ m_sm_id \in [MemFetch -> Shaders]
    /\ m_sub_partition \in [MemFetch -> Mems]

VARIABLES
    turn,       \* whose turn it is: an L2 slice, the crossbar (total_nodes), an SM
    idle,       \* requests nobody is waiting for
    held,       \* held[m]: requests slice m has popped and not answered yet
    waited      \* history: waited[r][n] counts the Advances that left the
                \* packet at the front of in_buffers[r][n] where it is

vars == <<in_buffers, out_buffers, next_node_id, turn, idle, held, waited>>

\* A cycle: the slices n_shader .. total_nodes-1, the crossbar, the SMs.
CrossbarTurn == total_nodes
NextTurn     == (turn + 1) % (total_nodes + 1)

Init ==
    /\ InitIcnt
    /\ turn   = n_shader
    /\ idle   = MemFetch
    /\ held   = [m \in Mems |-> {}]
    /\ waited = [r \in Nets |-> [n \in Nodes |-> 0]]

-----------------------------------------------------------------------------
\* An L2 slice pushes a reply.  It does not ask HasBuffer, and it may push
\* several in the same cycle, so the turn stays with it.
MemReply(m, mf) ==
    /\ turn = m
    /\ mf \in held[m]
    /\ Push(m, m_sm_id[mf], mf)
    /\ held' = [held EXCEPT ![m] = @ \ {mf}]
    /\ UNCHANGED <<out_buffers, next_node_id, turn, idle, waited>>

\* The slice pops one request, if there is one: the end of its turn.
MemPop(m) ==
    /\ turn = m
    /\ Pop(m)
    /\ held' = [held EXCEPT ![m] = IF HasReply(m) THEN @ \cup {Popped(m)} ELSE @]
    /\ turn' = NextTurn
    /\ UNCHANGED <<in_buffers, next_node_id, idle, waited>>

\* The crossbar's turn.  A packet that stays at the front of its buffer has
\* waited one Advance more; a new packet at the front has not waited yet.
Waited(r, n) == IF in_buffers[r][n] # <<>> /\ in_buffers'[r][n] = in_buffers[r][n]
                THEN waited[r][n] + 1
                ELSE 0

XbarAdvance ==
    /\ turn = CrossbarTurn
    /\ Advance
    /\ waited' = [r \in Nets |-> [n \in Nodes |-> Waited(r, n)]]
    /\ turn' = NextTurn
    /\ UNCHANGED <<idle, held>>

\* An SM pops one reply, if there is one, and then sends nothing ...
ReplyTo(s) == IF HasReply(s) THEN {Popped(s)} ELSE {}

SmSilent(s) ==
    /\ turn = s
    /\ Pop(s)
    /\ idle' = idle \cup ReplyTo(s)
    /\ turn' = NextTurn
    /\ UNCHANGED <<in_buffers, next_node_id, held, waited>>

\* ... or one request of its own, when its input buffer has room.
SmRequest(s, mf) ==
    /\ turn = s
    /\ HasBuffer(s)
    /\ mf \in idle
    /\ m_sm_id[mf] = s
    /\ Pop(s)
    /\ Push(s, m_sub_partition[mf], mf)
    /\ idle' = (idle \cup ReplyTo(s)) \ {mf}
    /\ turn' = NextTurn
    /\ UNCHANGED <<next_node_id, held, waited>>

Next ==
    \/ \E m \in Mems : MemPop(m)
    \/ \E m \in Mems, mf \in MemFetch : MemReply(m, mf)
    \/ XbarAdvance
    \/ \E s \in Shaders : SmSilent(s)
    \/ \E s \in Shaders, mf \in MemFetch : SmRequest(s, mf)

\* The simulator is one thread in one loop: it always takes its next step.
\* A slice answers what it holds: every latency runs out.
Fairness ==
    /\ WF_vars(Next)
    /\ \A mf \in MemFetch : SF_vars(MemReply(m_sub_partition[mf], mf))

Spec == Init /\ [][Next]_vars /\ Fairness

-----------------------------------------------------------------------------
(* Properties.                                                             *)

\* Types of the variables.
TypeOK ==
    /\ IcntTypeOK
    /\ turn \in 0 .. total_nodes
    /\ idle \in SUBSET MemFetch
    /\ held \in [Mems -> SUBSET MemFetch]
    /\ waited \in [Nets -> [Nodes -> Nat]]

\* A request buffer never grows past in_buffer_limit: only SMs push requests,
\* and they ask HasBuffer first (l1_data_cache::m_miss_queue_cycle).
ReqInBufferBound ==
    \A n \in Nodes : Len(in_buffers[REQ_NET][n]) <= in_buffer_limit

\* A device that pops once per cycle keeps up with the crossbar: RR_Advance
\* issues at most one packet to an output, so an output buffer holds one
\* packet until its device has had its turn and none from then on to the
\* next Advance.  Has_Buffer_Out is therefore always true when it is asked,
\* and the last "else" of RR_Advance never runs.  Nothing ever comes out on
\* the network a device does not pop from.
OneFlitPerOutput ==
    \A d \in Nodes :
        /\ Len(out_buffers[PopNet(d)][d]) <= (IF turn <= d THEN 1 ELSE 0)
        /\ out_buffers[1 - PopNet(d)][d] = <<>>

\* Where a packet comes from and goes to.
Source(r, mf) == IF r = REQ_NET THEN m_sm_id[mf] ELSE m_sub_partition[mf]

\* Round robin is fair within one round: the packet at the front of an input
\* buffer is passed over at most total_nodes - 1 times in a row.  Stated with
\* the reason: each Advance moves its node one place forward in the scan and
\* the first node of the scan is always served, so what was waited and what
\* is still ahead in the scan never exceed one round.
BoundedWait ==
    \A r \in Nets, n \in Nodes :
        in_buffers[r][n] # <<>> => waited[r][n] + ScanPos(r, n) <= total_nodes - 1

\* Every request an SM has sent is answered: it reaches its slice, and the
\* reply reaches the SM.
EventuallyAnswered == \A mf \in MemFetch : mf \notin idle ~> mf \in idle

-----------------------------------------------------------------------------
(* What the crossbar promises: one first-in first-out channel for every    *)
(* pair of devices.  The packets on the way from i to o are those that     *)
(* wait at o and came from i, then those in the input buffer of i for o.   *)
Between(r, i, o) == {p \in PacketSet : p.output_deviceID = o /\ Source(r, p.data) = i}

\* The elements of s that are in T, in their order: SelectSeq without
\* recursion.  The j-th of a set of numbers is the one with j up to it.
Places(s, T)   == {k \in DOMAIN s : s[k] \in T}
Rank(P, k)     == Cardinality({m \in P : m <= k})
Nth(P, j)      == CHOOSE k \in P : Rank(P, k) = j
Selected(s, T) == [j \in 1 .. Cardinality(Places(s, T)) |-> s[Nth(Places(s, T), j)]]

OnTheWay(r, i, o) ==
    Selected(out_buffers[r][o], Between(r, i, o)) \o Selected(in_buffers[r][i], Between(r, i, o))

\* The requests that a sequence of packets carries.
Carried(s) == [j \in DOMAIN s |-> s[j].data]

Channels ==
    [r \in Nets |-> [i \in Nodes |-> [o \in Nodes |-> Carried(OnTheWay(r, i, o))]]]

\* The requests that are with a device: an SM has those of its own that it
\* may ask for, a slice those it has popped and not answered.
AtDevice ==
    [d \in Nodes |-> IF d < n_shader THEN {mf \in idle : m_sm_id[mf] = d} ELSE held[d]]

Fifo == INSTANCE FifoChannels WITH
            Nets <- Nets, Nodes <- Nodes, Message <- MemFetch,
            chan <- Channels, at <- AtDevice

\* The crossbar implements the channels: whatever the arbitration does, a
\* request that is pushed is on the way to its destination until that device
\* pops it, in the order of its channel; an Advance changes no channel, so
\* it loses, doubles and misroutes nothing.
ImplementsFifo == Fifo!Spec
=============================================================================
