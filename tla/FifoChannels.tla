---------------------------- MODULE FifoChannels ----------------------------
(***************************************************************************)
(* What the simulator expects of its interconnect: from every device to    *)
(* every other one a channel, and no message is ever anywhere but with one *)
(* device or in one channel.  A message enters a channel only from the     *)
(* device that had it, at the end, and leaves it only to the device at the *)
(* other end, from the front; no other step touches a channel.  So nothing *)
(* is lost, doubled, invented, misdelivered or overtaken.  Buffers, limits *)
(* and arbitration are the business of the crossbar (module Crossbar).     *)
(***************************************************************************)
EXTENDS Sequences

CONSTANTS Nets, Nodes, Message

VARIABLES
    chan,       \* chan[r][i][o]: what is on the way from i to o on net r
    at          \* at[d]: the messages device d has

vars == <<chan, at>>

\* At first all messages are with the devices, each with one.
Init ==
    /\ chan = [r \in Nets |-> [i \in Nodes |-> [o \in Nodes |-> <<>>]]]
    /\ at \in [Nodes -> SUBSET Message]
    /\ \A d, e \in Nodes : d # e => at[d] \cap at[e] = {}

\* Device d sends message m, which it has, to o.
Send(r, d, o, m) ==
    /\ m \in at[d]
    /\ chan' = [chan EXCEPT ![r][d][o] = Append(@, m)]
    /\ at' = [at EXCEPT ![d] = @ \ {m}]

\* Device d receives the oldest message on the way to it from i.
Receive(r, i, d) ==
    /\ chan[r][i][d] # <<>>
    /\ chan' = [chan EXCEPT ![r][i][d] = Tail(@)]
    /\ at' = [at EXCEPT ![d] = @ \cup {Head(chan[r][i][d])}]

\* Device d does both in one step, on two networks.  What it sends is a
\* message it had before, not the one it receives.
Exchange(r, i, d, q, o, m) ==
    /\ r # q
    /\ chan[r][i][d] # <<>>
    /\ m \in at[d]
    /\ chan' = [chan EXCEPT ![r][i][d] = Tail(@), ![q][d][o] = Append(@, m)]
    /\ at' = [at EXCEPT ![d] = (@ \cup {Head(chan[r][i][d])}) \ {m}]

Next ==
    \/ \E r \in Nets, d, o \in Nodes : \E m \in at[d] : Send(r, d, o, m)
    \/ \E r \in Nets, i, d \in Nodes : Receive(r, i, d)
    \/ \E r, q \in Nets, i, d, o \in Nodes : \E m \in at[d] : Exchange(r, i, d, q, o, m)

Spec == Init /\ [][Next]_vars
=============================================================================
