--------------------------- MODULE RequestServer ---------------------------
(***************************************************************************)
(* What a part of the memory hierarchy promises to those who send requests *)
(* to it: a request that was accepted is answered once, never before it    *)
(* was accepted, and it is answered some time.  Caches, queues, merging    *)
(* and latencies are the business of the part.                             *)
(***************************************************************************)
CONSTANT Requester      \* the requests that may be sent, each at most once

VARIABLES accepted, answered

Init == accepted = {} /\ answered = {}

\* A step may accept some requests and answer some it had accepted before.
Next ==
    /\ accepted \subseteq accepted'
    /\ accepted' \subseteq Requester
    /\ answered \subseteq answered'
    /\ answered' \subseteq accepted

EventuallyAnswered == \A mf \in Requester : mf \in accepted ~> mf \in answered

Spec == Init /\ [][Next]_<<accepted, answered>> /\ EventuallyAnswered
=============================================================================
