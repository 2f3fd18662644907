--------------------------- MODULE UpdateDelivery ---------------------------
(***************************************************************************)
(* What a chat may expect of the webhook: Telegram keeps an update until   *)
(* it is acknowledged, and however often it is delivered, what it asks for *)
(* is done at most once.                                                   *)
(***************************************************************************)
EXTENDS Naturals

CONSTANT Updates

VARIABLES
    delivery,   \* what Telegram knows of the update
    applied     \* how often its effect has happened

vars == <<delivery, applied>>

Init == /\ delivery = [u \in Updates |-> "unsent"]
        /\ applied = [u \in Updates |-> 0]

Send(u) == /\ delivery[u] = "unsent"
           /\ delivery' = [delivery EXCEPT ![u] = "due"]
           /\ UNCHANGED applied

\* The effect may trail the acknowledgement, when the one that is
\* acknowledged is a repetition.
Apply(u) == /\ delivery[u] # "unsent" /\ applied[u] = 0
            /\ applied' = [applied EXCEPT ![u] = 1]
            /\ UNCHANGED delivery

Acknowledge(u) == /\ delivery[u] = "due"
                  /\ delivery' = [delivery EXCEPT ![u] = "acked"]
                  /\ UNCHANGED applied

Next == \E u \in Updates : Send(u) \/ Apply(u) \/ Acknowledge(u)

Spec == Init /\ [][Next]_vars
=============================================================================
