------------------------------ MODULE MCOrders ------------------------------
(* Two orders, two operators, two attempts.  Both orders ask for the first     *)
(* product, of which there are enough for either of them but not for both.    *)
(* Only the first has a phone, and its acknowledgement is followed where the   *)
(* second has not been placed.                                               *)
EXTENDS OutboundAck, TLC

CONSTANTS o1, o2, p1, p2

MCQuantity == (o1 :> (p1 :> 2 @@ p2 :> 1)) @@ (o2 :> (p1 :> 1 @@ p2 :> 0))
MCOpeningStock == (p1 :> 2) @@ (p2 :> 1)
MCFulfillment == (o1 :> "delivery") @@ (o2 :> "pickup")

Scope ==
    \/ ack = [o \in Order |-> NoRow] /\ asked = {} /\ \A d \in Desk : ackPc[d] = "idle"
    \/ status[o2] = "none"

Symmetry == Permutations(Desk)
============================================================================
