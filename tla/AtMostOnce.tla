----------------------------- MODULE AtMostOnce -----------------------------
(***************************************************************************)
(* What the customer and the operator are promised about acknowledgements, *)
(* with no rows, retries or pages in it: the message of an order reaches    *)
(* the provider at most once, and a verdict shown to the operator is true - *)
(* "sent" means it did, "failed" that it did not; only "unknown" says       *)
(* nothing, and only after "failed" is anything tried again.                *)
(* OutboundAck implements it.                                               *)
(***************************************************************************)
EXTENDS Integers

CONSTANT Order

VARIABLES verdict,   \* "none", "sending", "sent", "failed" or "unknown"
          arrived    \* messages the provider accepted

Init == /\ verdict = [o \in Order |-> "none"]
        /\ arrived = [o \in Order |-> 0]

Open(o) == /\ verdict[o] \in {"none", "failed"}
           /\ verdict' = [verdict EXCEPT ![o] = "sending"]
           /\ UNCHANGED arrived

Arrive(o) == /\ verdict[o] = "sending"
             /\ arrived[o] = 0
             /\ arrived' = [arrived EXCEPT ![o] = 1]
             /\ UNCHANGED verdict

Close(o, v) == /\ verdict[o] = "sending"
               /\ v = "sent" => arrived[o] = 1
               /\ v = "failed" => arrived[o] = 0
               /\ verdict' = [verdict EXCEPT ![o] = v]
               /\ UNCHANGED arrived

Next == \E o \in Order : \/ Open(o)
                         \/ Arrive(o)
                         \/ \E v \in {"sent", "failed", "unknown"} : Close(o, v)

Spec == Init /\ [][Next]_<<verdict, arrived>>
=============================================================================
