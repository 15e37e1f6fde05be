----------------------------- MODULE LeaseLock -----------------------------
(***************************************************************************)
(* What a customer claim promises, with no rows, leases or clocks in it:    *)
(* at any moment a customer is served by nobody or by exactly one holder,   *)
(* and service never passes from one holder to another without the         *)
(* customer being free in between.  CustomerClaim implements it.           *)
(***************************************************************************)
CONSTANTS Customer, Holder, None   \* None is no holder

VARIABLE owner

Init == owner = [c \in Customer |-> None]

Take(h, c) == owner[c] = None /\ owner' = [owner EXCEPT ![c] = h]

\* Time may free several customers at once.
Drop(S) == owner' = [c \in Customer |-> IF c \in S THEN None ELSE owner[c]]

Next == \/ \E h \in Holder, c \in Customer : Take(h, c)
        \/ \E S \in SUBSET Customer : Drop(S)

Spec == Init /\ [][Next]_owner
============================================================================
