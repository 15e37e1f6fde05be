--------------------------- MODULE MCSheetsSales ---------------------------
(* Two sessions and two orders that compete for the first product, of which  *)
(* there is one unit; the first order asks for the second product, too.  An   *)
(* order whose item rows were appended twice asks for more than there is.     *)
EXTENDS SheetsDesk, TLC

CONSTANTS o1, o2, p1, p2

MCUnits == (o1 :> (p1 :> 1 @@ p2 :> 1)) @@ (o2 :> (p1 :> 1 @@ p2 :> 0))
MCOpeningStock == [p \in Product |-> 1]
MCFulfillment == [o \in Order |-> "delivery"]

Symmetry == Permutations(Session)
============================================================================
