------------------------- MODULE MCInboundPipeline -------------------------
EXTENDS InboundPipeline, TLC

CONSTANTS c1, m1, m2

\* Every message is from the one customer.
OneCustomer == [m \in Message |-> c1]

Symmetry == Permutations(Holder) \cup Permutations(Conv)
                \cup Permutations(OrderId)
============================================================================
