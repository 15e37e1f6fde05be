------------------------------ MODULE MCTables ------------------------------
(* The lease table and the conversation tables beside each other, each with   *)
(* callers that do anything: three competing calls on two customers and a     *)
(* lease of two ticks; two conversations of up to two customers, a message     *)
(* that may be appended to either, two order ids.  The two share no variable, *)
(* so that each is explored while the other is as it was in the beginning, and *)
(* the conversation tables, which only store the clock, at one moment.         *)
EXTENDS CustomerClaim, ConversationStore, TLC

MCInit == ClaimInit /\ StoreInit

MCNext ==
    \/ ClaimNext /\ UNCHANGED storeVars
    \/ StoreNext /\ UNCHANGED claimVars

MCSpec == MCInit /\ [][MCNext]_<<claimVars, storeVars>>

Scope ==
    \/ /\ \A s \in Conv : session[s] = NoSession /\ turns[s] = <<>> /\ covered[s] = {}
       /\ orders = {}
    \/ /\ now = 0
       /\ \A c \in Customer : claim[c] = NoClaim /\ \A h \in Holder : leaseEnd[h][c] = 0
       /\ \A s \in Conv : session[s].last = 0

Symmetry == Permutations(Holder) \cup Permutations(Customer)
                \cup Permutations(Conv) \cup Permutations(OrderId)
============================================================================
