--------------------------- MODULE CustomerClaim ---------------------------
(***************************************************************************)
(* storage/conversation_customer_claims.py: the lease row that serialises  *)
(* all processing of one customer's messages across web workers.  Every    *)
(* store method is one SQL statement in a transaction of its own and the   *)
(* database clock is the only clock, so each is one action here.           *)
(*                                                                         *)
(* claim[c] is the row; leaseEnd[h][c] is not in the database: it is what   *)
(* holder h was last told, the moment until which it may act as the only    *)
(* holder (0: it holds nothing).  The properties relate the two.            *)
(***************************************************************************)
EXTENDS Tenancy

CONSTANTS Holder,   \* the uuid4 of a processing call
          Lease     \* DEFAULT_CLAIM_LEASE_DURATION, in ticks

ASSUME ClaimAssumption == Lease \in Nat \ {0} /\ None \notin Holder

VARIABLES now,        \* the database clock
          claim,      \* conversation_customer_claims, one row per customer
          leaseEnd    \* what each holder believes

claimVars == <<now, claim, leaseEnd>>

NoClaim == [holder |-> None, expires |-> 0]

ClaimTypeOK ==
    /\ now \in Time
    /\ claim \in [Customer -> [holder : Holder \cup {None}, expires : Nat]]
    /\ leaseEnd \in [Holder -> [Customer -> Nat]]

ClaimInit ==
    /\ now = 0
    /\ claim = [c \in Customer |-> NoClaim]
    /\ leaseEnd = [h \in Holder |-> [c \in Customer |-> 0]]

----------------------------------------------------------------------------
Live(c) == claim[c].holder # None /\ claim[c].expires > now

\* Seeded fault: the lease counts as over one tick early.
AcquirableEarly(c) == claim[c].holder = None \/ claim[c].expires <= now + 1

\* The upsert's branch condition: no row, or a row whose lease has run out.
Acquirable(c) == claim[c].holder = None \/ claim[c].expires <= now

\* Seeded fault: the lease is subtracted from now().
GrantedBackwards(h, c) ==
    /\ claim' = [claim EXCEPT ![c] = [holder |-> h, expires |-> now - Lease]]
    /\ leaseEnd' = [leaseEnd EXCEPT ![h][c] = now + Lease]
    /\ UNCHANGED now

Granted(h, c) ==
    /\ claim' = [claim EXCEPT ![c] = [holder |-> h, expires |-> now + Lease]]
    /\ leaseEnd' = [leaseEnd EXCEPT ![h][c] = now + Lease]
    /\ UNCHANGED now

\* try_acquire returning TRUE; it returns FALSE, and changes nothing, when
\* ~Acquirable(c).
TryAcquire(h, c) == Acquirable(c) /\ Granted(h, c)

\* Seeded fault: renew without the holder_id predicate.
RenewAnybodys(h, c) == leaseEnd[h][c] # 0 /\ Granted(h, c)

\* renew returning TRUE: the UPDATE matches the holder's own row, and does
\* not ask whether the lease had already run out.
Renew(h, c) == claim[c].holder = h /\ leaseEnd[h][c] # 0 /\ Granted(h, c)

\* renew returning FALSE: the row is gone or somebody else's.
RenewLost(h, c) ==
    /\ claim[c].holder # h
    /\ leaseEnd' = [leaseEnd EXCEPT ![h][c] = 0]
    /\ UNCHANGED <<now, claim>>

\* Seeded fault: release without the holder_id predicate.
ReleaseAnybodys(h, c) ==
    /\ claim' = [claim EXCEPT ![c] = NoClaim]
    /\ leaseEnd' = [leaseEnd EXCEPT ![h][c] = 0]
    /\ UNCHANGED now

\* release deletes the row only where holder_id matches.
Release(h, c) ==
    /\ claim' = [claim EXCEPT ![c] = IF @.holder = h THEN NoClaim ELSE @]
    /\ leaseEnd' = [leaseEnd EXCEPT ![h][c] = 0]
    /\ UNCHANGED now

\* The holder is gone without a release: the process died, or the release
\* statement failed.  Its row stays until the lease runs out.
Abandon(h) ==
    /\ leaseEnd' = [leaseEnd EXCEPT ![h] = [c \in Customer |-> 0]]
    /\ UNCHANGED <<now, claim>>

Tick == now < MaxTime /\ now' = now + 1 /\ UNCHANGED <<claim, leaseEnd>>

ClaimStep(h, c) == \/ TryAcquire(h, c)
                   \/ Renew(h, c)
                   \/ RenewLost(h, c)
                   \/ leaseEnd[h][c] # 0 /\ Release(h, c)

ClaimNext == \/ \E h \in Holder, c \in Customer : ClaimStep(h, c)
             \/ \E h \in Holder : Abandon(h)
             \/ Tick

ClaimSpec == ClaimInit /\ [][ClaimNext]_claimVars

----------------------------------------------------------------------------
\* At most one holder at a time may believe that its lease on a customer is
\* still running, whatever takeovers, late renewals, late releases and
\* crashes went before (conversation_customer_claims.py try_acquire, renew,
\* release).
LeaseExclusion ==
    \A c \in Customer, g, h \in Holder :
        leaseEnd[g][c] > now /\ leaseEnd[h][c] > now => g = h

\* A claim row whose lease is running is rewritten or deleted only by the
\* holder it names: a displaced or slow holder's renew or release never
\* touches a successor's row (the holder_id predicates of renew and release).
OnlyTheHolderDisturbsALiveClaim ==
    [][\A c \in Customer :
          Live(c) /\ claim'[c] # claim[c] =>
              LET h == claim[c].holder IN leaseEnd'[h][c] # leaseEnd[h][c]]_claimVars

\* The claim table implements the abstract lock, a customer being owned by
\* the holder of its running lease: service never passes directly between
\* holders (the lease_expires_at <= now() condition of the upsert).
Owner == [c \in Customer |-> IF Live(c) THEN claim[c].holder ELSE None]
AbstractLock == INSTANCE LeaseLock WITH owner <- Owner
ImplementsLeaseLock == AbstractLock!Spec
============================================================================
