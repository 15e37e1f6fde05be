----------------------------- MODULE TableProofs -----------------------------
(***************************************************************************)
(* Theorems about the two groups of tables the inbound pipeline works on,  *)
(* for every set of callers and every sequence of their calls: the claim   *)
(* table, then the conversation tables.                                    *)
(***************************************************************************)
EXTENDS CustomerClaim, ConversationStore, TLAPS

----------------------------------------------------------------------------
(* The claim table, for every set of holders and customers and every       *)
(* lease.  Everything rests on one relation between the table and the      *)
(* holders' beliefs: who believes in a running lease is the holder named   *)
(* by the row, and the row runs exactly as long as believed.               *)

BeliefIsTheRow ==
    \A c \in Customer, h \in Holder :
        leaseEnd[h][c] > now =>
            claim[c].holder = h /\ claim[c].expires = leaseEnd[h][c]

\* Every step of the protocol keeps the types of the tables.
LEMMA ClaimTypeStep == ClaimTypeOK /\ [ClaimNext]_claimVars => ClaimTypeOK'
<1> SUFFICES ASSUME ClaimTypeOK, [ClaimNext]_claimVars PROVE ClaimTypeOK'
  OBVIOUS
<1> USE ClaimAssumption, TenancyAssumption DEF ClaimTypeOK, Time
<1>1. ASSUME NEW h \in Holder, NEW c \in Customer, Granted(h, c)
      PROVE ClaimTypeOK'
  BY <1>1 DEF Granted
<1>2. ASSUME NEW h \in Holder, NEW c \in Customer, RenewLost(h, c)
      PROVE ClaimTypeOK'
  BY <1>2 DEF RenewLost
<1>3. ASSUME NEW h \in Holder, NEW c \in Customer, Release(h, c)
      PROVE ClaimTypeOK'
  BY <1>3 DEF Release, NoClaim
<1>4. ASSUME NEW h \in Holder, Abandon(h)
      PROVE ClaimTypeOK'
  BY <1>4 DEF Abandon
<1>5. CASE Tick
  BY <1>5 DEF Tick
<1>6. CASE UNCHANGED claimVars
  BY <1>6 DEF claimVars
<1> QED
  BY <1>1, <1>2, <1>3, <1>4, <1>5, <1>6
     DEF ClaimNext, ClaimStep, TryAcquire, Renew

\* The tables hold values of their types: rows of NoClaim or of a holder,
\* a clock that stays within the horizon.
THEOREM ClaimTypeCorrect == ClaimSpec => []ClaimTypeOK
<1>1. ClaimInit => ClaimTypeOK
  BY TenancyAssumption DEF ClaimInit, ClaimTypeOK, NoClaim, Time
<1> QED
  BY <1>1, ClaimTypeStep, PTL DEF ClaimSpec

\* The belief invariant is inductive: a grant overwrites a row nobody can
\* still believe in, and a release touches only the releaser's own row.
LEMMA BeliefIsInductive == ClaimSpec => []BeliefIsTheRow
<1>1. ClaimInit => BeliefIsTheRow
  BY DEF ClaimInit, BeliefIsTheRow
<1>2. ClaimTypeOK /\ BeliefIsTheRow /\ [ClaimNext]_claimVars => BeliefIsTheRow'
  <2> SUFFICES ASSUME ClaimTypeOK, BeliefIsTheRow, [ClaimNext]_claimVars
               PROVE BeliefIsTheRow'
    OBVIOUS
  <2> USE ClaimAssumption DEF ClaimTypeOK, BeliefIsTheRow, Time
  <2>1. ASSUME NEW h \in Holder, NEW c \in Customer, TryAcquire(h, c)
        PROVE BeliefIsTheRow'
    BY <2>1 DEF TryAcquire, Granted, Acquirable
  <2>2. ASSUME NEW h \in Holder, NEW c \in Customer, Renew(h, c)
        PROVE BeliefIsTheRow'
    BY <2>2 DEF Renew, Granted
  <2>3. ASSUME NEW h \in Holder, NEW c \in Customer, RenewLost(h, c)
        PROVE BeliefIsTheRow'
    BY <2>3 DEF RenewLost
  <2>4. ASSUME NEW h \in Holder, NEW c \in Customer, Release(h, c)
        PROVE BeliefIsTheRow'
    BY <2>4 DEF Release, NoClaim
  <2>5. ASSUME NEW h \in Holder, Abandon(h)
        PROVE BeliefIsTheRow'
    BY <2>5 DEF Abandon
  <2>6. CASE Tick
    BY <2>6 DEF Tick
  <2>7. CASE UNCHANGED claimVars
    BY <2>7 DEF claimVars
  <2> QED
    BY <2>1, <2>2, <2>3, <2>4, <2>5, <2>6, <2>7 DEF ClaimNext, ClaimStep
<1> QED
  BY <1>1, <1>2, ClaimTypeCorrect, PTL DEF ClaimSpec

\* Two calls never both believe that they hold one customer.
THEOREM ClaimExcludes == ClaimSpec => []LeaseExclusion
<1>1. ClaimTypeOK /\ BeliefIsTheRow => LeaseExclusion
  BY DEF BeliefIsTheRow, LeaseExclusion, ClaimTypeOK
<1> QED
  BY <1>1, ClaimTypeCorrect, BeliefIsInductive, PTL

\* A running row changes only together with its own holder's belief.
THEOREM LiveClaimUndisturbed == ClaimSpec => OnlyTheHolderDisturbsALiveClaim
<1> DEFINE Undisturbed ==
      \A c \in Customer :
          Live(c) /\ claim'[c] # claim[c] =>
              LET h == claim[c].holder IN leaseEnd'[h][c] # leaseEnd[h][c]
<1>1. ClaimTypeOK /\ BeliefIsTheRow /\ [ClaimNext]_claimVars
         => [Undisturbed]_claimVars
  <2> SUFFICES ASSUME ClaimTypeOK, BeliefIsTheRow, ClaimNext,
                      NEW c \in Customer, Live(c), claim'[c] # claim[c]
               PROVE leaseEnd'[claim[c].holder][c] # leaseEnd[claim[c].holder][c]
    BY DEF claimVars
  <2> USE ClaimAssumption DEF ClaimTypeOK, Time, Live
  <2>1. ASSUME NEW h \in Holder, NEW d \in Customer, TryAcquire(h, d)
        PROVE FALSE
    BY <2>1 DEF TryAcquire, Granted, Acquirable
  <2>2. ASSUME NEW h \in Holder, NEW d \in Customer, Renew(h, d)
        PROVE leaseEnd'[claim[c].holder][c] # leaseEnd[claim[c].holder][c]
    <3>1. d = c /\ h = claim[c].holder
      BY <2>2 DEF Renew, Granted
    <3>2. leaseEnd'[h][c] = now + Lease /\ claim'[c].expires = now + Lease
      BY <2>2, <3>1 DEF Renew, Granted
    <3>3. CASE leaseEnd[h][c] > now
      <4>1. claim[c] = [holder |-> h, expires |-> leaseEnd[h][c]]
        BY <3>3, <3>1 DEF BeliefIsTheRow
      <4>2. claim'[c] = [holder |-> h, expires |-> now + Lease]
        BY <2>2, <3>1 DEF Renew, Granted
      <4> QED
        BY <4>1, <4>2, <3>1, <3>2
    <3>4. CASE ~(leaseEnd[h][c] > now)
      BY <3>4, <3>1, <3>2
    <3> QED
      BY <3>3, <3>4
  <2>3. ASSUME NEW h \in Holder, NEW d \in Customer, RenewLost(h, d)
        PROVE FALSE
    BY <2>3 DEF RenewLost
  <2>4. ASSUME NEW h \in Holder, NEW d \in Customer,
               leaseEnd[h][d] # 0, Release(h, d)
        PROVE leaseEnd'[claim[c].holder][c] # leaseEnd[claim[c].holder][c]
    BY <2>4 DEF Release
  <2>5. ASSUME NEW h \in Holder, Abandon(h)
        PROVE FALSE
    BY <2>5 DEF Abandon
  <2>6. CASE Tick
    BY <2>6 DEF Tick
  <2> QED
    BY <2>1, <2>2, <2>3, <2>4, <2>5, <2>6 DEF ClaimNext, ClaimStep
<1> QED
  BY <1>1, ClaimTypeCorrect, BeliefIsInductive, PTL
     DEF ClaimSpec, OnlyTheHolderDisturbsALiveClaim

\* The claim table implements the abstract lock: a grant takes a free
\* customer or renews an owned one, everything else frees customers.
THEOREM ClaimImplementsLock == ClaimSpec => ImplementsLeaseLock
<1> USE ClaimAssumption
<1>1. ClaimInit => AbstractLock!Init
  BY DEF ClaimInit, AbstractLock!Init, Owner, Live, NoClaim
<1>2. ClaimTypeOK /\ [ClaimNext]_claimVars => [AbstractLock!Next]_Owner
  <2> SUFFICES ASSUME ClaimTypeOK, [ClaimNext]_claimVars, Owner' # Owner
               PROVE AbstractLock!Next
    OBVIOUS
  <2> USE DEF ClaimTypeOK, Time
  <2> DEFINE Freed == {c \in Customer : Owner'[c] = None}
  <2>0. ASSUME \A c \in Customer : Owner'[c] \in {Owner[c], None}
        PROVE AbstractLock!Next
    <3>1. AbstractLock!Drop(Freed)
      BY <2>0 DEF AbstractLock!Drop, Owner
    <3> QED
      BY <3>1 DEF AbstractLock!Next
  <2>1. ASSUME NEW h \in Holder, NEW c \in Customer, Granted(h, c),
               Owner[c] \in {None, h}
        PROVE AbstractLock!Next
    <3>1. /\ Live(c)' /\ claim'[c].holder = h
          /\ \A d \in Customer \ {c} : claim'[d] = claim[d] /\ Live(d)' = Live(d)
      BY <2>1 DEF Granted, Live
    <3>2. Owner' = [Owner EXCEPT ![c] = h]
      BY <3>1 DEF Owner
    <3>3. Owner[c] = None
      BY <3>2, <2>1 DEF Owner
    <3> QED
      BY <3>2, <3>3 DEF AbstractLock!Next, AbstractLock!Take
  <2>2. ASSUME NEW h \in Holder, NEW c \in Customer, TryAcquire(h, c)
        PROVE AbstractLock!Next
    <3>1. Owner[c] = None
      BY <2>2 DEF TryAcquire, Acquirable, Owner, Live
    <3> QED
      BY <2>1, <2>2, <3>1 DEF TryAcquire
  <2>3. ASSUME NEW h \in Holder, NEW c \in Customer, Renew(h, c)
        PROVE AbstractLock!Next
    <3>1. Owner[c] \in {None, h}
      BY <2>3 DEF Renew, Owner
    <3> QED
      BY <2>1, <2>3, <3>1 DEF Renew
  <2>4. ASSUME NEW h \in Holder, NEW c \in Customer, Release(h, c)
        PROVE AbstractLock!Next
    BY <2>0, <2>4 DEF Release, NoClaim, Owner, Live
  <2>5. CASE UNCHANGED <<now, claim>>
    BY <2>5 DEF Owner, Live
  <2>6. CASE Tick
    <3>1. \A c \in Customer : Owner'[c] \in {Owner[c], None}
      BY <2>6 DEF Tick, Owner, Live
    <3> QED
      BY <2>0, <3>1
  <2> QED
    BY <2>2, <2>3, <2>4, <2>5, <2>6
       DEF ClaimNext, ClaimStep, RenewLost, Abandon, claimVars
<1> QED
  BY <1>1, <1>2, ClaimTypeCorrect, PTL
     DEF ClaimSpec, ImplementsLeaseLock, AbstractLock!Spec

----------------------------------------------------------------------------
(* The conversation tables.  Type correctness comes first; each invariant  *)
(* is then inductive given the types.                                      *)

\* Every store call keeps the types of the tables.
LEMMA StoreTypeStep == StoreTypeOK /\ [StoreNext]_storeVars => StoreTypeOK'
<1> SUFFICES ASSUME StoreTypeOK, [StoreNext]_storeVars PROVE StoreTypeOK'
  OBVIOUS
<1> USE DEF StoreTypeOK, Session, Exists, NoSession
<1>1. ASSUME NEW s \in Conv, NEW c \in Customer, NEW t \in Time,
             CreateOpenSession(s, c, t)
      PROVE StoreTypeOK'
  BY <1>1 DEF CreateOpenSession
<1>2. ASSUME NEW s \in Conv, NEW m \in Message, NEW t \in Time,
             AppendTurn(s, m, t)
      PROVE StoreTypeOK'
  <2>1. session[s] \in Session
    BY <1>2 DEF AppendTurn
  <2>2. [session[s] EXCEPT !.last = t] \in Session
    BY <2>1
  <2>3. session' = [session EXCEPT ![s] = [session[s] EXCEPT !.last = t]]
    BY <1>2 DEF AppendTurn
  <2>4. Append(turns[s], m) \in Seq(Message)
    OBVIOUS
  <2>5. turns' \in [Conv -> Seq(Message)]
    BY <1>2, <2>4 DEF AppendTurn
  <2>6. session' \in [Conv -> Session \cup {NoSession}]
    BY <2>2, <2>3
  <2>7. UNCHANGED <<covered, orders>>
    BY <1>2 DEF AppendTurn
  <2> QED
    BY <2>5, <2>6, <2>7
<1>3. ASSUME NEW s \in Conv, ExpireSession(s)
      PROVE StoreTypeOK'
  <2>1. session[s] \in Session
    BY <1>3 DEF ExpireSession
  <2>2. [session[s] EXCEPT !.status = "expired"] \in Session
    BY <2>1
  <2> QED
    BY <1>3, <2>2 DEF ExpireSession
<1>4. ASSUME NEW s \in Conv, NEW M \in SUBSET Message,
             SaveAccumulatedDraft(s, M)
      PROVE StoreTypeOK'
  BY <1>4 DEF SaveAccumulatedDraft
<1>5. ASSUME NEW o \in OrderId, NEW s \in Conv, NEW M \in SUBSET Message,
             InsertOrder(o, s, M)
      PROVE StoreTypeOK'
  BY <1>5 DEF InsertOrder, Order
<1>6. ASSUME NEW s \in Conv, NEW o \in OrderIds, MarkDraftCreated(s, o)
      PROVE StoreTypeOK'
  <2>1. session[s] \in Session /\ o \in OrderId
    BY <1>6 DEF MarkDraftCreated, OrderIds, Order
  <2> DEFINE linked == [session[s] EXCEPT !.status = "draft_created",
                                          !.order = o]
  <2>2. linked \in Session
    BY <2>1
  <2>3. session' = [session EXCEPT ![s] = linked] \/ session' = session
    BY <1>6 DEF MarkDraftCreated
  <2> QED
    BY <1>6, <2>2, <2>3 DEF MarkDraftCreated
<1>7. ASSUME NEW s \in Conv, NEW out \in Outcome, RecordOutcome(s, out)
      PROVE StoreTypeOK'
  <2>1. session[s] \in Session
    BY <1>7 DEF RecordOutcome
  <2>2. [session[s] EXCEPT !.outcome = out] \in Session
    BY <2>1
  <2> QED
    BY <1>7, <2>2 DEF RecordOutcome
<1>8. CASE UNCHANGED storeVars
  BY <1>8 DEF storeVars
<1> QED
  BY <1>1, <1>2, <1>3, <1>4, <1>5, <1>6, <1>7, <1>8 DEF StoreNext

\* Rows, turn lists and orders have their types after any sequence of calls.
THEOREM StoreTypeCorrect == ConversationSpec => []StoreTypeOK
<1>1. StoreInit => StoreTypeOK
  BY DEF StoreInit, StoreTypeOK
<1> QED
  BY <1>1, StoreTypeStep, PTL DEF ConversationSpec

\* Only an insert makes a session open, and the unique index refuses it when
\* the customer has an open one.
THEOREM OneOpenSessionKept == ConversationSpec => []OneOpenSession
<1>1. StoreInit => OneOpenSession
  BY DEF StoreInit, OneOpenSession, NoSession
<1>2. StoreTypeOK /\ OneOpenSession /\ [StoreNext]_storeVars => OneOpenSession'
  <2> SUFFICES ASSUME StoreTypeOK, OneOpenSession, [StoreNext]_storeVars
               PROVE OneOpenSession'
    OBVIOUS
  <2> USE DEF StoreTypeOK, OneOpenSession
  <2>1. ASSUME NEW s \in Conv, NEW c \in Customer, NEW t \in Time,
               CreateOpenSession(s, c, t)
        PROVE OneOpenSession'
    BY <2>1 DEF CreateOpenSession, OpenSessions
  <2>2. CASE \A s \in Conv :
                /\ session'[s].customer = session[s].customer
                /\ session'[s].status = "open" => session[s].status = "open"
    BY <2>2
  <2>3. ASSUME NEW s \in Conv,
               \/ \E m \in Message, t \in Time : AppendTurn(s, m, t)
               \/ ExpireSession(s)
               \/ \E o \in OrderIds : MarkDraftCreated(s, o)
               \/ \E out \in Outcome : RecordOutcome(s, out)
        PROVE OneOpenSession'
    <3>1. \A r \in Conv :
             /\ session'[r].customer = session[r].customer
             /\ session'[r].status = "open" => session[r].status = "open"
      <4> SUFFICES ASSUME NEW r \in Conv
                   PROVE /\ session'[r].customer = session[r].customer
                         /\ session'[r].status = "open" => session[r].status = "open"
        OBVIOUS
      <4> USE DEF Session, NoSession, Exists
      <4>1. CASE \E m \in Message, t \in Time : AppendTurn(s, m, t)
        BY <4>1 DEF AppendTurn
      <4>2. CASE ExpireSession(s)
        BY <4>2 DEF ExpireSession
      <4>3. CASE \E o \in OrderIds : MarkDraftCreated(s, o)
        BY <4>3 DEF MarkDraftCreated
      <4>4. CASE \E out \in Outcome : RecordOutcome(s, out)
        BY <4>4 DEF RecordOutcome
      <4> QED
        BY <2>3, <4>1, <4>2, <4>3, <4>4
    <3> QED
      BY <3>1, <2>2
  <2>4. CASE UNCHANGED session
    BY <2>4
  <2> QED
    BY <2>1, <2>3, <2>4
       DEF StoreNext, storeVars, SaveAccumulatedDraft, InsertOrder
<1> QED
  BY <1>1, <1>2, StoreTypeCorrect, PTL DEF ConversationSpec

\* The unique index on orders.conversation_id refuses the second order.
THEOREM OneOrderKept == ConversationSpec => []OneOrderPerConversation
<1>1. StoreInit => OneOrderPerConversation
  BY DEF StoreInit, OneOrderPerConversation
<1>2. OneOrderPerConversation /\ [StoreNext]_storeVars
         => OneOrderPerConversation'
  <2> SUFFICES ASSUME OneOrderPerConversation, [StoreNext]_storeVars
               PROVE OneOrderPerConversation'
    OBVIOUS
  <2>1. ASSUME NEW o \in OrderId, NEW s \in Conv, NEW M \in SUBSET Message,
               InsertOrder(o, s, M)
        PROVE OneOrderPerConversation'
    BY <2>1 DEF InsertOrder, OrdersOf, OneOrderPerConversation
  <2>2. CASE UNCHANGED orders
    BY <2>2 DEF OneOrderPerConversation
  <2> QED
    BY <2>1, <2>2
       DEF StoreNext, storeVars, CreateOpenSession, AppendTurn, ExpireSession,
           SaveAccumulatedDraft, MarkDraftCreated, RecordOutcome
<1> QED
  BY <1>1, <1>2, PTL DEF ConversationSpec

\* Only mark_draft_created touches status and link of an unlinked session
\* together, and nothing but expiry changes the status of a linked one.
THEOREM StatusMatchesLinkKept == ConversationSpec => []StatusMatchesLink
<1>0. ASSUME NEW s \in Conv, StoreTypeOK
      PROVE session[s].order = None \/ session[s].order \in OrderId
  BY <1>0 DEF StoreTypeOK, Session, NoSession
<1>1. StoreInit => StatusMatchesLink
  BY DEF StoreInit, StatusMatchesLink, NoSession
<1>2. StoreTypeOK /\ StatusMatchesLink /\ [StoreNext]_storeVars
         => StatusMatchesLink'
  <2> SUFFICES ASSUME StoreTypeOK, StatusMatchesLink, [StoreNext]_storeVars
               PROVE StatusMatchesLink'
    OBVIOUS
  <2> USE DEF StoreTypeOK, StatusMatchesLink, Session, NoSession, Exists
  <2>1. ASSUME NEW s \in Conv, NEW c \in Customer, NEW t \in Time,
               CreateOpenSession(s, c, t)
        PROVE StatusMatchesLink'
    BY <2>1 DEF CreateOpenSession, OrderIds
  <2>2. ASSUME NEW s \in Conv, NEW m \in Message, NEW t \in Time,
               AppendTurn(s, m, t)
        PROVE StatusMatchesLink'
    BY <2>2 DEF AppendTurn, OrderIds
  <2>3. ASSUME NEW s \in Conv, ExpireSession(s)
        PROVE StatusMatchesLink'
    BY <2>3 DEF ExpireSession, OrderIds
  <2>4. ASSUME NEW o \in OrderId, NEW s \in Conv, NEW M \in SUBSET Message,
               InsertOrder(o, s, M)
        PROVE StatusMatchesLink'
    <3>1. OrderIds \subseteq OrderIds'
      BY <2>4 DEF InsertOrder, OrderIds
    <3> QED
      BY <2>4, <3>1 DEF InsertOrder
  <2>5. ASSUME NEW s \in Conv, NEW o \in OrderIds, MarkDraftCreated(s, o)
        PROVE StatusMatchesLink'
    <3>1. OrderIds' = OrderIds
      BY <2>5 DEF MarkDraftCreated, OrderIds
    <3>2. CASE session[s].order = None
      <4>1. \A r \in Conv \ {s} : session'[r] = session[r]
        BY <2>5, <3>2 DEF MarkDraftCreated
      <4>2. session'[s].status = "draft_created" /\ session'[s].order = o
        BY <2>5, <3>2 DEF MarkDraftCreated
      <4> QED
        BY <3>1, <4>1, <4>2
    <3>3. CASE session[s].order # None
      BY <2>5, <3>1, <3>3 DEF MarkDraftCreated
    <3> QED
      BY <3>2, <3>3
  <2>6. ASSUME NEW s \in Conv, NEW out \in Outcome, RecordOutcome(s, out)
        PROVE StatusMatchesLink'
    BY <2>6 DEF RecordOutcome, OrderIds
  <2>7. CASE UNCHANGED <<session, orders>>
    BY <2>7 DEF OrderIds
  <2> QED
    BY <2>1, <2>2, <2>3, <2>4, <2>5, <2>6, <2>7
       DEF StoreNext, storeVars, SaveAccumulatedDraft
<1> QED
  BY <1>1, <1>2, StoreTypeCorrect, PTL DEF ConversationSpec

\* No call rewrites the order a conversation is linked to, and none reopens a
\* conversation.
THEOREM LinkNeverChanges == ConversationSpec => LinkIsPermanent
<1> DEFINE Kept ==
      \A s \in Conv :
          /\ session[s].order # None => session'[s].order = session[s].order
          /\ session[s].status \in {"draft_created", "expired"} =>
                session'[s].status \in {"draft_created", "expired"}
<1>1. StoreTypeOK /\ [StoreNext]_storeVars => [Kept]_storeVars
  <2> SUFFICES ASSUME StoreTypeOK, StoreNext, NEW s \in Conv
               PROVE /\ session[s].order # None => session'[s].order = session[s].order
                     /\ session[s].status \in {"draft_created", "expired"} =>
                           session'[s].status \in {"draft_created", "expired"}
    BY DEF storeVars
  <2> USE DEF StoreTypeOK, Session, NoSession, Exists
  <2>1. ASSUME NEW r \in Conv, NEW c \in Customer, NEW t \in Time,
               CreateOpenSession(r, c, t)
        PROVE Kept
    BY <2>1 DEF CreateOpenSession
  <2>2. ASSUME NEW r \in Conv, NEW m \in Message, NEW t \in Time,
               AppendTurn(r, m, t)
        PROVE Kept
    BY <2>2 DEF AppendTurn
  <2>3. ASSUME NEW r \in Conv, ExpireSession(r)
        PROVE Kept
    BY <2>3 DEF ExpireSession
  <2>4. ASSUME NEW r \in Conv, NEW o \in OrderIds, MarkDraftCreated(r, o)
        PROVE Kept
    BY <2>4 DEF MarkDraftCreated
  <2>5. ASSUME NEW r \in Conv, NEW out \in Outcome, RecordOutcome(r, out)
        PROVE Kept
    BY <2>5 DEF RecordOutcome
  <2> QED
    BY <2>1, <2>2, <2>3, <2>4, <2>5
       DEF StoreNext, SaveAccumulatedDraft, InsertOrder
<1> QED
  BY <1>1, StoreTypeCorrect, PTL DEF ConversationSpec, LinkIsPermanent

----------------------------------------------------------------------------
(* What the calls of the conversation store add                            *)

\* A new turn is added to the transcript of its conversation and to no other.
LEMMA TurnAppended ==
    ASSUME StoreTypeOK, NEW s \in Conv, NEW m \in Message, NEW t, AppendTurn(s, m, t)
    PROVE  /\ Transcript(s)' = Transcript(s) \cup {m}
           /\ \A r \in Conv \ {s} : Transcript(r)' = Transcript(r)
<1>0. turns \in [Conv -> Seq(Message)]
  BY DEF StoreTypeOK
<1>1. turns' = [turns EXCEPT ![s] = Append(turns[s], m)]
  BY DEF AppendTurn
<1>2. \A r \in Conv \ {s} : Transcript(r)' = Transcript(r)
  BY <1>0, <1>1 DEF Transcript
<1>3. PICK q \in Seq(Message) : q = turns[s]
  BY <1>0
<1>4. turns'[s] = Append(q, m)
  BY <1>0, <1>1, <1>3
<1>5. /\ DOMAIN Append(q, m) = DOMAIN q \cup {Len(q) + 1}
      /\ Append(q, m)[Len(q) + 1] = m
      /\ \A i \in DOMAIN q : Append(q, m)[i] = q[i]
  OBVIOUS
<1>6. \A n : n \in Transcript(s)' <=> n \in Transcript(s) \cup {m}
  BY <1>3, <1>4, <1>5 DEF Transcript
<1> QED
  BY <1>2, <1>6

\* Orders and turns are never taken away.
LEMMA StoreGrows ==
    ASSUME StoreTypeOK, [StoreNext]_storeVars
    PROVE  /\ orders \subseteq orders'
           /\ \A s \in Conv : Transcript(s) \subseteq Transcript(s)'
           /\ \A s \in Conv : Exists(s) =>
                 Exists(s)' /\ session'[s].customer = session[s].customer
<1>1. orders \subseteq orders'
  BY DEF StoreNext, storeVars, CreateOpenSession, AppendTurn, ExpireSession,
         SaveAccumulatedDraft, InsertOrder, MarkDraftCreated, RecordOutcome
<1>2. \A s \in Conv : Transcript(s) \subseteq Transcript(s)'
  <2>1. CASE UNCHANGED turns
    BY <2>1 DEF Transcript
  <2>2. ASSUME NEW r \in Conv, NEW m \in Message, NEW t \in Time, AppendTurn(r, m, t)
        PROVE \A s \in Conv : Transcript(s) \subseteq Transcript(s)'
    BY <2>2, TurnAppended
  <2> QED
    BY <2>1, <2>2
       DEF StoreNext, storeVars, CreateOpenSession, ExpireSession,
           SaveAccumulatedDraft, InsertOrder, MarkDraftCreated, RecordOutcome
<1>3. ASSUME NEW s \in Conv, Exists(s)
      PROVE Exists(s)' /\ session'[s].customer = session[s].customer
  <2>0. session \in [Conv -> Session \cup {NoSession}] /\ session[s] \in Session
    BY <1>3 DEF StoreTypeOK, Exists, NoSession
  <2> USE DEF Exists, Session, NoSession
  <2>1. ASSUME NEW r \in Conv,
               \/ \E c \in Customer, t \in Time : CreateOpenSession(r, c, t)
               \/ ExpireSession(r)
               \/ \E out \in Outcome : RecordOutcome(r, out)
        PROVE Exists(s)' /\ session'[s].customer = session[s].customer
    BY <1>3, <2>0, <2>1 DEF CreateOpenSession, ExpireSession, RecordOutcome
  <2>2. ASSUME NEW r \in Conv, NEW m \in Message, NEW t \in Time, AppendTurn(r, m, t)
        PROVE Exists(s)' /\ session'[s].customer = session[s].customer
    BY <1>3, <2>0, <2>2 DEF AppendTurn
  <2>3. ASSUME NEW r \in Conv, NEW o \in OrderIds, MarkDraftCreated(r, o)
        PROVE Exists(s)' /\ session'[s].customer = session[s].customer
    BY <1>3, <2>0, <2>3 DEF MarkDraftCreated
  <2>4. CASE UNCHANGED session
    BY <1>3, <2>4
  <2> QED
    BY <2>1, <2>2, <2>3, <2>4
       DEF StoreNext, storeVars, SaveAccumulatedDraft, InsertOrder
<1> QED
  BY <1>1, <1>2, <1>3
==============================================================================
