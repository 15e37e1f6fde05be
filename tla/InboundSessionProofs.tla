------------------------ MODULE InboundSessionProofs ------------------------
(***************************************************************************)
(* What a call knows of its conversation while it advances it, for any     *)
(* number of workers, messages, conversations and failures.                *)
(*                                                                         *)
(* The first part holds however slow the statements are: a message is      *)
(* advanced once, and what its call is about to link belongs together.     *)
(* The second part is about workers that own their customer's claim: as    *)
(* long as statements are faster than the lease, nobody changes the        *)
(* conversation under them, and what they read of it is still true when    *)
(* they write.                                                             *)
(***************************************************************************)
EXTENDS InboundPipelineProofs

Advancing == AdvanceStages \cup {"link"}

\* The stages before the message has its turn.
Unrouted == {"route", "expire", "getopen", "create", "reread", "append"}

----------------------------------------------------------------------------
(* What the steps of advance() do to the locals of the call                *)

\* The locals that say which conversation the call is about.
SameSession(w) ==
    /\ call'[w].conv = call[w].conv
    /\ call'[w].status = call[w].status
    /\ call'[w].order = call[w].order

LEMMA ReadLocals ==
    ASSUME PipelineTypeOK, NEW w \in Holder, NEW s, Read(w, s)
    PROVE  /\ call'[w].conv = s
           /\ call'[w].status = session[s].status
           /\ call'[w].order = session[s].order
<1> DEFINE x == session[s].status
           y == session[s].order
           r == [call[w] EXCEPT !.conv = s, !.status = x, !.order = y]
<1>0. call \in [Holder -> Call] /\ call[w] \in Call
  BY DEF PipelineTypeOK
<1>1. call' = [call EXCEPT ![w].conv = s, ![w].status = x, ![w].order = y]
  BY DEF Read
<1> HIDE DEF x, y
<1>2. r.conv = s /\ r.status = x /\ r.order = y
  BY <1>0 DEF Call
<1>3. call'[w] = r
  BY <1>0, <1>1 DEF Call
<1> QED
  BY <1>2, <1>3 DEF x, y

LEMMA CreateLocals ==
    ASSUME PipelineTypeOK, NEW w \in Holder, NEW s,
           call' = [call EXCEPT ![w].conv = s, ![w].status = "open",
                                ![w].order = None]
    PROVE  /\ call'[w].conv = s
           /\ call'[w].status = "open"
           /\ call'[w].order = None
<1> DEFINE x == "open"
           r == [call[w] EXCEPT !.conv = s, !.status = x, !.order = None]
<1>0. call \in [Holder -> Call] /\ call[w] \in Call
  BY DEF PipelineTypeOK
<1>1. call' = [call EXCEPT ![w].conv = s, ![w].status = x, ![w].order = None]
  OBVIOUS
<1> HIDE DEF x
<1>2. r.conv = s /\ r.status = x /\ r.order = None
  BY <1>0 DEF Call
<1>3. call'[w] = r
  BY <1>0, <1>1 DEF Call
<1> QED
  BY <1>2, <1>3 DEF x

LEMMA AdoptLocals ==
    ASSUME PipelineTypeOK, NEW w \in Holder, NEW o, NEW out, Adopt(w, o, out)
    PROVE  /\ pc'[w] = "mark"
           /\ call'[w].conv = call[w].conv
           /\ call'[w].status = call[w].status
           /\ call'[w].order = o
           /\ call'[w].draft = call[w].draft
<1>0. call \in [Holder -> Call] /\ call[w] \in Call /\ pc \in [Holder -> Stages]
  BY DEF PipelineTypeOK
<1> QED
  BY <1>0 DEF Adopt, Goto, Call

\* An answer, an outcome or a draft leave the conversation of the call alone.
LEMMA OtherLocals ==
    ASSUME PipelineTypeOK, NEW w \in Holder
    PROVE  /\ \A x : call' = [call EXCEPT ![w].reply = x] => SameSession(w)
           /\ \A x : call' = [call EXCEPT ![w].fresh = x] => SameSession(w)
           /\ \A x : call' = [call EXCEPT ![w].draft = x] =>
                        SameSession(w) /\ call'[w].draft = x
           /\ \A x : Settle(w, x) => SameSession(w) /\ pc'[w] = "outcome"
           /\ UNCHANGED call => SameSession(w) /\ call'[w].draft = call[w].draft
           /\ Raise(w) => SameSession(w) /\ pc'[w] = "release"
           /\ Conclude(w) =>
                 /\ SameSession(w)
                 /\ pc'[w] = IF call[w].order # None THEN "link" ELSE "release"
<1>0. call \in [Holder -> Call] /\ call[w] \in Call /\ pc \in [Holder -> Stages]
  BY DEF PipelineTypeOK
<1>1. \A x : call' = [call EXCEPT ![w].reply = x] => SameSession(w)
  BY <1>0 DEF Call, SameSession
<1>2. \A x : call' = [call EXCEPT ![w].fresh = x] => SameSession(w)
  BY <1>0 DEF Call, SameSession
<1>3. \A x : call' = [call EXCEPT ![w].draft = x] =>
                SameSession(w) /\ call'[w].draft = x
  BY <1>0 DEF Call, SameSession
<1>4. \A x : Settle(w, x) => SameSession(w) /\ pc'[w] = "outcome"
  BY <1>0 DEF Call, SameSession, Settle, Goto
<1>5. UNCHANGED call => SameSession(w) /\ call'[w].draft = call[w].draft
  BY DEF SameSession
<1>6. Raise(w) => SameSession(w) /\ pc'[w] = "release"
  BY <1>0, <1>1 DEF Raise, Goto
<1>7. Conclude(w) =>
         /\ SameSession(w)
         /\ pc'[w] = IF call[w].order # None THEN "link" ELSE "release"
  BY <1>0, <1>1, <1>5 DEF Conclude, Goto
<1> QED
  BY <1>1, <1>2, <1>3, <1>4, <1>5, <1>6, <1>7

----------------------------------------------------------------------------
(* A message is advanced once                                              *)

\* A call comes to advance() through Record, with a message that was not
\* recorded before, and keeps that message.
LEMMA EntersAdvance ==
    ASSUME PipelineTypeOK, NEW w \in Holder,
           Step(w) \/ FailClaimed(w), pc'[w] \in Advancing
    PROVE  /\ call'[w].msg = call[w].msg
           /\ \/ pc[w] \in Advancing
              \/ /\ Record(w) /\ pc'[w] = "route"
                 /\ call[w].msg \notin recorded /\ call[w].msg \notin BlankMessage
<1>0. pc \in [Holder -> Stages]
  BY DEF PipelineTypeOK
<1>1. pc'[w] \in Holding /\ Kept(w)
  BY LocalsAreKept DEF Advancing, Holding
<1>2. CASE Acquire(w)
  BY <1>0, <1>2 DEF Acquire, Goto, Advancing, AdvanceStages
<1>3. CASE ~Acquire(w)
  <2>1. pc[w] \in Holding
    BY <1>1, <1>3, HoldingGoesOn
  <2>2. CASE pc[w] = "record"
    <3>1. Record(w)
      BY <2>2, FromRecord DEF Advancing, AdvanceStages
    <3>2. /\ pc'[w] = "route"
          /\ call[w].msg \notin recorded /\ call[w].msg \notin BlankMessage
      BY <1>0, <3>1 DEF Record, Goto, Advancing, AdvanceStages
    <3> QED
      BY <1>1, <3>1, <3>2 DEF Kept
  <2>3. CASE pc[w] = "release"
    BY <1>0, <2>3, FromRelease DEF ReleaseClaim, Goto, Advancing, AdvanceStages
  <2> QED
    BY <1>1, <2>1, <2>2, <2>3 DEF Kept, Holding, Advancing
<1> QED
  BY <1>2, <1>3

\* Only steps of a call, and a failing outcome, lead to a stage of advance().
LEMMA OthersLeave ==
    ASSUME PipelineTypeOK, NEW w \in Holder,
           \/ StartSweep(w) \/ Fault(w) \/ Crash(w)
           \/ \E m \in Message : Deliver(w, m),
           pc'[w] \in Holding
    PROVE  FailClaimed(w)
BY DEF PipelineTypeOK, StartSweep, Fault, Crash, Deliver, FailUnclaimed, FailRelease,
       FailDrain, ReturnUnclaimed, Answer, Goto, Holding, AdvanceStages

\* One worker moves, everybody else keeps the stage and the locals.
LEMMA OneMoves ==
    ASSUME PipelineTypeOK, NEW w \in Holder,
           \/ Step(w) \/ StartSweep(w) \/ Fault(w) \/ Crash(w)
           \/ \E m \in Message : Deliver(w, m)
    PROVE  /\ Next
           /\ \A u \in Holder \ {w} : pc'[u] = pc[u] /\ call'[u] = call[u]
<1>1. Next
  BY DEF Next
<1>2. Moved(w)
  BY <1>1, StepMoves, OtherMoves, StepUsesStore, OrderIdsGrow
<1> QED
  BY <1>1, <1>2 DEF Moved, Moves, PipelineTypeOK

\* Nobody advances a message that somebody else is advancing, one that has
\* its turn already, or one that was never recorded.
OneAdvance ==
    \A v, w \in Holder :
        pc[v] \in Advancing /\ pc[w] \in Advancing /\ call[v].msg = call[w].msg
            => v = w
TurnsAreRecorded == \A m \in Message : HasTurn(m) => m \in recorded
NoTurnYet == \A w \in Holder : pc[w] \in Unrouted => ~HasTurn(call[w].msg)
AdvanceInv == OneAdvance /\ TurnsAreRecorded /\ NoTurnYet

\* A message gets its turn in one place.
LEMMA OnlyAppendAppends ==
    ASSUME PipelineTypeOK, [Next]_vars, NEW m \in Message, HasTurn(m)', ~HasTurn(m)
    PROVE  \E w \in Holder : /\ AppendTurnIfNew(w) /\ pc[w] = "append"
                             /\ call[w].msg = m
<1>1. ~UNCHANGED turns
  BY DEF HasTurn, Transcript
<1>2. ASSUME NEW w \in Holder, AppendTurnIfNew(w), ~UNCHANGED turns
      PROVE pc[w] = "append" /\ call[w].msg = m
  <2>1. /\ pc[w] = "append" /\ call[w].conv \in Conv /\ call[w].msg \in Message
        /\ AppendTurn(call[w].conv, call[w].msg, call[w].recv)
    BY <1>2 DEF AppendTurnIfNew, At, storeVars, PipelineTypeOK, Assigned, WithSession
  <2>2. \A s \in Conv : Transcript(s)' \subseteq Transcript(s) \cup {call[w].msg}
    BY <2>1, TurnAppended DEF PipelineTypeOK
  <2> QED
    BY <2>1, <2>2 DEF HasTurn
<1>3. ASSUME NEW w \in Holder, Step(w), ~AppendTurnIfNew(w) PROVE UNCHANGED turns
  BY <1>3, StoreActions
     DEF Expire, Create, SaveDraft, CreateDraft, Mark, Outcomes, ExpireSession,
         CreateOpenSession, SaveAccumulatedDraft, InsertOrder, MarkDraftCreated,
         RecordOutcome, storeVars
<1>4. ASSUME NEW w \in Holder,
             \/ StartSweep(w) \/ Fault(w) \/ Crash(w)
             \/ \E n \in Message : Deliver(w, n)
      PROVE UNCHANGED turns
  BY <1>4, OtherActions DEF storeVars
<1>5. ~Clock /\ ~UNCHANGED vars
  BY <1>1 DEF Clock, OnlyClaim, storeVars, vars
<1>6. \E w \in Holder : AppendTurnIfNew(w)
  BY <1>1, <1>3, <1>4, <1>5 DEF Next
<1> QED
  BY <1>1, <1>2, <1>6

\* Nothing leads back from the later stages to the routing.
LEMMA NeverBack ==
    ASSUME PipelineTypeOK, NEW w \in Holder, Step(w) \/ FailClaimed(w),
           pc'[w] \in Unrouted, pc[w] \in Advancing
    PROVE  pc[w] \in Unrouted
<1> USE DEF At, Goto, Unrouted
<1>0. pc \in [Holder -> Stages]
  BY DEF PipelineTypeOK
<1>1. CASE \/ Acquire(w) \/ Defer(w) \/ Record(w) \/ ReleaseClaim(w)
           \/ DrainList(w) \/ DrainNext(w) \/ Retire(w)
  BY <1>1 DEF Acquire, Defer, Record, ReleaseClaim, DrainList, DrainNext, Retire,
              Advancing, AdvanceStages
<1>2. CASE Route(w) \/ GetOpen(w) \/ Reread(w) \/ Create(w) \/ Expire(w)
  BY <1>2 DEF Route, GetOpen, Reread, Create, Expire
<1>3. CASE AppendTurnIfNew(w)
  BY <1>3 DEF AppendTurnIfNew
<1>4. CASE \/ ListTurns(w) \/ MergeDraft(w) \/ Parse(w) \/ SaveDraft(w)
           \/ RenewClaim(w)
  BY <1>0, <1>4 DEF ListTurns, MergeDraft, Parse, SaveDraft, RenewClaim, Settle
<1>5. CASE \/ RecoverOrphan(w) \/ LookupOrder(w) \/ RecoverConflict(w)
           \/ CreateDraft(w)
  BY <1>0, <1>5 DEF RecoverOrphan, LookupOrder, RecoverConflict, CreateDraft, Adopt,
                    Raise
<1>6. CASE Link(w) \/ Mark(w) \/ Outcomes(w) \/ FailClaimed(w)
  BY <1>0, <1>6 DEF Link, Mark, Outcomes, FailClaimed, Conclude, Raise
<1> QED
  BY <1>1, <1>2, <1>3, <1>4, <1>5, <1>6 DEF Step

LEMMA AdvanceStep ==
    ASSUME PipelineInv, LedgerInv, AdvanceInv, [Next]_vars
    PROVE  AdvanceInv'
<1> USE DEF PipelineInv
<1>r. \A w \in Holder : pc[w] \in Advancing =>
         call[w].msg \in recorded /\ call[w].msg \in Message
  BY DEF LedgerInv, PastRecord, Advancing, Holding, AdvanceStages, PipelineTypeOK,
         Assigned
<1>g. recorded \subseteq recorded'
  BY OnlyRecordRecords
<1>1. TurnsAreRecorded'
  <2> SUFFICES ASSUME NEW m \in Message, HasTurn(m)' PROVE m \in recorded'
    BY DEF TurnsAreRecorded
  <2>1. CASE HasTurn(m)
    BY <1>g, <2>1 DEF AdvanceInv, TurnsAreRecorded
  <2>2. CASE ~HasTurn(m)
    BY <1>g, <1>r, <2>2, OnlyAppendAppends DEF Advancing, AdvanceStages
  <2> QED
    BY <2>1, <2>2
<1>2. ASSUME NEW w \in Holder,
             \/ Step(w) \/ StartSweep(w) \/ Fault(w) \/ Crash(w)
             \/ \E m \in Message : Deliver(w, m)
      PROVE OneAdvance' /\ NoTurnYet'
  <2>0. \A u \in Holder \ {w} : pc'[u] = pc[u] /\ call'[u] = call[u]
    BY <1>2, OneMoves
  <2>1. ASSUME pc'[w] \in Advancing
        PROVE  /\ call'[w].msg = call[w].msg
               /\ pc[w] \in Advancing \/ call[w].msg \notin recorded
    BY <1>2, <2>1, EntersAdvance, OthersLeave DEF Advancing, Holding
  <2>2. ASSUME NEW v \in Holder, NEW u \in Holder, v # u,
               pc'[v] \in Advancing, pc'[u] \in Advancing, call'[v].msg = call'[u].msg
        PROVE FALSE
    <3>1. \A x \in Holder, y \in Holder :
             x # y /\ pc[x] \in Advancing /\ call[x].msg = call[y].msg
                => pc[y] \notin Advancing
      BY DEF AdvanceInv, OneAdvance
    <3>2. CASE v = w
      BY <1>r, <2>0, <2>1, <2>2, <3>1, <3>2
    <3>3. CASE u = w
      BY <1>r, <2>0, <2>1, <2>2, <3>1, <3>3
    <3>4. CASE v # w /\ u # w
      BY <2>0, <2>2, <3>1, <3>4
    <3> QED
      BY <3>2, <3>3, <3>4
  <2>3. ASSUME NEW u \in Holder, pc'[u] \in Unrouted PROVE ~HasTurn(call[u].msg)'
    <3>1. /\ pc'[u] \in Advancing /\ call'[u].msg = call[u].msg
          /\ pc[u] \in Advancing \/ call[u].msg \notin recorded
      BY <2>0, <2>1, <2>3 DEF Unrouted, Advancing, AdvanceStages
    <3>2. PICK m \in Message : m = call[u].msg
      <4>1. PipelineTypeOK'
        BY <1>2, OneMoves, PipelineTypeStep
      <4> QED
        BY <2>3, <3>1, <4>1 DEF PipelineTypeOK, Assigned, Unrouted
    <3>3. ~HasTurn(m)
      <4>1. CASE m \notin recorded
        BY <4>1 DEF AdvanceInv, TurnsAreRecorded
      <4>2. CASE pc[u] \in Unrouted
        BY <3>2, <4>2 DEF AdvanceInv, NoTurnYet
      <4>3. CASE pc[u] \in Advancing \ Unrouted
        <5>1. u = w /\ (Step(w) \/ FailClaimed(w))
          BY <1>2, <2>0, <2>3, <4>3, OthersLeave DEF Unrouted, Holding, AdvanceStages
        <5> QED
          BY <2>3, <4>3, <5>1, NeverBack
      <4> QED
        BY <3>1, <3>2, <4>1, <4>2, <4>3
    <3>4. ~HasTurn(m)'
      <4> SUFFICES ASSUME HasTurn(m)' PROVE FALSE
        OBVIOUS
      <4>1. PICK v \in Holder : /\ AppendTurnIfNew(v) /\ pc[v] = "append"
                                /\ call[v].msg = m
        BY <1>2, <3>3, OnlyAppendAppends, OneMoves
      <4>2. pc[v] \in Advancing /\ m \in recorded
        BY <1>r, <4>1 DEF Advancing, AdvanceStages
      <4>3. v = u
        BY <3>1, <3>2, <4>1, <4>2 DEF AdvanceInv, OneAdvance
      <4> QED
        BY <2>3, <4>1, <4>3 DEF AppendTurnIfNew, Settle, Goto, PipelineTypeOK, Unrouted
    <3> QED
      BY <3>1, <3>2, <3>4 DEF HasTurn, Transcript
  <2> QED
    BY <2>2, <2>3 DEF OneAdvance, NoTurnYet
<1>3. CASE Clock \/ UNCHANGED vars
  <2>1. UNCHANGED <<pc, call, turns>>
    BY <1>3 DEF Clock, OnlyClaim, storeVars, workerVars, vars
  <2> QED
    BY <1>1, <2>1 DEF AdvanceInv, OneAdvance, NoTurnYet, HasTurn, Transcript
<1> QED
  BY <1>1, <1>2, <1>3 DEF Next, AdvanceInv

\* Hence no message is advanced twice, whoever delivers or replays it again.
LEMMA AdvanceInvariant == Spec => []AdvanceInv
<1>1. PipelineInit => AdvanceInv
  BY DEF PipelineInit, StoreInit, AdvanceInv, OneAdvance, TurnsAreRecorded, NoTurnYet,
         HasTurn, Transcript, Unrouted, Advancing, AdvanceStages
<1>2. PipelineInv /\ LedgerInv /\ AdvanceInv /\ [Next]_vars => AdvanceInv'
  BY AdvanceStep
<1> QED
  BY <1>1, <1>2, PipelineInvariant, LedgerInvariant, PTL DEF Spec

----------------------------------------------------------------------------
(* What is linked belongs together                                         *)

\* The stages after the message got its turn, and the one that appends it.
Placing == (Advancing \ Unrouted) \cup {"append"}

\* The message of a call has its turn in the conversation of the call, and the
\* order the call goes on with is an order of that conversation.
Placed(w) ==
    /\ pc[w] \in Placing \ {"append"} =>
          call[w].conv \in Conv /\ call[w].msg \in Transcript(call[w].conv)
    /\ pc[w] \in Placing /\ call[w].order # None =>
          \E o \in OrdersOf(call[w].conv) : o.id = call[w].order

BelongInv == OrdersBelong /\ \A w \in Holder : Placed(w)

LEMMA MoverIsPlaced ==
    ASSUME PipelineInv, LedgerInv, AdvanceInv, BelongInv, NEW w \in Holder,
           Step(w) \/ FailClaimed(w), [Next]_vars, pc'[w] \in Placing
    PROVE  Placed(w)'
<1> USE DEF PipelineInv, At, Goto
<1>0. /\ pc \in [Holder -> Stages] /\ call \in [Holder -> Call] /\ call[w] \in Call
      /\ pc[w] \in WithSession => call[w].conv \in Conv
      /\ pc[w] \notin {"idle", "drainnext"} => call[w].msg \in Message
      /\ Placing \subseteq Advancing
  BY DEF PipelineTypeOK, Assigned, Placing, Unrouted, Advancing, AdvanceStages
<1>g. /\ orders \subseteq orders'
      /\ \A s \in Conv : Transcript(s) \subseteq Transcript(s)'
  BY StepUsesStore, StoreGrows DEF PipelineTypeOK
<1>m. call'[w].msg = call[w].msg
  BY <1>0, EntersAdvance
<1>p. Placed(w) /\ OrdersBelong
  BY DEF BelongInv
\* The conversation and the order are those the call had.
<1>k. ASSUME pc[w] \in Placing \ {"append"}, pc[w] \in WithSession, SameSession(w)
      PROVE Placed(w)'
  <2>1. call[w].conv \in Conv /\ call'[w].conv = call[w].conv
        /\ call'[w].order = call[w].order
    BY <1>0, <1>k DEF SameSession
  <2>2. call'[w].msg \in Transcript(call[w].conv)'
    BY <1>g, <1>k, <1>m, <1>p, <2>1 DEF Placed
  <2>3. call'[w].order # None =>
           \E o \in orders' : o.conv = call[w].conv /\ o.id = call'[w].order
    BY <1>g, <1>k, <1>p, <2>1 DEF Placed, OrdersOf
  <2> QED
    BY <2>1, <2>2, <2>3 DEF Placed, OrdersOf, Transcript
\* An order of the conversation is adopted.
<1>a. ASSUME pc[w] \in Placing \ {"append"}, pc[w] \in WithSession,
             NEW o \in orders', o.conv = call[w].conv, NEW out, Adopt(w, o.id, out)
      PROVE Placed(w)'
  <2>1. call[w].conv \in Conv /\ call'[w].conv = call[w].conv
        /\ call'[w].order = o.id
    BY <1>0, <1>a, AdoptLocals
  <2>2. call'[w].msg \in Transcript(call[w].conv)'
    BY <1>g, <1>a, <1>m, <1>p, <2>1 DEF Placed
  <2> QED
    BY <1>a, <2>1, <2>2 DEF Placed, OrdersOf, Transcript
\* A session is read before the turn is appended.
<1>r. ASSUME NEW s \in Conv, Read(w, s), pc'[w] = "append"
      PROVE Placed(w)'
  <2>1. call'[w].conv = s /\ call'[w].order = session[s].order
    BY <1>r, ReadLocals
  <2>2. session[s].order # None => \E o \in orders' : o.conv = s /\ o.id = session[s].order
    BY <1>g, <1>p DEF OrdersBelong, OrdersOf
  <2> QED
    BY <1>r, <2>1, <2>2 DEF Placed, OrdersOf
<1>1. CASE \/ Acquire(w) \/ Defer(w) \/ Record(w) \/ ReleaseClaim(w)
           \/ DrainList(w) \/ DrainNext(w) \/ Retire(w) \/ Expire(w) \/ Link(w)
  BY <1>0, <1>1
     DEF Acquire, Defer, Record, ReleaseClaim, DrainList, DrainNext, Retire, Expire,
         Link, ReturnUnclaimed, Answer, Placing, Unrouted, Advancing, AdvanceStages
<1>2. CASE Route(w) \/ GetOpen(w) \/ Reread(w)
  <2>1. PICK s \in Conv : Read(w, s) /\ pc'[w] \in {"append", "expire"}
    BY <1>0, <1>2
       DEF Route, GetOpen, Reread, LatestSessions, Routable, OpenSessions, Raise,
           Placing, Unrouted, Advancing, AdvanceStages
  <2> QED
    BY <1>r, <2>1 DEF Placing, Unrouted, Advancing, AdvanceStages
<1>3. CASE Create(w)
  <2>1. PICK s \in Conv :
           call' = [call EXCEPT ![w].conv = s, ![w].status = "open",
                                ![w].order = None] /\ pc'[w] = "append"
    BY <1>0, <1>3 DEF Create, Placing, Unrouted, Advancing, AdvanceStages
  <2>2. call'[w].order = None
    BY <2>1, CreateLocals
  <2> QED
    BY <2>1, <2>2 DEF Placed
<1>4. CASE AppendTurnIfNew(w)
  <2>1. /\ pc[w] = "append" /\ call[w].conv \in Conv /\ call[w].msg \in Message
        /\ ~HasTurn(call[w].msg)
    BY <1>0, <1>4 DEF AppendTurnIfNew, AdvanceInv, NoTurnYet, Unrouted, WithSession
  <2>2. PICK s \in Conv : s = call[w].conv
    BY <2>1
  <2>3. SameSession(w)
    BY <1>4, <2>1, OtherLocals DEF AppendTurnIfNew
  <2>4. call[w].msg \in Transcript(s)'
    <3>1. AppendTurn(s, call[w].msg, call[w].recv)
      BY <1>4, <2>1, <2>2 DEF AppendTurnIfNew
    <3> QED
      BY <2>1, <3>1, TurnAppended DEF PipelineTypeOK
  <2>5. call'[w].order # None =>
           \E o \in orders' : o.conv = s /\ o.id = call'[w].order
    BY <1>g, <1>p, <2>1, <2>2, <2>3 DEF Placed, OrdersOf, Placing, SameSession
  <2> QED
    BY <1>m, <2>2, <2>3, <2>4, <2>5 DEF Placed, OrdersOf, Transcript, SameSession
<1>5. CASE \/ ListTurns(w) \/ MergeDraft(w) \/ Parse(w) \/ SaveDraft(w)
           \/ RenewClaim(w)
  <2>1. pc[w] \in {"list", "getdraft", "parse", "save", "renew"}
    BY <1>5 DEF ListTurns, MergeDraft, Parse, SaveDraft, RenewClaim
  <2>2. SameSession(w)
    BY <1>5, OtherLocals DEF ListTurns, MergeDraft, Parse, SaveDraft, RenewClaim
  <2> QED
    BY <1>k, <2>1, <2>2 DEF Placing, Unrouted, Advancing, AdvanceStages, WithSession
<1>6. CASE RecoverOrphan(w) \/ LookupOrder(w) \/ RecoverConflict(w) \/ CreateDraft(w)
  <2>1. pc[w] \in {"orphan", "lookup", "conflict", "createdraft"}
    BY <1>6 DEF RecoverOrphan, LookupOrder, RecoverConflict, CreateDraft
  <2>2. pc[w] \in Placing \ {"append"} /\ pc[w] \in WithSession
    BY <2>1 DEF Placing, Unrouted, Advancing, AdvanceStages, WithSession
  <2>3. CASE SameSession(w)
    BY <1>k, <2>2, <2>3
  <2>4. ASSUME NEW o \in OrdersOf(call[w].conv), Adopt(w, o.id, "already_has_draft")
        PROVE Placed(w)'
    BY <1>a, <1>g, <2>2, <2>4 DEF OrdersOf
  <2>5. ASSUME NEW o \in OrderId, InsertOrder(o, call[w].conv, call[w].draft),
               Adopt(w, o, "draft_created")
        PROVE Placed(w)'
    <3> DEFINE p == [id |-> o, conv |-> call[w].conv, covers |-> call[w].draft]
    <3>1. p \in orders' /\ p.id = o /\ p.conv = call[w].conv
      BY <2>5 DEF InsertOrder
    <3> HIDE DEF p
    <3> QED
      BY <1>a, <2>2, <2>5, <3>1
  <2>6. CASE UNCHANGED call \/ Raise(w) \/ call' = [call EXCEPT ![w].reply = "processed"]
    BY <2>3, <2>6, OtherLocals
  <2> QED
    BY <1>6, <2>4, <2>5, <2>6
       DEF RecoverOrphan, LookupOrder, RecoverConflict, CreateDraft
<1>7. CASE Mark(w) \/ Outcomes(w) \/ FailClaimed(w)
  <2>1. SameSession(w)
    BY <1>7, OtherLocals DEF Mark, Outcomes, FailClaimed
  <2>2. pc[w] \in {"mark", "outcome"}
    BY <1>0, <1>7, OtherLocals
       DEF Mark, Outcomes, FailClaimed, Placing, Unrouted, Advancing, AdvanceStages
  <2> QED
    BY <1>k, <2>1, <2>2 DEF Placing, Unrouted, Advancing, AdvanceStages, WithSession
<1> QED
  BY <1>1, <1>2, <1>3, <1>4, <1>5, <1>6, <1>7 DEF Step

\* Sessions are linked by Mark alone, messages by Link alone.
LEMMA OnlyMarkLinks ==
    ASSUME PipelineTypeOK, [Next]_vars, NEW s \in Conv,
           session'[s].order # session[s].order, session'[s].order # None
    PROVE  \E w \in Holder : /\ Mark(w) /\ pc[w] = "mark"
                             /\ MarkDraftCreated(call[w].conv, call[w].order)
                             /\ call[w].conv = s /\ call[w].order = session'[s].order
<1>0. session \in [Conv -> Session \cup {NoSession}]
  BY DEF PipelineTypeOK, StoreTypeOK
<1>s. ASSUME NEW r \in Conv,
             \/ \E c, t : CreateOpenSession(r, c, t)
             \/ \E m, t : AppendTurn(r, m, t)
             \/ ExpireSession(r)
             \/ \E out : RecordOutcome(r, out)
             \/ \E M : SaveAccumulatedDraft(r, M)
             \/ \E o, M : InsertOrder(o, r, M)
             \/ UNCHANGED storeVars
      PROVE FALSE
  <2> USE DEF Session, NoSession, Exists
  <2>1. CASE \E c, t : CreateOpenSession(r, c, t)
    BY <1>0, <2>1 DEF CreateOpenSession
  <2>2. CASE \E m, t : AppendTurn(r, m, t)
    BY <1>0, <2>2 DEF AppendTurn
  <2>3. CASE ExpireSession(r) \/ \E out : RecordOutcome(r, out)
    BY <1>0, <2>3 DEF ExpireSession, RecordOutcome
  <2>4. CASE UNCHANGED session
    BY <2>4
  <2> QED
    BY <1>s, <2>1, <2>2, <2>3, <2>4 DEF SaveAccumulatedDraft, InsertOrder, storeVars
<1>1. ASSUME NEW w \in Holder, Mark(w)
      PROVE /\ pc[w] = "mark"
            /\ MarkDraftCreated(call[w].conv, call[w].order)
            /\ call[w].conv = s /\ call[w].order = session'[s].order
  <2>1. pc[w] = "mark" /\ call[w].conv \in Conv
    BY <1>1 DEF Mark, At, PipelineTypeOK, Assigned, WithSession
  <2>2. MarkDraftCreated(call[w].conv, call[w].order)
    BY <1>1, <1>s, <2>1 DEF Mark
  <2> QED
    BY <1>0, <2>1, <2>2 DEF MarkDraftCreated, Session, NoSession, Exists
<1>2. ASSUME NEW w \in Holder, Step(w), ~Mark(w) PROVE FALSE
  <2>0. \/ pc[w] \in WithSession /\ call[w].conv \in Conv
        \/ pc[w] \notin WithSession
    BY DEF PipelineTypeOK, Assigned
  <2>1. CASE Expire(w) \/ AppendTurnIfNew(w) \/ SaveDraft(w) \/ CreateDraft(w) \/ Outcomes(w)
    BY <1>s, <2>0, <2>1
       DEF Expire, AppendTurnIfNew, SaveDraft, CreateDraft, Outcomes, At, WithSession
  <2>2. CASE Create(w)
    BY <1>s, <2>2 DEF Create
  <2>3. CASE UNCHANGED storeVars
    BY <1>s, <2>3
  <2> QED
    BY <1>2, <2>1, <2>2, <2>3, StoreActions
<1>3. ASSUME NEW w \in Holder,
             \/ StartSweep(w) \/ Fault(w) \/ Crash(w)
             \/ \E m \in Message : Deliver(w, m)
      PROVE FALSE
  BY <1>3, <1>s, OtherActions
<1>4. ~Clock /\ ~UNCHANGED vars
  BY <1>s DEF Clock, OnlyClaim, vars
<1>5. \E w \in Holder : Mark(w)
  BY <1>2, <1>3, <1>4 DEF Next
<1> QED
  BY <1>1, <1>5

LEMMA OnlyLinkResults ==
    ASSUME [Next]_vars
    PROVE  UNCHANGED resulting \/ \E w \in Holder : Link(w)
<1> USE DEF ledgerVars, OnlyWorkers, OnlyClaim, OnlyStore
<1>1. ASSUME NEW w \in Holder, Step(w)
      PROVE Link(w) \/ UNCHANGED resulting
  <2>1. CASE Defer(w) \/ Record(w) \/ DrainNext(w) \/ Retire(w)
    BY <2>1 DEF Defer, Record, DrainNext, Retire
  <2>2. CASE Acquire(w) \/ ReleaseClaim(w) \/ RenewClaim(w)
    BY <2>2 DEF Acquire, ReleaseClaim, RenewClaim
  <2>3. CASE \/ DrainList(w) \/ Route(w) \/ GetOpen(w) \/ Reread(w)
             \/ RecoverOrphan(w) \/ ListTurns(w) \/ Parse(w) \/ MergeDraft(w)
             \/ LookupOrder(w) \/ RecoverConflict(w)
    BY <2>3 DEF DrainList, Route, GetOpen, Reread, RecoverOrphan, ListTurns,
                Parse, MergeDraft, LookupOrder, RecoverConflict
  <2>4. CASE \/ Expire(w) \/ Create(w) \/ AppendTurnIfNew(w) \/ SaveDraft(w)
             \/ CreateDraft(w) \/ Mark(w) \/ Outcomes(w)
    BY <2>4 DEF Expire, Create, AppendTurnIfNew, SaveDraft, CreateDraft,
                Mark, Outcomes
  <2> QED
    BY <1>1, <2>1, <2>2, <2>3, <2>4 DEF Step
<1>2. ASSUME NEW w \in Holder,
             \/ StartSweep(w) \/ Fault(w) \/ Crash(w)
             \/ \E m \in Message : Deliver(w, m)
      PROVE UNCHANGED resulting
  BY <1>2 DEF StartSweep, Fault, FailUnclaimed, FailClaimed, FailRelease, FailDrain,
              Crash, Deliver
<1>3. CASE Clock \/ UNCHANGED vars
  BY <1>3 DEF Clock, vars
<1> QED
  BY <1>1, <1>2, <1>3 DEF Next

LEMMA BelongStep ==
    ASSUME PipelineInv, LedgerInv, AdvanceInv, BelongInv, [Next]_vars
    PROVE  BelongInv'
<1> USE DEF PipelineInv
<1>0. /\ resulting \in [Message -> OrderId \cup {None}]
      /\ call \in [Holder -> Call]
  BY DEF PipelineTypeOK
<1>g. /\ orders \subseteq orders'
      /\ \A s \in Conv : Transcript(s) \subseteq Transcript(s)'
      /\ \A o \in orders : o.conv \in Conv
  BY StepUsesStore, StoreGrows DEF PipelineTypeOK, StoreTypeOK, Order
<1>p. OrdersBelong /\ \A w \in Holder : Placed(w)
  BY DEF BelongInv
<1>1. ASSUME NEW s \in Conv, session'[s].order # None
      PROVE \E o \in orders' : o.conv = s /\ o.id = session'[s].order
  <2>1. CASE session'[s].order = session[s].order
    BY <1>1, <1>g, <1>p, <2>1 DEF OrdersBelong, OrdersOf
  <2>2. CASE session'[s].order # session[s].order
    <3>1. PICK w \in Holder : /\ Mark(w) /\ pc[w] = "mark"
                              /\ call[w].conv = s /\ call[w].order = session'[s].order
      BY <1>1, <2>2, OnlyMarkLinks
    <3>2. \E o \in OrdersOf(call[w].conv) : o.id = call[w].order
      BY <1>1, <1>p, <3>1 DEF Placed, Placing, Unrouted, Advancing, AdvanceStages
    <3> QED
      BY <1>g, <3>1, <3>2 DEF OrdersOf
  <2> QED
    BY <2>1, <2>2
<1>2. ASSUME NEW m \in Message, resulting'[m] # None
      PROVE \E o \in orders' : o.id = resulting'[m] /\ m \in Transcript(o.conv)'
  <2>1. CASE resulting'[m] = resulting[m]
    <3>1. PICK o \in orders : o.id = resulting[m] /\ m \in Transcript(o.conv)
      BY <1>2, <1>p, <2>1 DEF OrdersBelong
    <3> QED
      BY <1>g, <2>1, <3>1
  <2>2. CASE resulting'[m] # resulting[m]
    <3>1. PICK w \in Holder : Link(w)
      BY <2>2, OnlyLinkResults
    <3>2. call[w].msg = m /\ resulting'[m] = call[w].order /\ pc[w] = "link"
      BY <1>0, <2>2, <3>1 DEF Link, At
    <3>3. /\ m \in Transcript(call[w].conv)
          /\ \E o \in OrdersOf(call[w].conv) : o.id = call[w].order
      BY <1>2, <1>p, <3>2 DEF Placed, Placing, Unrouted, Advancing, AdvanceStages
    <3>4. PICK o \in orders : /\ o.conv = call[w].conv /\ o.id = resulting'[m]
                              /\ m \in Transcript(o.conv)
      BY <3>2, <3>3 DEF OrdersOf
    <3> QED
      BY <1>g, <3>4
  <2> QED
    BY <2>1, <2>2
<1>3. OrdersBelong'
  BY <1>1, <1>2 DEF OrdersBelong, OrdersOf
<1>4. ASSUME NEW u \in Holder, pc'[u] = pc[u], call'[u] = call[u] PROVE Placed(u)'
  <2>1. CASE pc[u] \in Placing
    <3>1. /\ pc[u] \in Placing \ {"append"} =>
                call[u].conv \in Conv /\ call[u].msg \in Transcript(call[u].conv)
          /\ call[u].order # None =>
                \E o \in orders : o.conv = call[u].conv /\ o.id = call[u].order
      BY <1>p, <2>1 DEF Placed, OrdersOf
    <3> QED
      BY <1>4, <1>g, <3>1 DEF Placed, OrdersOf
  <2>2. CASE pc[u] \notin Placing
    BY <1>4, <2>2 DEF Placed
  <2> QED
    BY <2>1, <2>2
<1>5. ASSUME NEW w \in Holder,
             \/ Step(w) \/ StartSweep(w) \/ Fault(w) \/ Crash(w)
             \/ \E m \in Message : Deliver(w, m),
             NEW u \in Holder
      PROVE Placed(u)'
  <2>1. CASE u # w
    BY <1>4, <1>5, <2>1, OneMoves
  <2>2. CASE u = w /\ pc'[w] \in Placing
    <3>1. pc'[w] \in Holding
      BY <2>2 DEF Placing, Unrouted, Advancing, Holding, AdvanceStages
    <3> QED
      BY <1>5, <2>2, <3>1, OthersLeave, OneMoves, MoverIsPlaced
  <2>3. CASE u = w /\ pc'[w] \notin Placing
    BY <2>3 DEF Placed
  <2> QED
    BY <2>1, <2>2, <2>3
<1>6. CASE Clock \/ UNCHANGED vars
  <2>1. UNCHANGED <<pc, call>>
    BY <1>6 DEF Clock, workerVars, vars
  <2> QED
    BY <1>3, <1>4, <2>1 DEF BelongInv
<1> QED
  BY <1>3, <1>5, <1>6 DEF Next, BelongInv

LEMMA BelongInvariant == Spec => []BelongInv
<1>1. PipelineInit => BelongInv
  BY DEF PipelineInit, StoreInit, NoSession, BelongInv, OrdersBelong, Placed, Placing,
         Unrouted, Advancing, AdvanceStages
<1>2. PipelineInv /\ LedgerInv /\ AdvanceInv /\ BelongInv /\ [Next]_vars => BelongInv'
  BY BelongStep
<1> QED
  BY <1>1, <1>2, PipelineInvariant, LedgerInvariant, AdvanceInvariant, PTL DEF Spec

\* A session is linked to an order of its own conversation, and a message to
\* the order of the conversation that holds its turn, however slow statements
\* are and whatever fails: what a call links it found, or made, for the
\* conversation in which its own turn is.
THEOREM OrdersBelongAlways == Spec => []OrdersBelong
BY BelongInvariant, PTL DEF BelongInv

----------------------------------------------------------------------------
(* Where the order of a crashed call is found again                        *)

\* The conversation of a call exists, and so does that of every order.
SessionsExist ==
    /\ \A o \in orders : Exists(o.conv)
    /\ \A w \in Holder : pc[w] \in WithSession => Exists(call[w].conv)

\* A call has the conversation it had, or one that it just read or created.
LEMMA FindsSession ==
    ASSUME PipelineTypeOK, NEW w \in Holder, Step(w) \/ FailClaimed(w),
           pc'[w] \in WithSession
    PROVE  \/ pc[w] \in WithSession /\ call'[w].conv = call[w].conv
           \/ \E s \in Conv : call'[w].conv = s /\ Exists(s)'
<1> USE DEF At, Goto
<1>0. pc \in [Holder -> Stages] /\ call \in [Holder -> Call]
      /\ session \in [Conv -> Session \cup {NoSession}]
  BY DEF PipelineTypeOK, StoreTypeOK
<1>1. CASE \/ Acquire(w) \/ Defer(w) \/ Record(w) \/ ReleaseClaim(w)
           \/ DrainList(w) \/ DrainNext(w) \/ Retire(w) \/ Expire(w) \/ Link(w)
  BY <1>0, <1>1
     DEF Acquire, Defer, Record, ReleaseClaim, DrainList, DrainNext, Retire, Expire,
         Link, ReturnUnclaimed, Answer, WithSession
<1>2. CASE Route(w) \/ GetOpen(w) \/ Reread(w)
  <2>1. PICK s \in Conv : Read(w, s) /\ Exists(s)
    BY <1>0, <1>2 DEF Route, GetOpen, Reread, LatestSessions, Routable, OpenSessions,
                      Raise, Exists, WithSession
  <2>2. Exists(s)'
    BY <1>2, <2>1 DEF Route, GetOpen, Reread, OnlyWorkers, storeVars, Exists
  <2> QED
    BY <2>1, <2>2, ReadLocals
<1>3. CASE Create(w)
  <2>1. PICK s \in Conv :
           /\ CreateOpenSession(s, Who(w), call[w].recv)
           /\ call' = [call EXCEPT ![w].conv = s, ![w].status = "open",
                                   ![w].order = None]
    BY <1>0, <1>3 DEF Create, WithSession
  <2>2. Exists(s)'
    BY <1>0, <2>1 DEF CreateOpenSession, Exists
  <2> QED
    BY <2>1, <2>2, CreateLocals
<1>4. CASE \/ AppendTurnIfNew(w) \/ ListTurns(w) \/ MergeDraft(w) \/ Parse(w)
           \/ SaveDraft(w) \/ RenewClaim(w)
  BY <1>4, OtherLocals
     DEF AppendTurnIfNew, ListTurns, MergeDraft, Parse, SaveDraft, RenewClaim,
         SameSession, WithSession
<1>5. CASE RecoverOrphan(w) \/ LookupOrder(w) \/ RecoverConflict(w) \/ CreateDraft(w)
  BY <1>5, OtherLocals, AdoptLocals
     DEF RecoverOrphan, LookupOrder, RecoverConflict, CreateDraft, SameSession,
         WithSession
<1>6. CASE Mark(w) \/ Outcomes(w) \/ FailClaimed(w)
  BY <1>0, <1>6, OtherLocals
     DEF Mark, Outcomes, FailClaimed, SameSession, WithSession
<1> QED
  BY <1>1, <1>2, <1>3, <1>4, <1>5, <1>6 DEF Step

\* An order is inserted in one place, for the conversation of its call.
LEMMA OnlyCreateDraftInserts ==
    ASSUME PipelineTypeOK, [Next]_vars, NEW o \in orders', o \notin orders
    PROVE  \E w \in Holder : /\ CreateDraft(w) /\ pc[w] = "createdraft"
                             /\ OrdersOf(call[w].conv) = {}
                             /\ o.conv = call[w].conv /\ o.covers = call[w].draft
                             /\ storeVars' = <<session, turns, covered, orders'>>
<1>1. ASSUME NEW w \in Holder, CreateDraft(w)
      PROVE /\ pc[w] = "createdraft" /\ OrdersOf(call[w].conv) = {}
            /\ o.conv = call[w].conv /\ o.covers = call[w].draft
            /\ storeVars' = <<session, turns, covered, orders'>>
  <2>1. PICK i \in OrderId : InsertOrder(i, call[w].conv, call[w].draft)
    BY <1>1 DEF CreateDraft, storeVars
  <2>2. o = [id |-> i, conv |-> call[w].conv, covers |-> call[w].draft]
    BY <2>1 DEF InsertOrder
  <2> QED
    BY <1>1, <2>1, <2>2 DEF CreateDraft, At, InsertOrder, storeVars
<1>2. ASSUME NEW w \in Holder, Step(w), ~CreateDraft(w) PROVE UNCHANGED orders
  BY <1>2, StoreActions
     DEF Expire, Create, SaveDraft, AppendTurnIfNew, Mark, Outcomes, ExpireSession,
         CreateOpenSession, SaveAccumulatedDraft, AppendTurn, MarkDraftCreated,
         RecordOutcome, storeVars
<1>3. ASSUME NEW w \in Holder,
             \/ StartSweep(w) \/ Fault(w) \/ Crash(w)
             \/ \E n \in Message : Deliver(w, n)
      PROVE UNCHANGED orders
  BY <1>3, OtherActions DEF storeVars
<1>4. ~Clock /\ ~UNCHANGED vars
  BY DEF Clock, OnlyClaim, storeVars, vars
<1>5. \E w \in Holder : CreateDraft(w)
  BY <1>2, <1>3, <1>4 DEF Next
<1> QED
  BY <1>1, <1>5

LEMMA SessionsExistStep ==
    ASSUME PipelineInv, SessionsExist, [Next]_vars
    PROVE  SessionsExist'
<1> USE DEF PipelineInv
<1>g. \A s \in Conv : Exists(s) => Exists(s)'
  BY StepUsesStore, StoreGrows DEF PipelineTypeOK
<1>c. /\ \A o \in orders : o.conv \in Conv
      /\ \A w \in Holder : pc[w] \in WithSession => call[w].conv \in Conv
  BY DEF PipelineTypeOK, StoreTypeOK, Order, Assigned
<1>1. ASSUME NEW o \in orders' PROVE Exists(o.conv)'
  <2>1. CASE o \in orders
    BY <1>g, <1>c, <2>1 DEF SessionsExist
  <2>2. CASE o \notin orders
    <3>1. PICK w \in Holder : pc[w] = "createdraft" /\ o.conv = call[w].conv
      BY <2>2, OnlyCreateDraftInserts
    <3>2. o.conv \in Conv /\ Exists(o.conv)
      BY <1>c, <3>1 DEF SessionsExist, WithSession
    <3> QED
      BY <1>g, <3>2
  <2> QED
    BY <2>1, <2>2
<1>2. ASSUME NEW u \in Holder, pc'[u] = pc[u], call'[u] = call[u],
             pc'[u] \in WithSession
      PROVE session'[call'[u].conv].status # "absent"
  BY <1>2, <1>g, <1>c DEF SessionsExist, Exists
<1>3. ASSUME NEW w \in Holder,
             \/ Step(w) \/ StartSweep(w) \/ Fault(w) \/ Crash(w)
             \/ \E m \in Message : Deliver(w, m),
             NEW u \in Holder, pc'[u] \in WithSession
      PROVE session'[call'[u].conv].status # "absent"
  <2>1. CASE u # w
    BY <1>2, <1>3, <2>1, OneMoves
  <2>2. CASE u = w
    <3>1. Step(w) \/ FailClaimed(w)
      BY <1>3, <2>2, OthersLeave DEF WithSession, Holding, AdvanceStages
    <3> QED
      BY <1>3, <1>g, <1>c, <2>2, <3>1, FindsSession DEF SessionsExist, Exists
  <2> QED
    BY <2>1, <2>2
<1>4. CASE Clock \/ UNCHANGED vars
  <2>1. UNCHANGED <<pc, call>>
    BY <1>4 DEF Clock, workerVars, vars
  <2> QED
    BY <1>1, <1>2, <2>1 DEF SessionsExist, Exists
<1> QED
  BY <1>1, <1>3, <1>4 DEF Next, SessionsExist, Exists

LEMMA SessionsExistInvariant == Spec => []SessionsExist
<1>1. PipelineInit => SessionsExist
  BY DEF PipelineInit, StoreInit, SessionsExist, WithSession
<1>2. PipelineInv /\ SessionsExist /\ [Next]_vars => SessionsExist'
  BY SessionsExistStep
<1> QED
  BY <1>1, <1>2, PipelineInvariant, PTL DEF Spec

\* An order is linked from its session, or its session is open, or was
\* expired.
LinkedOpenOrExpired ==
    \A o \in orders :
        session[o.conv].order # o.id => session[o.conv].status \in {"open", "expired"}

LEMMA DraftSessionsAreLinked ==
    ASSUME PipelineTypeOK, SessionsExist, OrdersBelong, OneOrderPerConversation,
           StatusMatchesLink
    PROVE  LinkedOpenOrExpired
<1> SUFFICES ASSUME NEW o \in orders, session[o.conv].order # o.id,
                    session[o.conv].status \notin {"open", "expired"}
             PROVE FALSE
  BY DEF LinkedOpenOrExpired
<1>1. PICK s \in Conv : s = o.conv
  BY DEF PipelineTypeOK, StoreTypeOK, Order
<1>a. session[s] \in Session \cup {NoSession}
  BY DEF PipelineTypeOK, StoreTypeOK
<1>b. session[s] \in Session
  BY <1>1, <1>a DEF SessionsExist, Exists, NoSession
<1>c. session[s].status = "draft_created"
  BY <1>1, <1>b DEF Session
<1>3. session[s].order \in OrderIds
  BY <1>c DEF StatusMatchesLink
<1>4. session[s].order # None
  BY <1>3, PipelineAssumption DEF OrderIds, PipelineTypeOK, StoreTypeOK, Order
<1>5. PICK p \in orders : p.conv = s /\ p.id = session[s].order
  BY <1>4 DEF OrdersBelong, OrdersOf
<1> QED
  BY <1>1, <1>5 DEF OneOrderPerConversation

\* What a call that was cut off leaves behind is at worst an order whose
\* session is still open, where the next message finds it, or one whose
\* session was expired in between.
LEMMA CutOffOrders == Spec => []LinkedOpenOrExpired
BY DraftSessionsAreLinked, PipelineTypeCorrect, SessionsExistInvariant,
   OrdersBelongAlways, TablesKeepTheirPromises, PTL

----------------------------------------------------------------------------
(* The conversation of a call that owns its customer.                      *)
(*                                                                         *)
(* From here on statements are faster than the lease.  A worker that       *)
(* writes a conversation then holds the claim row of the conversation's    *)
(* customer, so nobody else writes a conversation of that customer, and    *)
(* what the worker read of it stays true until it writes.                  *)

Owns(w) == claim[Who(w)].holder = w
Owned(w) == pc[w] \in Holding /\ Owns(w)

WritersOwn == \A w \in Holder : pc[w] \in Writing \cup {"record"} => Owns(w)

LEMMA WritersOwnAlways ==
    ASSUME ~SlowWrites
    PROVE  Spec => []WritersOwn
<1>1. PipelineInit => WritersAreLeased
  BY DEF PipelineInit, WritersAreLeased, Writing, AdvanceStages
<1>2. PipelineInv /\ WritersAreLeased /\ [Next]_vars => WritersAreLeased'
  BY LeasedStep
<1>3. PipelineInv /\ WritersAreLeased /\ BeliefIsTheRow => WritersOwn
  <2> SUFFICES ASSUME PipelineInv, WritersAreLeased, BeliefIsTheRow,
                      NEW w \in Holder, pc[w] \in Writing \cup {"record"}
               PROVE Owns(w)
    BY DEF WritersOwn
  <2>1. Who(w) \in Customer
    BY PipelineAssumption
       DEF PipelineInv, PipelineTypeOK, Assigned, Who, Writing, AdvanceStages
  <2> QED
    BY <2>1 DEF WritersAreLeased, BeliefIsTheRow, Owns
<1>4. Spec => []BeliefIsTheRow
  BY ClaimsAreUsedProperly, BeliefIsInductive, PTL DEF UsesClaims
<1> QED
  BY <1>1, <1>2, <1>3, <1>4, PipelineInvariant, PTL DEF Spec

\* A call that owns its customer after a step owned it before, unless the
\* step was its acquisition.
LEMMA OwnedBefore ==
    ASSUME PipelineInv, [Next]_vars, NEW u \in Holder, Owned(u)'
    PROVE  \/ Acquire(u) /\ pc'[u] = "record"
           \/ Owned(u) /\ Who(u)' = Who(u)
<1> USE DEF PipelineInv
<1>0. /\ pc \in [Holder -> Stages] /\ call \in [Holder -> Call]
      /\ claim \in [Customer -> [holder : Holder \cup {None}, expires : Nat]]
      /\ \A w \in Holder : pc[w] \notin {"idle", "drainnext"} => Who(w) \in Customer
      /\ Holding \cap {"idle", "drainnext", "acquire", "defer"} = {}
      /\ u # None
  BY PipelineAssumption, ClaimAssumption
     DEF PipelineTypeOK, ClaimTypeOK, Assigned, Who, Holding, AdvanceStages
<1>c. ASSUME NEW c \in Customer, claim'[c].holder = u,
             NEW w \in Holder, NEW d \in Customer,
             \/ w # u /\ TryAcquire(w, d)
             \/ Renew(w, d) \/ RenewLost(w, d) \/ Release(w, d)
             \/ Abandon(w) \/ UNCHANGED claim
      PROVE claim[c].holder = u
  BY <1>0, <1>c
     DEF TryAcquire, Renew, RenewLost, Release, Abandon, Granted, NoClaim
<1>s. ASSUME NEW w \in Holder, Step(w)
      PROVE \/ UNCHANGED claimVars
            \/ /\ Who(w) \in Customer
               /\ \/ Acquire(w) /\ TryAcquire(w, Who(w))
                  \/ Renew(w, Who(w)) \/ RenewLost(w, Who(w)) \/ Release(w, Who(w))
  BY <1>0, <1>s, ClaimActions DEF Acquire, RenewClaim, ReleaseClaim, At
<1>1. CASE pc'[u] = pc[u] /\ call'[u] = call[u] /\ claim'[Who(u)].holder = claim[Who(u)].holder
  BY <1>1 DEF Owned, Owns, Who
<1>2. ASSUME NEW w \in Holder,
             \/ Step(w) \/ StartSweep(w) \/ Fault(w) \/ Crash(w)
             \/ \E m \in Message : Deliver(w, m)
      PROVE \/ Acquire(u) /\ pc'[u] = "record"
            \/ Owned(u) /\ Who(u)' = Who(u)
  <2>1. CASE w # u
    <3>1. pc'[u] = pc[u] /\ Who(u)' = Who(u)
      BY <1>2, <2>1, OneMoves DEF Who
    <3>2. Who(u) \in Customer /\ claim'[Who(u)].holder = u
      BY <1>0, <3>1 DEF Owned, Owns
    <3>3. claim[Who(u)].holder = u
      BY <1>2, <1>c, <1>s, <2>1, <3>2, OtherActions DEF claimVars
    <3> QED
      BY <3>1, <3>3 DEF Owned, Owns
  <2>2. CASE w = u /\ Acquire(u)
    BY <1>0, <2>2 DEF Acquire, Goto, Owned
  <2>3. CASE w = u /\ ~Acquire(u)
    <3>1. Step(u) \/ FailClaimed(u)
      BY <1>2, <2>3, OthersLeave DEF Owned
    <3>2. pc[u] \in Holding /\ Who(u)' = Who(u)
      BY <2>3, <3>1, HoldingGoesOn DEF Owned
    <3>3. Who(u) \in Customer /\ claim'[Who(u)].holder = u
      BY <1>0, <3>2 DEF Owned, Owns
    <3>4. CASE Step(u)
      BY <1>c, <1>s, <2>3, <3>2, <3>3, <3>4 DEF claimVars, Owned, Owns
    <3>5. CASE FailClaimed(u)
      BY <3>2, <3>3, <3>5 DEF FailClaimed, OnlyWorkers, claimVars, Owned, Owns
    <3> QED
      BY <3>1, <3>4, <3>5
  <2> QED
    BY <2>1, <2>2, <2>3
<1>3. CASE Clock \/ UNCHANGED vars
  BY <1>1, <1>3 DEF Clock, Tick, workerVars, vars, claimVars
<1> QED
  BY <1>2, <1>3 DEF Next

\* The step leaves the conversation s as it is, its outcome and the time of
\* its last message excepted.
Untouched(s) ==
    /\ session'[s].customer = session[s].customer
    /\ session'[s].status = session[s].status
    /\ session'[s].order = session[s].order
    /\ turns'[s] = turns[s]
    /\ covered'[s] = covered[s]
    /\ {o \in orders' : o.conv = s} = OrdersOf(s)

\* The stages whose steps change the conversation of the call.
Changing == {"expire", "append", "save", "createdraft", "mark"}

\* A step touches no conversation, or that of its call, or it creates one.
LEMMA StepTouches ==
    ASSUME PipelineTypeOK, NEW w \in Holder, Step(w)
    PROVE  \/ \A s \in Conv : Untouched(s)
           \/ /\ pc[w] \in Changing /\ call[w].conv \in Conv
              /\ session'[call[w].conv].customer = session[call[w].conv].customer
              /\ \A s \in Conv \ {call[w].conv} : Untouched(s)
           \/ /\ Create(w) /\ pc[w] = "create"
              /\ \E s \in Conv : /\ CreateOpenSession(s, Who(w), call[w].recv)
                                 /\ \A r \in Conv \ {s} : Untouched(r)
<1> USE DEF At, Changing
<1>0. /\ session \in [Conv -> Session \cup {NoSession}]
      /\ turns \in [Conv -> Seq(Message)] /\ covered \in [Conv -> SUBSET Message]
      /\ pc[w] \in WithSession => call[w].conv \in Conv
  BY DEF PipelineTypeOK, StoreTypeOK, Assigned
<1>t. ASSUME NEW s \in Conv, Exists(s)
      PROVE session[s] \in Session
  BY <1>0, <1>t DEF Exists, NoSession
<1>u. UNCHANGED storeVars => \A s \in Conv : Untouched(s)
  BY DEF storeVars, Untouched, OrdersOf
<1>1. CASE Expire(w)
  <2>1. pc[w] = "expire" /\ call[w].conv \in Conv /\ ExpireSession(call[w].conv)
    BY <1>0, <1>1 DEF Expire, WithSession
  <2>2. session'[call[w].conv].customer = session[call[w].conv].customer
    BY <1>0, <1>t, <2>1 DEF ExpireSession, Session
  <2>3. \A s \in Conv \ {call[w].conv} : Untouched(s)
    BY <1>0, <2>1 DEF ExpireSession, Untouched, OrdersOf
  <2> QED
    BY <2>1, <2>2, <2>3
<1>2. CASE AppendTurnIfNew(w)
  <2>1. pc[w] = "append" /\ call[w].conv \in Conv
    BY <1>0, <1>2 DEF AppendTurnIfNew, WithSession
  <2>2. CASE AppendTurn(call[w].conv, call[w].msg, call[w].recv)
    <3>1. session'[call[w].conv].customer = session[call[w].conv].customer
      BY <1>0, <1>t, <2>1, <2>2 DEF AppendTurn, Session
    <3>2. \A s \in Conv \ {call[w].conv} : Untouched(s)
      BY <1>0, <2>1, <2>2 DEF AppendTurn, Untouched, OrdersOf
    <3> QED
      BY <2>1, <3>1, <3>2
  <2> QED
    BY <1>2, <1>u, <2>2 DEF AppendTurnIfNew
<1>3. CASE SaveDraft(w)
  <2>1. /\ pc[w] = "save" /\ call[w].conv \in Conv
        /\ SaveAccumulatedDraft(call[w].conv, call[w].draft)
    BY <1>0, <1>3 DEF SaveDraft, WithSession
  <2> QED
    BY <1>0, <2>1 DEF SaveAccumulatedDraft, Untouched, OrdersOf
<1>4. CASE CreateDraft(w)
  <2>1. pc[w] = "createdraft" /\ call[w].conv \in Conv
    BY <1>0, <1>4 DEF CreateDraft, WithSession
  <2>2. ASSUME NEW o \in OrderId, InsertOrder(o, call[w].conv, call[w].draft)
        PROVE \A s \in Conv \ {call[w].conv} : Untouched(s)
    <3>1. \A s \in Conv \ {call[w].conv} : {p \in orders' : p.conv = s} = OrdersOf(s)
      BY <2>2 DEF InsertOrder, OrdersOf
    <3> QED
      BY <2>2, <3>1 DEF InsertOrder, Untouched
  <2>3. ASSUME NEW o \in OrderId, InsertOrder(o, call[w].conv, call[w].draft)
        PROVE session' = session
    BY <2>3 DEF InsertOrder
  <2> QED
    BY <1>4, <1>u, <2>1, <2>2, <2>3 DEF CreateDraft
<1>5. CASE Mark(w)
  <2>1. pc[w] = "mark" /\ call[w].conv \in Conv
    BY <1>0, <1>5 DEF Mark, WithSession
  <2>2. CASE MarkDraftCreated(call[w].conv, call[w].order)
    <3>1. session'[call[w].conv].customer = session[call[w].conv].customer
      BY <1>0, <1>t, <2>1, <2>2 DEF MarkDraftCreated, Session
    <3>2. \A s \in Conv \ {call[w].conv} : Untouched(s)
      BY <1>0, <2>1, <2>2 DEF MarkDraftCreated, Untouched, OrdersOf
    <3> QED
      BY <2>1, <3>1, <3>2
  <2> QED
    BY <1>5, <1>u, <2>2 DEF Mark
<1>6. CASE Outcomes(w)
  <2>1. call[w].conv \in Conv /\ RecordOutcome(call[w].conv, call[w].outcome)
    BY <1>0, <1>6 DEF Outcomes, WithSession
  <2>2. session[call[w].conv] \in Session
    BY <1>t, <2>1 DEF RecordOutcome
  <2>3. Untouched(call[w].conv)
    <3>1. PICK r \in Session : r = session[call[w].conv]
      BY <2>2
    <3>2. session'[call[w].conv] = [r EXCEPT !.outcome = call[w].outcome]
      BY <1>0, <2>1, <3>1 DEF RecordOutcome
    <3>3. /\ session'[call[w].conv].customer = r.customer
          /\ session'[call[w].conv].status = r.status
          /\ session'[call[w].conv].order = r.order
      BY <3>2 DEF Session
    <3>4. UNCHANGED <<turns, covered, orders>>
      BY <2>1 DEF RecordOutcome
    <3> QED
      BY <3>1, <3>3, <3>4 DEF Untouched, OrdersOf
  <2>4. \A s \in Conv \ {call[w].conv} : Untouched(s)
    BY <1>0, <2>1 DEF RecordOutcome, Untouched, OrdersOf
  <2> QED
    BY <2>3, <2>4
<1>7. CASE Create(w)
  <2>1. ASSUME NEW s \in Conv, CreateOpenSession(s, Who(w), call[w].recv)
        PROVE \A r \in Conv \ {s} : Untouched(r)
    BY <1>0, <2>1 DEF CreateOpenSession, Untouched, OrdersOf
  <2> QED
    BY <1>7, <1>u, <2>1 DEF Create
<1> QED
  BY <1>1, <1>2, <1>3, <1>4, <1>5, <1>6, <1>7, <1>u, StoreActions

\* What a call that owns its customer knows of its conversation.
Drafting == {"parse", "renew", "getdraft", "save", "lookup", "createdraft"}
Sees(w) ==
    /\ pc[w] \in {"getopen", "create"} => Routable(Who(w)) = {}
    /\ pc[w] \notin {"reread", "conflict"}
    /\ pc[w] \in WithSession \ {"outcome"} =>
          /\ session[call[w].conv].customer = Who(w)
          /\ \/ session[call[w].conv].status = "open"
             \/ /\ pc[w] = "append"
                /\ session[call[w].conv].status = "draft_created"
                /\ call[w].status = "draft_created"
    /\ pc[w] \in Drafting => call[w].draft = Transcript(call[w].conv)
    /\ pc[w] = "createdraft" => OrdersOf(call[w].conv) = {}

DraftsAreCovered == \A s \in Conv : covered[s] \subseteq Transcript(s)

ViewInv ==
    /\ \A w \in Holder : Owned(w) => Sees(w)
    /\ OneRoutableSession
    /\ DraftsAreCovered

\* Nobody touches a conversation of a customer that somebody else owns.
LEMMA OthersStayAway ==
    ASSUME PipelineTypeOK, WritersOwn, ViewInv,
           NEW u \in Holder, Owned(u), NEW w \in Holder, w # u, Step(w),
           NEW s \in Conv,
           \/ Exists(s) /\ session[s].customer = Who(u)
           \/ Exists(s)' /\ session'[s].customer = Who(u)
    PROVE  Untouched(s)
<1>0. /\ session \in [Conv -> Session \cup {NoSession}]
      /\ call[w].msg \in Message => Who(w) \in Customer
  BY PipelineAssumption DEF PipelineTypeOK, StoreTypeOK, Who
<1>1. CASE \A r \in Conv : Untouched(r)
  BY <1>1
<1>2. CASE /\ pc[w] \in Changing /\ call[w].conv \in Conv
           /\ session'[call[w].conv].customer = session[call[w].conv].customer
           /\ \A r \in Conv \ {call[w].conv} : Untouched(r)
  <2>1. Owned(w)
    BY <1>2 DEF Changing, WritersOwn, Writing, Owned, Holding, AdvanceStages
  <2>2. session[call[w].conv].customer = Who(w)
    BY <1>2, <2>1 DEF ViewInv, Sees, Changing, WithSession
  <2>3. Who(w) # Who(u)
    BY <2>1 DEF Owned, Owns
  <2> QED
    BY <1>2, <2>2, <2>3
<1>3. ASSUME NEW r \in Conv, pc[w] = "create",
             CreateOpenSession(r, Who(w), call[w].recv),
             \A x \in Conv \ {r} : Untouched(x)
      PROVE Untouched(s)
  <2>1. Owned(w)
    BY <1>3 DEF WritersOwn, Writing, Owned, Holding, AdvanceStages
  <2>2. Who(w) # Who(u)
    BY <2>1 DEF Owned, Owns
  <2>3. session'[r].customer = Who(w) /\ ~Exists(r)
    BY <1>0, <1>3 DEF CreateOpenSession
  <2> QED
    BY <1>3, <2>2, <2>3
<1> QED
  BY <1>1, <1>2, <1>3, StepTouches

\* The owner's own steps: what it reads holds, and what it does to its
\* conversation is what the next stage expects.
LEMMA OwnerSees ==
    ASSUME PipelineTypeOK, ViewInv, NEW w \in Holder, Owned(w),
           Step(w) \/ FailClaimed(w), pc'[w] \in Holding
    PROVE  Sees(w)'
<1> USE DEF At, Goto
<1>0. /\ pc \in [Holder -> Stages] /\ call \in [Holder -> Call]
      /\ session \in [Conv -> Session \cup {NoSession}]
      /\ pc[w] \in WithSession => call[w].conv \in Conv
  BY DEF PipelineTypeOK, StoreTypeOK, Assigned
<1>w. Who(w)' = Who(w) /\ pc[w] # "acquire" /\ Sees(w)
  <2>1. pc[w] # "acquire"
    BY DEF Owned, Holding, AdvanceStages
  <2> QED
    BY <2>1, HoldingGoesOn DEF Acquire, ViewInv
<1>n. pc'[w] \in {"record", "route", "outcome", "link", "release"} => Sees(w)'
  BY DEF Sees, WithSession, Drafting
<1>h. ASSUME NEW s \in Conv, call'[w].conv = s,
             pc'[w] \in WithSession \ {"outcome", "conflict"},
             session'[s].customer = Who(w),
             \/ session'[s].status = "open"
             \/ /\ pc'[w] = "append"
                /\ session'[s].status = "draft_created"
                /\ call'[w].status = "draft_created",
             pc'[w] \in Drafting => call'[w].draft = Transcript(s)',
             pc'[w] = "createdraft" => OrdersOf(s)' = {}
      PROVE Sees(w)'
  <2>1. pc'[w] \notin {"getopen", "create", "reread", "conflict"}
    BY <1>h DEF WithSession
  <2>2. pc'[w] \in Drafting => call'[w].draft = Transcript(call[w].conv)'
    BY <1>h DEF Transcript
  <2>3. pc'[w] = "createdraft" => OrdersOf(call[w].conv)' = {}
    BY <1>h DEF OrdersOf
  <2>4. /\ session'[call'[w].conv].customer = Who(w)'
        /\ \/ session'[call'[w].conv].status = "open"
           \/ /\ pc'[w] = "append"
              /\ session'[call'[w].conv].status = "draft_created"
              /\ call'[w].status = "draft_created"
    BY <1>h, <1>w
  <2> QED
    BY <2>1, <2>2, <2>3, <2>4 DEF Sees
\* A call that goes on with its conversation, and the conversation stays as
\* it was.
<1>k. ASSUME NEW s \in Conv, s = call[w].conv, call'[w].conv = s,
             pc[w] \in WithSession \ {"outcome", "append"},
             pc'[w] \in WithSession \ {"outcome", "conflict", "append"},
             UNCHANGED <<session, turns>>,
             pc'[w] \in Drafting =>
                pc[w] \in Drafting /\ call'[w].draft = call[w].draft,
             pc'[w] = "createdraft" => OrdersOf(s)' = {}
      PROVE Sees(w)'
  <2>1. session[s].customer = Who(w) /\ session[s].status = "open"
    BY <1>k, <1>w DEF Sees
  <2>2. pc'[w] \in Drafting => call'[w].draft = Transcript(s)'
    BY <1>k, <1>w DEF Sees, Transcript
  <2> QED
    BY <1>h, <1>k, <2>1, <2>2
<1>s. ASSUME NEW s \in Conv, Read(w, s), pc'[w] \in {"expire", "append"},
             UNCHANGED session, session[s].customer = Who(w),
             \/ session[s].status = "open"
             \/ session[s].status = "draft_created" /\ pc'[w] = "append"
      PROVE Sees(w)'
  <2>1. call'[w].conv = s /\ call'[w].status = session[s].status
    BY <1>s, ReadLocals
  <2> QED
    BY <1>h, <1>s, <2>1 DEF WithSession, Drafting
<1>1. CASE \/ Acquire(w) \/ Defer(w) \/ Record(w) \/ ReleaseClaim(w)
           \/ DrainList(w) \/ DrainNext(w) \/ Retire(w) \/ Link(w)
  BY <1>0, <1>1, <1>n, <1>w
     DEF Acquire, Defer, Record, ReleaseClaim, DrainList, DrainNext, Retire, Link,
         ReturnUnclaimed, Answer, Holding, AdvanceStages
<1>2. CASE Route(w)
  <2>1. CASE Routable(Who(w)) = {} /\ pc'[w] = "getopen"
    <3>1. Routable(Who(w))' = {}
      BY <1>2, <1>w, <2>1 DEF Route, OnlyWorkers, storeVars, Routable
    <3> QED
      BY <2>1, <3>1 DEF Sees, WithSession, Drafting
  <2>2. ASSUME NEW s \in LatestSessions(Who(w)), Read(w, s),
               pc'[w] = IF session[s].status = "open" /\ IdleTooLong(w, s)
                        THEN "expire" ELSE "append"
        PROVE Sees(w)'
    <3>1. s \in Conv /\ session[s].customer = Who(w)
          /\ session[s].status \in {"open", "draft_created"}
      BY <2>2 DEF LatestSessions, Routable
    <3> QED
      BY <1>2, <1>s, <2>2, <3>1 DEF Route, OnlyWorkers, storeVars
  <2> QED
    BY <1>0, <1>2, <2>1, <2>2 DEF Route
<1>3. CASE Expire(w)
  <2>1. PICK s \in Conv : s = call[w].conv
    BY <1>0, <1>3 DEF Expire, WithSession
  <2>2. session[s].customer = Who(w) /\ session[s].status = "open"
    BY <1>3, <1>w, <2>1 DEF Expire, Sees, WithSession
  <2>3. \A r \in Conv : session[r].customer = Who(w)
                        /\ session[r].status \in {"open", "draft_created"} => r = s
    <3>1. s \in Routable(Who(w)) /\ Who(w) \in Customer
      BY <1>3, <2>2, PipelineAssumption
         DEF Routable, Expire, PipelineTypeOK, Assigned, Who
    <3> QED
      BY <3>1 DEF ViewInv, OneRoutableSession, Routable
  <2>4. /\ session'[s].status = "expired"
        /\ \A r \in Conv \ {s} : session'[r] = session[r]
    <3>1. session' = [session EXCEPT ![s].status = "expired"]
      BY <1>3, <2>1 DEF Expire, ExpireSession
    <3>2. session[s] \in Session
      BY <1>0, <2>2 DEF NoSession
    <3> QED
      BY <1>0, <3>1, <3>2 DEF Session
  <2>5. Routable(Who(w))' = {}
    BY <1>w, <2>3, <2>4 DEF Routable
  <2>6. pc'[w] = "getopen"
    BY <1>0, <1>3 DEF Expire
  <2> QED
    BY <2>5, <2>6 DEF Sees, WithSession, Drafting
<1>4. CASE GetOpen(w)
  <2>1. Routable(Who(w)) = {} /\ OpenSessions(Who(w)) = {}
    BY <1>4, <1>w DEF GetOpen, Sees, Routable, OpenSessions
  <2>2. pc'[w] = "create" /\ Routable(Who(w))' = {}
    BY <1>0, <1>4, <1>w, <2>1 DEF GetOpen, OnlyWorkers, storeVars, Routable
  <2> QED
    BY <2>2 DEF Sees, WithSession, Drafting
<1>5. CASE Create(w)
  <2>1. OpenSessions(Who(w)) = {}
    BY <1>5, <1>w DEF Create, Sees, Routable, OpenSessions
  <2>2. PICK s \in Conv :
           /\ CreateOpenSession(s, Who(w), call[w].recv)
           /\ call' = [call EXCEPT ![w].conv = s, ![w].status = "open",
                                   ![w].order = None]
           /\ pc'[w] = "append"
    BY <1>0, <1>5, <2>1 DEF Create
  <2>3. session'[s].customer = Who(w) /\ session'[s].status = "open"
    BY <1>0, <2>2 DEF CreateOpenSession
  <2> QED
    BY <1>h, <2>2, <2>3, CreateLocals DEF WithSession, Drafting
<1>6. CASE Reread(w) \/ RecoverConflict(w)
  BY <1>6, <1>w DEF Reread, RecoverConflict, Sees
<1>7. CASE AppendTurnIfNew(w)
  <2>1. PICK s \in Conv : s = call[w].conv
    BY <1>0, <1>7 DEF AppendTurnIfNew, WithSession
  <2>2. session[s].customer = Who(w)
        /\ session[s].status \in {"open", call[w].status}
        /\ (call[w].status # "draft_created" => session[s].status = "open")
    BY <1>7, <1>w, <2>1 DEF AppendTurnIfNew, Sees, WithSession
  <2>3. session'[s].customer = session[s].customer
        /\ session'[s].status = session[s].status
    <3>1. CASE AppendTurn(s, call[w].msg, call[w].recv)
      <4>1. session' = [session EXCEPT ![s].last = call[w].recv] /\ session[s] \in Session
        BY <1>0, <3>1 DEF AppendTurn, Exists, NoSession
      <4> QED
        BY <1>0, <4>1 DEF Session
    <3> QED
      BY <1>7, <2>1, <3>1 DEF AppendTurnIfNew, storeVars
  <2>4. CASE pc'[w] = "orphan"
    <3>1. call[w].status # "draft_created" /\ call'[w].conv = s
      BY <1>0, <1>7, <2>1, <2>4, OtherLocals DEF AppendTurnIfNew, Settle, SameSession
    <3> QED
      BY <1>h, <2>2, <2>3, <2>4, <3>1 DEF WithSession, Drafting
  <2>5. pc'[w] \in {"orphan", "outcome", "link"}
    BY <1>0, <1>7 DEF AppendTurnIfNew, Settle
  <2> QED
    BY <1>n, <2>4, <2>5
<1>8. CASE RecoverOrphan(w) \/ LookupOrder(w)
  <2>1. PICK s \in Conv : s = call[w].conv
    BY <1>0, <1>8 DEF RecoverOrphan, LookupOrder, WithSession
  <2>2. UNCHANGED <<session, turns, orders>>
    BY <1>8 DEF RecoverOrphan, LookupOrder, OnlyWorkers, storeVars
  <2>3. pc[w] \in {"orphan", "lookup"}
    BY <1>8 DEF RecoverOrphan, LookupOrder
  <2>4. ASSUME NEW o, Adopt(w, o, "already_has_draft") PROVE Sees(w)'
    BY <1>k, <2>1, <2>2, <2>3, <2>4, AdoptLocals DEF WithSession, Drafting
  <2>5. CASE UNCHANGED call /\ pc'[w] = "list"
    BY <1>k, <2>1, <2>2, <2>3, <2>5 DEF WithSession, Drafting
  <2>6. CASE UNCHANGED call /\ pc[w] = "lookup" /\ pc'[w] = "createdraft"
             /\ OrdersOf(call[w].conv) = {}
    <3>1. OrdersOf(s)' = {}
      BY <2>1, <2>2, <2>6 DEF OrdersOf
    <3> QED
      BY <1>k, <2>1, <2>2, <2>6, <3>1 DEF WithSession, Drafting
  <2> QED
    BY <1>0, <1>8, <1>n, <2>4, <2>5, <2>6 DEF RecoverOrphan, LookupOrder
<1>9. CASE ListTurns(w)
  <2>1. PICK s \in Conv : s = call[w].conv
    BY <1>0, <1>9 DEF ListTurns, WithSession
  <2>2. UNCHANGED <<session, turns, orders>>
    BY <1>9 DEF ListTurns, OnlyWorkers, storeVars
  <2>3. session[s].customer = Who(w) /\ session[s].status = "open"
    BY <1>9, <1>w, <2>1 DEF ListTurns, Sees, WithSession
  <2>4. call'[w].conv = s /\ call'[w].draft = Transcript(s) /\ pc'[w] = "parse"
    BY <1>0, <1>9, <2>1, OtherLocals DEF ListTurns, SameSession
  <2>5. Transcript(s)' = Transcript(s)
    BY <2>2 DEF Transcript
  <2> QED
    BY <1>h, <2>2, <2>3, <2>4, <2>5 DEF WithSession, Drafting
<1>10. CASE Parse(w) \/ RenewClaim(w) \/ SaveDraft(w)
  <2>1. PICK s \in Conv : s = call[w].conv
    BY <1>0, <1>10 DEF Parse, RenewClaim, SaveDraft, WithSession
  <2>2. UNCHANGED <<session, turns, orders>>
    BY <1>10 DEF Parse, RenewClaim, SaveDraft, SaveAccumulatedDraft, OnlyWorkers,
                 OnlyClaim, storeVars
  <2>3. pc[w] \in {"parse", "renew", "save"}
    BY <1>10 DEF Parse, RenewClaim, SaveDraft
  <2>4. CASE UNCHANGED call /\ pc'[w] \in {"renew", "getdraft", "lookup"}
    BY <1>k, <2>1, <2>2, <2>3, <2>4 DEF WithSession, Drafting
  <2> QED
    BY <1>0, <1>10, <1>n, <2>4, OtherLocals DEF Parse, RenewClaim, SaveDraft
<1>11. CASE MergeDraft(w)
  <2>1. PICK s \in Conv : s = call[w].conv
    BY <1>0, <1>11 DEF MergeDraft, WithSession
  <2>2. UNCHANGED <<session, turns, orders>>
    BY <1>11 DEF MergeDraft, OnlyWorkers, storeVars
  <2>3. covered[s] \subseteq Transcript(s) /\ call[w].draft = Transcript(s)
    BY <1>11, <1>w, <2>1 DEF MergeDraft, Sees, Drafting, ViewInv, DraftsAreCovered
  <2>4. call' = [call EXCEPT ![w].draft = call[w].draft \cup covered[s]]
    BY <1>11, <2>1 DEF MergeDraft
  <2>5. call'[w].conv = s /\ call'[w].draft = call[w].draft /\ pc'[w] = "save"
    BY <1>0, <1>11, <2>1, <2>3, <2>4, OtherLocals DEF MergeDraft, SameSession
  <2> QED
    BY <1>11, <1>k, <2>1, <2>2, <2>5 DEF MergeDraft, WithSession, Drafting
<1>12. CASE CreateDraft(w)
  <2>1. PICK s \in Conv : s = call[w].conv
    BY <1>0, <1>12 DEF CreateDraft, WithSession
  <2>2. OrdersOf(call[w].conv) = {}
    BY <1>12, <1>w DEF CreateDraft, Sees
  <2>3. PICK o \in OrderId : InsertOrder(o, call[w].conv, call[w].draft)
                             /\ Adopt(w, o, "draft_created")
    BY <1>12, <2>2 DEF CreateDraft
  <2> QED
    BY <1>12, <1>k, <2>1, <2>3, AdoptLocals
       DEF CreateDraft, InsertOrder, WithSession, Drafting
<1>13. CASE Mark(w) \/ Outcomes(w) \/ FailClaimed(w)
  BY <1>0, <1>13, <1>n, OtherLocals DEF Mark, Outcomes, FailClaimed
<1> QED
  BY <1>1, <1>2, <1>3, <1>4, <1>5, <1>6, <1>7, <1>8, <1>9, <1>10, <1>11, <1>12, <1>13
     DEF Step

\* Who does not move goes on seeing what it saw, if nobody touched the
\* conversations of its customer.
LEMMA SeesOn ==
    ASSUME PipelineTypeOK, NEW u \in Holder, Sees(u),
           pc'[u] = pc[u], call'[u] = call[u],
           \A s \in Conv :
              \/ Exists(s) /\ session[s].customer = Who(u)
              \/ Exists(s)' /\ session'[s].customer = Who(u)
              => Untouched(s)
    PROVE  Sees(u)'
<1>1. Who(u)' = Who(u)
  BY DEF Who
<1>2. Routable(Who(u)) = {} => Routable(Who(u))' = {}
  <2> SUFFICES ASSUME NEW s \in Conv, session'[s].customer = Who(u),
                      session'[s].status \in {"open", "draft_created"}
               PROVE s \in Routable(Who(u))
    BY <1>1 DEF Routable
  <2>1. Untouched(s)
    BY DEF Exists
  <2> QED
    BY <2>1 DEF Untouched, Routable
<1>3. ASSUME pc[u] \in WithSession \ {"outcome"}
      PROVE /\ session'[call[u].conv].customer = Who(u)
            /\ session'[call[u].conv].status = session[call[u].conv].status
            /\ Transcript(call[u].conv)' = Transcript(call[u].conv)
            /\ OrdersOf(call[u].conv)' = OrdersOf(call[u].conv)
  <2>1. PICK s \in Conv : s = call[u].conv
    BY <1>3 DEF PipelineTypeOK, Assigned
  <2>2. session[s].customer = Who(u) /\ session[s].status \in {"open", "draft_created"}
    BY <1>3, <2>1 DEF Sees
  <2>3. Untouched(s)
    BY <2>2 DEF Exists
  <2>4. Transcript(call[u].conv)' = Transcript(call[u].conv)
    BY <2>1, <2>3 DEF Untouched, Transcript
  <2>5. OrdersOf(call[u].conv)' = OrdersOf(call[u].conv)
    BY <2>1, <2>3 DEF Untouched, OrdersOf
  <2> QED
    BY <2>1, <2>2, <2>3, <2>4, <2>5 DEF Untouched
<1>4. Drafting \cup {"createdraft"} \subseteq WithSession \ {"outcome"}
  BY DEF Drafting, WithSession
<1> QED
  BY <1>1, <1>2, <1>3, <1>4 DEF Sees

\* The owner's own step leaves its customer at most one conversation.
LEMMA OneRoutableStep ==
    ASSUME PipelineTypeOK, WritersOwn, ViewInv, NEW w \in Holder, Step(w)
    PROVE  OneRoutableSession'
<1>0. session \in [Conv -> Session \cup {NoSession}]
  BY DEF PipelineTypeOK, StoreTypeOK
<1> SUFFICES ASSUME NEW c \in Customer,
                    NEW s \in Conv, NEW t \in Conv,
                    s \in Routable(c)', t \in Routable(c)'
             PROVE s = t
  BY DEF OneRoutableSession, Routable
<1>1. \A r \in Conv : Untouched(r) /\ r \in Routable(c)' => r \in Routable(c)
  BY DEF Untouched, Routable
<1>2. \A p, q \in Routable(c) : p = q
  BY DEF ViewInv, OneRoutableSession
<1>3. CASE \A r \in Conv : Untouched(r)
  BY <1>1, <1>2, <1>3
<1>4. CASE /\ pc[w] \in Changing /\ call[w].conv \in Conv
           /\ session'[call[w].conv].customer = session[call[w].conv].customer
           /\ \A r \in Conv \ {call[w].conv} : Untouched(r)
  <2>1. Owned(w) /\ pc[w] \in WithSession \ {"outcome"}
    BY <1>4 DEF Changing, WritersOwn, Writing, Owned, Holding, AdvanceStages, WithSession
  <2>2. session[call[w].conv].status \in {"open", "draft_created"}
    BY <2>1 DEF ViewInv, Sees
  <2>3. call[w].conv \in Routable(c)' => call[w].conv \in Routable(c)
    <3>1. PICK x \in Conv : x = call[w].conv
      BY <1>4
    <3>2. ASSUME NEW r \in Conv, r \in Routable(c)' PROVE session'[r].customer = c
      BY <3>2 DEF Routable
    <3>3. ASSUME session'[x].customer = c PROVE x \in Routable(c)
      BY <1>4, <2>2, <3>1, <3>3 DEF Routable
    <3> QED
      BY <3>1, <3>2, <3>3
  <2> QED
    BY <1>1, <1>2, <1>4, <2>3
<1>5. ASSUME NEW r \in Conv, pc[w] = "create",
             CreateOpenSession(r, Who(w), call[w].recv),
             \A x \in Conv \ {r} : Untouched(x)
      PROVE s = t
  <2>1. Owned(w)
    BY <1>5 DEF WritersOwn, Writing, Owned, Holding, AdvanceStages
  <2>2. Routable(Who(w)) = {}
    BY <1>5, <2>1 DEF ViewInv, Sees
  <2>3. session'[r].customer = Who(w)
    BY <1>0, <1>5 DEF CreateOpenSession
  <2>4. r \in Routable(c)' => c = Who(w)
    BY <2>3 DEF Routable
  <2> QED
    BY <1>1, <1>2, <1>5, <2>2, <2>4
<1> QED
  BY <1>3, <1>4, <1>5, StepTouches

\* What is saved as the draft of a conversation was said in it.
LEMMA DraftsStep ==
    ASSUME PipelineTypeOK, WritersOwn, ViewInv, [Next]_vars
    PROVE  DraftsAreCovered'
<1>0. covered \in [Conv -> SUBSET Message]
      /\ \A s \in Conv : Transcript(s) \subseteq Transcript(s)'
  BY StepUsesStore, StoreGrows DEF PipelineTypeOK, StoreTypeOK
<1>1. CASE UNCHANGED covered
  BY <1>0, <1>1 DEF ViewInv, DraftsAreCovered
<1>2. ASSUME NEW w \in Holder, SaveDraft(w) PROVE DraftsAreCovered'
  <2>1. PICK s \in Conv : s = call[w].conv
    BY <1>2 DEF SaveDraft, At, PipelineTypeOK, Assigned, WithSession
  <2>2. Owned(w)
    BY <1>2 DEF SaveDraft, At, WritersOwn, Writing, Owned, Holding, AdvanceStages
  <2>3. call[w].draft = Transcript(s)
    BY <1>2, <2>1, <2>2 DEF ViewInv, Sees, SaveDraft, At, Drafting
  <2>4. covered' = [covered EXCEPT ![s] = Transcript(s)]
    BY <1>2, <2>1, <2>3 DEF SaveDraft, SaveAccumulatedDraft
  <2> QED
    BY <1>0, <2>4 DEF ViewInv, DraftsAreCovered
<1>3. ASSUME NEW w \in Holder, Step(w), ~SaveDraft(w) PROVE UNCHANGED covered
  BY <1>3, StoreActions
     DEF Expire, Create, AppendTurnIfNew, CreateDraft, Mark, Outcomes, ExpireSession,
         CreateOpenSession, AppendTurn, InsertOrder, MarkDraftCreated, RecordOutcome,
         storeVars
<1>4. ASSUME NEW w \in Holder,
             \/ StartSweep(w) \/ Fault(w) \/ Crash(w)
             \/ \E n \in Message : Deliver(w, n)
      PROVE UNCHANGED covered
  BY <1>4, OtherActions DEF storeVars
<1>5. CASE Clock \/ UNCHANGED vars
  BY <1>1, <1>5 DEF Clock, OnlyClaim, storeVars, vars
<1> QED
  BY <1>1, <1>2, <1>3, <1>4, <1>5 DEF Next

LEMMA ViewStep ==
    ASSUME PipelineInv, WritersOwn, ViewInv, [Next]_vars
    PROVE  ViewInv'
<1> USE DEF PipelineInv
<1>u. UNCHANGED storeVars => \A s \in Conv : Untouched(s)
  BY DEF storeVars, Untouched, OrdersOf
<1>1. OneRoutableSession'
  <2>1. CASE UNCHANGED storeVars
    BY <2>1 DEF ViewInv, OneRoutableSession, Routable, storeVars
  <2>2. CASE \E w \in Holder : Step(w)
    BY <2>2, OneRoutableStep
  <2> QED
    BY <2>1, <2>2, OtherActions DEF Next, Clock, OnlyClaim, vars
<1>2. ASSUME NEW u \in Holder, Owned(u)' PROVE Sees(u)'
  <2>1. CASE Acquire(u) /\ pc'[u] = "record"
    BY <2>1 DEF Sees, WithSession, Drafting
  <2>2. CASE Owned(u) /\ Who(u)' = Who(u)
    <3>0. Sees(u)
      BY <2>2 DEF ViewInv
    <3>1. ASSUME NEW w \in Holder, w # u,
                 \/ Step(w) \/ StartSweep(w) \/ Fault(w) \/ Crash(w)
                 \/ \E m \in Message : Deliver(w, m)
          PROVE Sees(u)'
      <4>1. pc'[u] = pc[u] /\ call'[u] = call[u]
        BY <3>1, OneMoves
      <4>2. \A s \in Conv :
              \/ Exists(s) /\ session[s].customer = Who(u)
              \/ Exists(s)' /\ session'[s].customer = Who(u)
              => Untouched(s)
        BY <1>u, <2>2, <3>1, OthersStayAway, OtherActions
      <4> QED
        BY <3>0, <4>1, <4>2, SeesOn
    <3>2. CASE \/ Step(u) \/ StartSweep(u) \/ Fault(u) \/ Crash(u)
               \/ \E m \in Message : Deliver(u, m)
      <4>1. pc'[u] \in Holding
        BY <1>2 DEF Owned
      <4> QED
        BY <2>2, <3>2, <4>1, OthersLeave, OwnerSees
    <3>3. CASE Clock \/ UNCHANGED vars
      <4>1. pc'[u] = pc[u] /\ call'[u] = call[u] /\ UNCHANGED storeVars
        BY <3>3 DEF Clock, OnlyClaim, workerVars, vars
      <4> QED
        BY <1>u, <3>0, <4>1, SeesOn
    <3> QED
      BY <3>1, <3>2, <3>3 DEF Next
  <2> QED
    BY <1>2, <2>1, <2>2, OwnedBefore
<1> QED
  BY <1>1, <1>2, DraftsStep DEF ViewInv

LEMMA ViewInvariant ==
    ASSUME ~SlowWrites
    PROVE  Spec => []ViewInv
<1>1. PipelineInit => ViewInv
  BY DEF PipelineInit, StoreInit, NoSession, ViewInv, Owned, Holding, AdvanceStages,
         OneRoutableSession, Routable, DraftsAreCovered
<1>2. PipelineInv /\ WritersOwn /\ ViewInv /\ [Next]_vars => ViewInv'
  BY ViewStep
<1> QED
  BY <1>1, <1>2, PipelineInvariant, WritersOwnAlways, PTL DEF Spec

\* A customer has at most one conversation that a message can be routed to:
\* whoever opens one owns the customer and saw that there is none.
THEOREM OneRoutableSessionAlways ==
    ASSUME ~SlowWrites
    PROVE  Spec => []OneRoutableSession
BY ViewInvariant, PTL DEF ViewInv

\* A conversation that has a draft or was expired keeps status and link, and
\* an expired one gets no turn and no order: a call writes only the
\* conversation it sees, and that one is open when it expires or links it.
THEOREM ClosedStaysClosed ==
    ASSUME ~SlowWrites
    PROVE  Spec => ClosedIsFinal
<1> DEFINE Final(s) ==
      /\ session[s].status \in {"expired", "draft_created"} =>
            /\ session'[s].status = session[s].status
            /\ session'[s].order = session[s].order
      /\ session[s].status = "expired" =>
            turns'[s] = turns[s] /\ OrdersOf(s)' = OrdersOf(s)
<1>1. ASSUME PipelineInv, WritersOwn, ViewInv, [Next]_vars, NEW s \in Conv
      PROVE  Final(s)
  <2> USE DEF PipelineInv
  <2>0. /\ session \in [Conv -> Session \cup {NoSession}]
        /\ turns \in [Conv -> Seq(Message)]
    BY <1>1 DEF PipelineTypeOK, StoreTypeOK
  <2>1. CASE Untouched(s)
    BY <2>1 DEF Untouched, OrdersOf
  <2>2. CASE UNCHANGED storeVars
    BY <2>2 DEF storeVars, OrdersOf
  <2>3. ASSUME NEW w \in Holder, Step(w), pc[w] \in Changing, call[w].conv = s
        PROVE Final(s)
    <3>1. Owned(w) /\ pc[w] \in WithSession \ {"outcome"}
      BY <1>1, <2>3
         DEF Changing, WritersOwn, Writing, Owned, Holding, AdvanceStages, WithSession
    <3>2. \/ session[s].status = "open"
          \/ pc[w] = "append" /\ session[s].status = "draft_created"
      BY <1>1, <2>3, <3>1 DEF ViewInv, Sees
    <3>3. CASE pc[w] = "append"
      <4>1. AppendTurnIfNew(w)
        BY <2>3, <3>3
           DEF Step, At, Acquire, Defer, Record, Link, ReleaseClaim, DrainList,
               DrainNext, Retire, Route, Expire, GetOpen, Create, Reread,
               RecoverOrphan, ListTurns, Parse, RenewClaim, MergeDraft, SaveDraft,
               LookupOrder, CreateDraft, RecoverConflict, Mark, Outcomes
      <4>2. CASE AppendTurn(s, call[w].msg, call[w].recv)
        <5>1. session' = [session EXCEPT ![s].last = call[w].recv] /\ session[s] \in Session
          BY <2>0, <4>2 DEF AppendTurn, Exists, NoSession
        <5> QED
          BY <2>0, <3>2, <5>1 DEF Session
      <4> QED
        BY <2>2, <2>3, <4>1, <4>2 DEF AppendTurnIfNew
    <3> QED
      BY <3>2, <3>3
  <2>4. ASSUME NEW w \in Holder, Step(w) PROVE Final(s)
    <3>1. ASSUME NEW r \in Conv, CreateOpenSession(r, Who(w), call[w].recv),
                 \A x \in Conv \ {r} : Untouched(x)
          PROVE Final(s)
      <4>1. CASE s = r
        BY <3>1, <4>1 DEF CreateOpenSession, Exists
      <4> QED
        BY <2>1, <3>1, <4>1
    <3> QED
      BY <1>1, <2>1, <2>3, <2>4, <3>1, StepTouches
  <2> QED
    BY <1>1, <2>2, <2>4, OtherActions DEF Next, Clock, OnlyClaim, vars
<1>2. PipelineInv /\ WritersOwn /\ ViewInv /\ [Next]_vars => [\A s \in Conv : Final(s)]_vars
  BY <1>1
<1> QED
  BY <1>2, PipelineInvariant, WritersOwnAlways, ViewInvariant, PTL DEF Spec, ClosedIsFinal

\* An order is created from all that was said in its conversation: from the
\* listing of the turns to the insert the conversation is the call's alone,
\* the renewal after the parser call being the proof of it.
THEOREM OrdersCoverTranscripts ==
    ASSUME ~SlowWrites
    PROVE  Spec => OrderCoversTranscript
<1> DEFINE Covering == \A o \in orders' \ orders : o.covers = Transcript(o.conv)
<1>1. ASSUME PipelineInv, WritersOwn, ViewInv, [Next]_vars PROVE Covering
  <2> SUFFICES ASSUME NEW o \in orders', o \notin orders
               PROVE o.covers = Transcript(o.conv)
    OBVIOUS
  <2>1. PICK w \in Holder : /\ CreateDraft(w) /\ pc[w] = "createdraft"
                            /\ o.conv = call[w].conv /\ o.covers = call[w].draft
    BY <1>1, OnlyCreateDraftInserts DEF PipelineInv
  <2>2. Owned(w)
    BY <1>1, <2>1 DEF WritersOwn, Writing, Owned, Holding, AdvanceStages
  <2>3. call[w].draft = Transcript(call[w].conv)
    BY <1>1, <2>1, <2>2 DEF ViewInv, Sees, Drafting
  <2> QED
    BY <2>1, <2>3
<1>2. PipelineInv /\ WritersOwn /\ ViewInv /\ [Next]_vars => [Covering]_vars
  BY <1>1
<1> QED
  BY <1>2, PipelineInvariant, WritersOwnAlways, ViewInvariant, PTL
     DEF Spec, OrderCoversTranscript

----------------------------------------------------------------------------
(* What a call that ends well leaves behind                                *)

NoOrphan(s) == \A o \in OrdersOf(s) : session[s].order = o.id

\* The call is past advance() and has not failed.
Ended(w) ==
    \/ pc[w] \in {"outcome", "link"}
    \/ pc[w] = "release" /\ call[w].reply = "processed"

\* What a call that owns its customer knows of the order of its conversation.
Knows(w) ==
    /\ pc[w] = "append" /\ call[w].status = "draft_created" => NoOrphan(call[w].conv)
    /\ pc[w] \in Drafting \cup {"list"} => OrdersOf(call[w].conv) = {}
    /\ pc[w] = "mark" => \A o \in OrdersOf(call[w].conv) : o.id = call[w].order
    /\ Ended(w) /\ call[w].conv # None =>
          /\ Exists(call[w].conv) /\ session[call[w].conv].customer = Who(w)
          /\ NoOrphan(call[w].conv)

AdoptionInv ==
    \A w \in Holder :
        /\ pc[w] \in {"acquire", "record"} => call[w].conv = None
        /\ Owned(w) => Knows(w)

\* A call that stands still knows what it knew, if nobody touched its
\* conversation.
LEMMA KnowsOn ==
    ASSUME NEW u \in Holder, Knows(u), pc'[u] = pc[u], call'[u] = call[u],
           pc[u] \in {"append", "mark", "list"} \cup Drafting => Untouched(call[u].conv),
           Ended(u) => call[u].conv = None \/ Untouched(call[u].conv)
    PROVE  Knows(u)'
<1>1. Untouched(call[u].conv) => OrdersOf(call[u].conv)' = OrdersOf(call[u].conv)
  BY DEF Untouched, OrdersOf
<1>2. Untouched(call[u].conv) /\ NoOrphan(call[u].conv) => NoOrphan(call[u].conv)'
  BY <1>1 DEF Untouched, NoOrphan
<1>3. Ended(u)' = Ended(u) /\ Who(u)' = Who(u)
  BY DEF Ended, Who
<1>4. ASSUME Ended(u), call[u].conv # None
      PROVE /\ session'[call[u].conv].status # "absent"
            /\ session'[call[u].conv].customer = Who(u)
            /\ NoOrphan(call[u].conv)'
  BY <1>2, <1>4 DEF Knows, Untouched, Exists
<1>5. pc[u] = "append" /\ call[u].status = "draft_created" => NoOrphan(call[u].conv)'
  BY <1>2 DEF Knows
<1>6. pc[u] \in Drafting \cup {"list"} => OrdersOf(call[u].conv)' = {}
  BY <1>1 DEF Knows
<1>7. pc[u] = "mark" => \A o \in OrdersOf(call[u].conv)' : o.id = call[u].order
  BY <1>1 DEF Knows
<1> QED
  BY <1>3, <1>4, <1>5, <1>6, <1>7 DEF Knows, Exists, NoOrphan, OrdersOf

\* The owner's own steps.
LEMMA OwnerKnows ==
    ASSUME PipelineTypeOK, ViewInv, LinkedOpenOrExpired, OneOrderPerConversation,
           NEW w \in Holder, Owned(w), Knows(w),
           pc[w] = "record" => call[w].conv = None,
           Step(w) \/ FailClaimed(w), pc'[w] \in Holding
    PROVE  Knows(w)'
<1> USE DEF At, Goto
<1>0. /\ pc \in [Holder -> Stages] /\ call \in [Holder -> Call]
      /\ session \in [Conv -> Session \cup {NoSession}]
      /\ pc[w] \in WithSession => call[w].conv \in Conv
      /\ None \notin Conv
  BY PipelineAssumption DEF PipelineTypeOK, StoreTypeOK, Assigned
<1>w. Who(w)' = Who(w) /\ pc[w] # "acquire" /\ Sees(w)
  <2>1. pc[w] # "acquire"
    BY DEF Owned, Holding, AdvanceStages
  <2> QED
    BY <2>1, HoldingGoesOn DEF Acquire, ViewInv
\* Stages of which nothing is said, and a call that failed.
<1>n. ASSUME pc'[w] \in {"record", "route", "expire", "getopen", "create", "reread",
                         "orphan", "conflict"}
      PROVE Knows(w)'
  BY <1>n DEF Knows, Ended, Drafting
<1>r. ASSUME pc'[w] = "release", call'[w].reply # "processed" PROVE Knows(w)'
  BY <1>r DEF Knows, Ended, Drafting
\* The call comes to its end.
<1>e. ASSUME pc'[w] \in {"outcome", "link", "release"}, call'[w].conv = call[w].conv,
             call[w].conv # None =>
                /\ session'[call[w].conv].status # "absent"
                /\ session'[call[w].conv].customer = Who(w)
                /\ \A o \in orders' : o.conv = call[w].conv =>
                      session'[call[w].conv].order = o.id
      PROVE Knows(w)'
  <2>1. Ended(w)' /\ call'[w].conv # None =>
           /\ session'[call'[w].conv].status # "absent"
           /\ session'[call'[w].conv].customer = Who(w)'
           /\ \A o \in orders' : o.conv = call'[w].conv =>
                 session'[call'[w].conv].order = o.id
    BY <1>e, <1>w
  <2> QED
    BY <1>e, <2>1 DEF Knows, Drafting, Exists, NoOrphan, OrdersOf
\* There is no order, and no session has changed.
<1>d. ASSUME pc[w] \in {"orphan", "list"} \cup Drafting, OrdersOf(call[w].conv) = {},
             call'[w].conv = call[w].conv, UNCHANGED <<session, orders>>,
             pc'[w] \in Drafting \cup {"list", "outcome", "release"}
      PROVE Knows(w)'
  <2>1. \A o \in orders' : o.conv # call[w].conv
    BY <1>d DEF OrdersOf
  <2>2. pc[w] \in WithSession \ {"outcome"}
    BY <1>d DEF Drafting, WithSession
  <2>3. /\ session'[call[w].conv].customer = Who(w)
        /\ session'[call[w].conv].status # "absent"
    BY <1>d, <1>w, <2>2 DEF Sees
  <2>4. CASE pc'[w] \in Drafting \cup {"list"}
    BY <1>d, <2>1, <2>4 DEF Knows, Ended, Drafting, OrdersOf
  <2> QED
    BY <1>d, <1>e, <2>1, <2>3, <2>4
\* The order of the conversation is found.
<1>a. ASSUME NEW o \in OrdersOf(call[w].conv), Adopt(w, o.id, "already_has_draft"),
             UNCHANGED orders
      PROVE Knows(w)'
  <2>1. \A p \in orders : p.conv = call[w].conv => p = o
    BY DEF OrdersOf, OneOrderPerConversation
  <2> QED
    BY <1>a, <2>1, AdoptLocals DEF Knows, Ended, Drafting, OrdersOf
\* A session is read.
<1>s. ASSUME NEW s, Read(w, s), pc'[w] \in {"expire", "append"},
             UNCHANGED <<session, orders>>
      PROVE Knows(w)'
  <2>1. call'[w].conv = s /\ call'[w].status = session[s].status
    BY <1>s, ReadLocals
  <2>2. session[s].status = "draft_created" =>
           \A o \in orders : o.conv = s => session[s].order = o.id
    BY DEF LinkedOpenOrExpired
  <2> QED
    BY <1>s, <2>1, <2>2 DEF Knows, Ended, Drafting, NoOrphan, OrdersOf
<1>1. CASE \/ Acquire(w) \/ Defer(w) \/ ReleaseClaim(w)
           \/ DrainList(w) \/ DrainNext(w) \/ Retire(w)
  BY <1>0, <1>1, <1>w
     DEF Acquire, Defer, ReleaseClaim, DrainList, DrainNext, Retire,
         ReturnUnclaimed, Answer, Holding, AdvanceStages
<1>2. CASE Record(w)
  <2>1. call[w].conv = None /\ call'[w].conv = call[w].conv
    BY <1>0, <1>2, OtherLocals DEF Record, SameSession
  <2> QED
    BY <1>0, <1>2, <1>e, <1>n, <2>1 DEF Record
<1>3. CASE Route(w) \/ GetOpen(w)
  <2>1. CASE pc'[w] \in {"getopen", "create"}
    BY <1>n, <2>1
  <2>2. UNCHANGED <<session, orders>>
    BY <1>3 DEF Route, GetOpen, OnlyWorkers, storeVars
  <2>3. CASE \E s : Read(w, s) /\ pc'[w] \in {"expire", "append"}
    BY <1>s, <2>2, <2>3
  <2> QED
    BY <1>0, <1>3, <2>1, <2>3 DEF Route, GetOpen
<1>4. CASE Expire(w)
  BY <1>0, <1>4, <1>n DEF Expire
<1>5. CASE Create(w)
  <2>1. CASE pc'[w] = "reread"
    BY <1>n, <2>1
  <2>2. ASSUME NEW s, call' = [call EXCEPT ![w].conv = s, ![w].status = "open",
                                           ![w].order = None],
               pc'[w] = "append"
        PROVE Knows(w)'
    BY <2>2, CreateLocals DEF Knows, Ended, Drafting
  <2> QED
    BY <1>0, <1>5, <2>1, <2>2 DEF Create
<1>6. CASE Reread(w) \/ RecoverConflict(w)
  BY <1>6, <1>w DEF Reread, RecoverConflict, Sees
<1>7. CASE AppendTurnIfNew(w)
  <2>1. PICK s \in Conv : s = call[w].conv
    BY <1>0, <1>7 DEF AppendTurnIfNew, WithSession
  <2>2. /\ session[s].customer = Who(w)
        /\ session[s].status \in {"open", "draft_created"}
        /\ call[w].status = "draft_created" =>
              \A o \in orders : o.conv = s => session[s].order = o.id
    BY <1>7, <1>w, <2>1
       DEF AppendTurnIfNew, Sees, WithSession, Knows, NoOrphan, OrdersOf
  <2>3. /\ session'[s].customer = session[s].customer
        /\ session'[s].status = session[s].status
        /\ session'[s].order = session[s].order
        /\ orders' = orders
    <3>1. CASE AppendTurn(s, call[w].msg, call[w].recv)
      <4>1. session' = [session EXCEPT ![s].last = call[w].recv] /\ session[s] \in Session
        BY <1>0, <3>1 DEF AppendTurn, Exists, NoSession
      <4>2. orders' = orders
        BY <3>1 DEF AppendTurn
      <4> QED
        BY <1>0, <4>1, <4>2 DEF Session
    <3> QED
      BY <1>7, <2>1, <3>1 DEF AppendTurnIfNew, storeVars
  <2>4. CASE pc'[w] = "orphan"
    BY <1>n, <2>4
  <2>5. CASE pc'[w] \in {"outcome", "link"} /\ call[w].status = "draft_created"
    <3>1. call'[w].conv = call[w].conv
      BY <1>0, <1>7, <2>5, OtherLocals DEF AppendTurnIfNew, SameSession
    <3>2. session'[s].status # "absent"
      BY <2>2, <2>3
    <3> QED
      BY <1>e, <2>1, <2>2, <2>3, <2>5, <3>1, <3>2
  <2> QED
    BY <1>0, <1>7, <2>4, <2>5 DEF AppendTurnIfNew, Settle
<1>8. CASE RecoverOrphan(w) \/ LookupOrder(w)
  <2>1. UNCHANGED <<session, orders>> /\ pc[w] \in {"orphan", "lookup"}
    BY <1>8 DEF RecoverOrphan, LookupOrder, OnlyWorkers, storeVars
  <2>2. CASE \E o \in OrdersOf(call[w].conv) : Adopt(w, o.id, "already_has_draft")
    BY <1>a, <2>1, <2>2
  <2>3. CASE /\ OrdersOf(call[w].conv) = {} /\ call'[w].conv = call[w].conv
             /\ pc'[w] \in {"list", "release", "createdraft"}
    BY <1>d, <2>1, <2>3 DEF Drafting
  <2> QED
    BY <1>0, <1>8, <2>2, <2>3, OtherLocals DEF RecoverOrphan, LookupOrder, SameSession
<1>9. CASE ListTurns(w) \/ Parse(w) \/ RenewClaim(w) \/ MergeDraft(w) \/ SaveDraft(w)
  <2>1. UNCHANGED <<session, orders>>
    BY <1>9 DEF ListTurns, Parse, RenewClaim, MergeDraft, SaveDraft,
                SaveAccumulatedDraft, OnlyWorkers, OnlyClaim, storeVars
  <2>2. /\ pc[w] \in {"list"} \cup Drafting
        /\ pc'[w] \in Drafting \cup {"outcome"}
        /\ call'[w].conv = call[w].conv
    BY <1>0, <1>9, OtherLocals
       DEF ListTurns, Parse, RenewClaim, MergeDraft, SaveDraft, SameSession, Drafting
  <2>3. OrdersOf(call[w].conv) = {}
    BY <2>2 DEF Knows
  <2> QED
    BY <1>d, <2>1, <2>2, <2>3
<1>10. CASE CreateDraft(w)
  <2>1. OrdersOf(call[w].conv) = {}
    BY <1>10, <1>w DEF CreateDraft, Sees
  <2>2. PICK o \in OrderId : InsertOrder(o, call[w].conv, call[w].draft)
                             /\ Adopt(w, o, "draft_created")
    BY <1>10, <2>1 DEF CreateDraft
  <2>3. \A p \in orders' : p.conv = call[w].conv => p.id = o
    BY <2>1, <2>2 DEF InsertOrder, OrdersOf
  <2> QED
    BY <2>2, <2>3, AdoptLocals DEF Knows, Ended, Drafting, OrdersOf
<1>11. CASE Mark(w)
  <2>1. PICK s \in Conv : s = call[w].conv
    BY <1>0, <1>11 DEF Mark, WithSession
  <2>2. CASE Raise(w)
    BY <1>0, <1>r, <2>2 DEF Raise, Call
  <2>3. CASE MarkDraftCreated(s, call[w].order) /\ pc'[w] = "outcome" /\ UNCHANGED call
    <3>1. \A o \in orders : o.conv = s => o.id = call[w].order
      BY <1>11, <2>1 DEF Mark, Knows, OrdersOf
    <3>2. session[s] \in Session /\ orders' = orders
      BY <1>0, <2>3 DEF MarkDraftCreated, Exists, NoSession
    <3>3. session[s].customer = Who(w) /\ session[s].status = "open"
      BY <1>11, <1>w, <2>1 DEF Mark, Sees, WithSession
    <3>4. /\ session'[s].customer = Who(w)
          /\ session'[s].status # "absent"
          /\ session'[s].order = call[w].order \/ session'[s] = session[s]
      BY <1>0, <2>3, <3>2, <3>3 DEF MarkDraftCreated, Session
    <3>5. session'[s].order = call[w].order
      <4>1. CASE session[s].order = None
        BY <1>0, <2>3, <3>2, <4>1 DEF MarkDraftCreated, Session
      <4>2. CASE session[s].order = call[w].order
        BY <2>3, <3>4, <4>2
      <4> QED
        BY <2>3, <4>1, <4>2 DEF MarkDraftCreated
    <3> QED
      BY <1>e, <2>1, <2>3, <3>1, <3>2, <3>4, <3>5
  <2> QED
    BY <1>0, <1>11, <2>1, <2>2, <2>3 DEF Mark
<1>12. CASE Outcomes(w) \/ Link(w) \/ FailClaimed(w)
  <2>1. CASE Raise(w)
    BY <1>0, <1>r, <2>1 DEF Raise, Call
  <2>2. CASE pc[w] \in {"outcome", "link"} /\ ~Raise(w)
    <3>1. pc'[w] \in {"link", "release"} /\ call'[w].conv = call[w].conv
      BY <1>0, <1>12, <2>2, OtherLocals DEF Outcomes, Link, FailClaimed, SameSession
    <3>2. ASSUME call[w].conv # None
          PROVE /\ call[w].conv \in Conv
                /\ session[call[w].conv].status # "absent"
                /\ session[call[w].conv].customer = Who(w)
                /\ \A o \in orders : o.conv = call[w].conv =>
                      session[call[w].conv].order = o.id
      BY <1>0, <2>2, <3>2 DEF Knows, Ended, Exists, NoOrphan, OrdersOf, Call
    <3>3. CASE UNCHANGED <<session, orders>>
      BY <1>e, <3>1, <3>2, <3>3
    <3>4. CASE RecordOutcome(call[w].conv, call[w].outcome) /\ call[w].conv \in Conv
      <4>1. orders' = orders
            /\ session' = [session EXCEPT ![call[w].conv].outcome = call[w].outcome]
        BY <3>4 DEF RecordOutcome
      <4>2. session[call[w].conv] \in Session
        BY <1>0, <3>4 DEF RecordOutcome, Exists, NoSession
      <4>3. PICK x \in Session : x = session[call[w].conv]
        BY <4>2
      <4>4. session'[call[w].conv] = [x EXCEPT !.outcome = call[w].outcome]
        BY <1>0, <3>4, <4>1, <4>3
      <4>5. /\ session'[call[w].conv].customer = x.customer
            /\ session'[call[w].conv].status = x.status
            /\ session'[call[w].conv].order = x.order
        BY <4>4 DEF Session
      <4> QED
        BY <1>e, <3>1, <3>2, <4>1, <4>3, <4>5
    <3> QED
      BY <1>0, <1>12, <2>2, <3>3, <3>4
         DEF Outcomes, Link, FailClaimed, OnlyWorkers, storeVars, WithSession
  <2> QED
    BY <1>12, <2>1, <2>2 DEF Outcomes, Link, FailClaimed
<1> QED
  BY <1>1, <1>2, <1>3, <1>4, <1>5, <1>6, <1>7, <1>8, <1>9, <1>10, <1>11, <1>12
     DEF Step

\* A call starts without a conversation.
LEMMA StartsAfresh ==
    ASSUME PipelineTypeOK, NEW w \in Holder,
           pc[w] \in {"acquire", "record"} => call[w].conv = None,
           \/ Step(w) \/ StartSweep(w) \/ Fault(w) \/ Crash(w)
           \/ \E m \in Message : Deliver(w, m),
           pc'[w] \in {"acquire", "record"}
    PROVE  call'[w].conv = None
<1> USE DEF At, Goto
<1>0. pc \in [Holder -> Stages] /\ call \in [Holder -> Call]
  BY DEF PipelineTypeOK
<1>1. CASE Acquire(w)
  BY <1>0, <1>1 DEF Acquire
<1>2. CASE \E m \in Message : Deliver(w, m)
  BY <1>0, <1>2 DEF Deliver, NoCall
<1>6. CASE DrainNext(w)
  <2>1. pc'[w] = "acquire"
    BY <1>0, <1>6 DEF DrainNext, Answer
  <2>2. PICK m \in call[w].todo :
           call' = [call EXCEPT ![w] =
                       [Request(w) EXCEPT !.msg = m, !.nested = TRUE,
                                          !.recv = deferred[m].recv,
                                          !.todo = call[w].todo \ {m}]]
    BY <1>0, <1>6, <2>1 DEF DrainNext, Answer
  <2>3. Request(w) = [NoCall EXCEPT !.origin = call[w].origin,
                                    !.answer = call[w].answer,
                                    !.todo = call[w].todo]
    BY DEF Request
  <2> QED
    BY <1>0, <2>2, <2>3 DEF NoCall
<1>3. CASE \/ Defer(w) \/ Record(w) \/ Link(w) \/ ReleaseClaim(w) \/ DrainList(w)
           \/ Retire(w) \/ Route(w) \/ Expire(w) \/ GetOpen(w) \/ Create(w)
           \/ Reread(w)
  BY <1>0, <1>3
     DEF Defer, Record, Link, ReleaseClaim, DrainList, Retire, Route, Expire, GetOpen,
         Create, Reread, ReturnUnclaimed, Answer, Raise
<1>4. CASE \/ AppendTurnIfNew(w) \/ RecoverOrphan(w) \/ ListTurns(w) \/ Parse(w)
           \/ RenewClaim(w) \/ MergeDraft(w) \/ SaveDraft(w) \/ LookupOrder(w)
           \/ CreateDraft(w) \/ RecoverConflict(w) \/ Mark(w) \/ Outcomes(w)
  BY <1>0, <1>4
     DEF AppendTurnIfNew, RecoverOrphan, ListTurns, Parse, RenewClaim, MergeDraft,
         SaveDraft, LookupOrder, CreateDraft, RecoverConflict, Mark, Outcomes, Adopt,
         Settle, Raise, Conclude
<1>5. CASE StartSweep(w) \/ Fault(w) \/ Crash(w)
  BY <1>0, <1>5
     DEF StartSweep, Fault, Crash, FailUnclaimed, FailClaimed, FailRelease, FailDrain,
         ReturnUnclaimed, Answer, Raise, Conclude
<1> QED
  BY <1>1, <1>2, <1>3, <1>4, <1>5, <1>6 DEF Step

LEMMA AdoptionStep ==
    ASSUME PipelineInv, WritersOwn, ViewInv, LinkedOpenOrExpired,
           OneOrderPerConversation, AdoptionInv, [Next]_vars
    PROVE  AdoptionInv'
<1> USE DEF PipelineInv
<1>u. UNCHANGED storeVars => \A s \in Conv : Untouched(s)
  BY DEF storeVars, Untouched, OrdersOf
<1>1. ASSUME NEW u \in Holder, pc'[u] \in {"acquire", "record"}
      PROVE call'[u].conv = None
  <2>1. CASE pc'[u] = pc[u] /\ call'[u] = call[u]
    BY <1>1, <2>1 DEF AdoptionInv
  <2>2. CASE \/ Step(u) \/ StartSweep(u) \/ Fault(u) \/ Crash(u)
             \/ \E m \in Message : Deliver(u, m)
    BY <1>1, <2>2, StartsAfresh DEF AdoptionInv
  <2> QED
    BY <2>1, <2>2, OneMoves DEF Next, Clock, workerVars, vars
<1>2. ASSUME NEW u \in Holder, Owned(u)' PROVE Knows(u)'
  <2>1. CASE Acquire(u) /\ pc'[u] = "record"
    BY <2>1 DEF Knows, Ended, Drafting
  <2>2. CASE Owned(u) /\ Who(u)' = Who(u)
    <3>0. Knows(u) /\ Sees(u)
      BY <2>2 DEF AdoptionInv, ViewInv
    <3>a. ASSUME pc[u] \in {"append", "mark", "list"} \cup Drafting
          PROVE /\ call[u].conv \in Conv
                /\ Exists(call[u].conv) /\ session[call[u].conv].customer = Who(u)
      <4>1. pc[u] \in WithSession \ {"outcome"}
        BY <3>a DEF Drafting, WithSession
      <4>2. call[u].conv \in Conv
        BY <4>1 DEF PipelineTypeOK, Assigned
      <4> QED
        BY <3>0, <4>1, <4>2 DEF Sees, Exists
    <3>b. ASSUME Ended(u), call[u].conv # None
          PROVE /\ call[u].conv \in Conv
                /\ Exists(call[u].conv) /\ session[call[u].conv].customer = Who(u)
      <4>1. call[u].conv \in Conv
        BY <3>b DEF PipelineTypeOK, Call
      <4> QED
        BY <3>0, <3>b, <4>1 DEF Knows
    <3>1. ASSUME NEW w \in Holder, w # u,
                 \/ Step(w) \/ StartSweep(w) \/ Fault(w) \/ Crash(w)
                 \/ \E m \in Message : Deliver(w, m)
          PROVE Knows(u)'
      <4>1. pc'[u] = pc[u] /\ call'[u] = call[u]
        BY <3>1, OneMoves
      <4>2. \A s \in Conv : Exists(s) /\ session[s].customer = Who(u) => Untouched(s)
        BY <1>u, <2>2, <3>1, OthersStayAway, OtherActions
      <4> QED
        BY <3>0, <3>a, <3>b, <4>1, <4>2, KnowsOn
    <3>2. CASE \/ Step(u) \/ StartSweep(u) \/ Fault(u) \/ Crash(u)
               \/ \E m \in Message : Deliver(u, m)
      <4>1. pc'[u] \in Holding
        BY <1>2 DEF Owned
      <4>2. Step(u) \/ FailClaimed(u)
        BY <3>2, <4>1, OthersLeave
      <4> QED
        BY <2>2, <3>0, <4>1, <4>2, OwnerKnows DEF AdoptionInv
    <3>3. CASE Clock \/ UNCHANGED vars
      <4>1. pc'[u] = pc[u] /\ call'[u] = call[u] /\ UNCHANGED storeVars
        BY <3>3 DEF Clock, OnlyClaim, workerVars, vars
      <4> QED
        BY <1>u, <3>0, <3>a, <3>b, <4>1, KnowsOn
    <3> QED
      BY <3>1, <3>2, <3>3 DEF Next
  <2> QED
    BY <1>2, <2>1, <2>2, OwnedBefore
<1> QED
  BY <1>1, <1>2 DEF AdoptionInv

\* A call that got through while it held its customer leaves no order that
\* its conversation does not know, whatever crashed before it: either there
\* is none, or the call found or made it and linked it.
THEOREM OrphanIsAdoptedAlways ==
    ASSUME ~SlowWrites
    PROVE  Spec => []OrphanIsAdopted
<1>1. PipelineInit => AdoptionInv
  BY DEF PipelineInit, AdoptionInv, Owned, Holding, AdvanceStages
<1>2. /\ PipelineInv /\ WritersOwn /\ ViewInv /\ LinkedOpenOrExpired
      /\ OneOrderPerConversation /\ AdoptionInv /\ [Next]_vars
      => AdoptionInv'
  BY AdoptionStep
<1>3. AdoptionInv => OrphanIsAdopted
  BY DEF AdoptionInv, Owned, Owns, Holding, Knows, Ended, NoOrphan, OrphanIsAdopted
<1> QED
  BY <1>1, <1>2, <1>3, PipelineInvariant, WritersOwnAlways, ViewInvariant,
     CutOffOrders, TablesKeepTheirPromises, PTL DEF Spec

----------------------------------------------------------------------------
(* As long as nothing fails, what was said is kept                         *)

Taken(m) == m \in BlankMessage \/ HasTurn(m)

\* Somebody is on the way to giving the message its turn.
AtWork(m) == \E w \in Holder : pc[w] \in Unrouted /\ call[w].msg = m

\* The request around the call has an answer already.
Answered(w) == call[w].nested \/ pc[w] \in {"drainlist", "drainnext", "retire"}

\* Who reports a message as finished, or has done so, reports one that is
\* taken care of.
Reports(w) ==
    /\ pc[w] = "retire" => Taken(call[w].msg)
    /\ pc[w] = "release" /\ call[w].reply \in Finished => Taken(call[w].msg)
    /\ call[w].origin # None /\ Answered(w) /\ call[w].answer \in Finished =>
          Taken(call[w].origin)

QuietInv ==
    /\ \A m \in recorded : Taken(m) \/ AtWork(m)
    /\ \A w \in Holder : Reports(w)
    /\ \A m \in Message : deferred[m].status = "done" => Taken(m)
    /\ \A m \in acked : Taken(m) \/ m \in Pending

KeptInv == spent.failures = 0 => QuietInv

\* A step after which nothing failed yet is no failure.
LEMMA NothingFailed ==
    ASSUME PipelineTypeOK, [Next]_vars, spent'.failures = 0
    PROVE  /\ spent.failures = 0
           /\ \/ \E w \in Holder : \/ Step(w) \/ StartSweep(w)
                                   \/ \E m \in Message : Deliver(w, m)
              \/ Clock \/ UNCHANGED vars
<1>0. spent \in [deliveries : Nat, failures : Nat]
  BY DEF PipelineTypeOK
<1> USE DEF At
<1>1. ASSUME NEW w \in Holder, Step(w) PROVE UNCHANGED spent
  <2>1. CASE \/ Acquire(w) \/ Defer(w) \/ Record(w) \/ Link(w) \/ ReleaseClaim(w)
             \/ DrainList(w) \/ DrainNext(w) \/ Retire(w)
    BY <2>1 DEF Acquire, Defer, Record, Link, ReleaseClaim, DrainList, DrainNext,
                Retire
  <2>2. CASE \/ Route(w) \/ Expire(w) \/ GetOpen(w) \/ Create(w) \/ Reread(w)
             \/ AppendTurnIfNew(w) \/ RecoverOrphan(w) \/ ListTurns(w) \/ Parse(w)
    BY <2>2 DEF Route, Expire, GetOpen, Create, Reread, AppendTurnIfNew, RecoverOrphan,
                ListTurns, Parse
  <2>3. CASE \/ RenewClaim(w) \/ MergeDraft(w) \/ SaveDraft(w) \/ LookupOrder(w)
             \/ CreateDraft(w) \/ RecoverConflict(w) \/ Mark(w) \/ Outcomes(w)
    BY <2>3 DEF RenewClaim, MergeDraft, SaveDraft, LookupOrder, CreateDraft,
                RecoverConflict, Mark, Outcomes
  <2> QED
    BY <1>1, <2>1, <2>2, <2>3 DEF Step
<1>2. ASSUME NEW w \in Holder, Fault(w) \/ Crash(w) PROVE FALSE
  BY <1>0, <1>2 DEF Fault, Crash, Failing
<1>3. ASSUME NEW w \in Holder, StartSweep(w) \/ \E m \in Message : Deliver(w, m)
      PROVE spent.failures = 0
  BY <1>0, <1>3 DEF StartSweep, Deliver
<1>4. CASE Clock \/ UNCHANGED vars
  BY <1>4 DEF Clock, vars
<1> QED
  BY <1>1, <1>2, <1>3, <1>4 DEF Next

LEMMA TakenStays ==
    ASSUME PipelineInv, [Next]_vars, NEW m \in Message, Taken(m)
    PROVE  Taken(m)'
BY StepUsesStore, StoreGrows DEF PipelineInv, PipelineTypeOK, Taken, HasTurn

\* The routing ends with the turn.
LEMMA RoutingEnds ==
    ASSUME PipelineTypeOK, NEW w \in Holder, Step(w),
           pc[w] \in Unrouted, pc[w] # "reread", pc'[w] \notin Unrouted,
           NEW m \in Message, m = call[w].msg
    PROVE  /\ AppendTurnIfNew(w) /\ HasTurn(m)'
           /\ pc'[w] \in {"orphan", "outcome", "link"}
<1> USE DEF At, Goto, Unrouted
<1>0. pc \in [Holder -> Stages] /\ call \in [Holder -> Call]
  BY DEF PipelineTypeOK
<1>1. CASE Route(w) \/ Expire(w) \/ GetOpen(w) \/ Create(w) \/ Reread(w)
  BY <1>0, <1>1 DEF Route, Expire, GetOpen, Create, Reread
<1>2. CASE AppendTurnIfNew(w)
  <2>2. PICK s \in Conv : s = call[w].conv
    BY <1>2 DEF AppendTurnIfNew, PipelineTypeOK, Assigned, WithSession
  <2>3. pc'[w] \in {"orphan", "outcome", "link"}
    BY <1>0, <1>2 DEF AppendTurnIfNew, Settle
  <2>4. HasTurn(m)'
    <3>1. CASE AppendTurn(s, m, call[w].recv)
      <4>1. m \in Transcript(s)'
        BY <3>1, TurnAppended DEF PipelineTypeOK
      <4> QED
        BY <4>1 DEF HasTurn
    <3>2. CASE HasTurn(m) /\ UNCHANGED turns
      BY <3>2 DEF HasTurn, Transcript
    <3> QED
      BY <1>2, <2>2, <3>1, <3>2 DEF AppendTurnIfNew, storeVars
  <2> QED
    BY <1>2, <2>3, <2>4
<1>3. CASE \/ Acquire(w) \/ Defer(w) \/ Record(w) \/ Link(w) \/ ReleaseClaim(w)
           \/ DrainList(w) \/ DrainNext(w) \/ Retire(w)
  BY <1>3 DEF Acquire, Defer, Record, Link, ReleaseClaim, DrainList, DrainNext, Retire
<1>4. CASE \/ RecoverOrphan(w) \/ ListTurns(w) \/ Parse(w) \/ RenewClaim(w)
           \/ MergeDraft(w) \/ SaveDraft(w) \/ LookupOrder(w) \/ CreateDraft(w)
           \/ RecoverConflict(w) \/ Mark(w) \/ Outcomes(w)
  BY <1>4 DEF RecoverOrphan, ListTurns, Parse, RenewClaim, MergeDraft, SaveDraft,
              LookupOrder, CreateDraft, RecoverConflict, Mark, Outcomes
<1> QED
  BY <1>1, <1>2, <1>3, <1>4 DEF Step

\* A recorded message is taken care of, or somebody is at it.
LEMMA RecordedStep ==
    ASSUME PipelineInv, WritersOwn, ViewInv, [Next]_vars, QuietInv, spent'.failures = 0
    PROVE  \A m \in recorded' : Taken(m)' \/ AtWork(m)'
<1> USE DEF PipelineInv
<1>0. /\ pc \in [Holder -> Stages] /\ call \in [Holder -> Call]
      /\ recorded \subseteq Message
  BY DEF PipelineTypeOK
<1>1. ASSUME NEW m \in recorded PROVE Taken(m)' \/ AtWork(m)'
  <2>0. m \in Message
    BY <1>0
  <2>1. CASE Taken(m)
    BY <2>0, <2>1, TakenStays
  <2>2. ASSUME NEW v \in Holder, pc[v] \in Unrouted, call[v].msg = m
        PROVE Taken(m)' \/ AtWork(m)'
    <3>1. CASE pc'[v] = pc[v] /\ call'[v] = call[v]
      BY <2>2, <3>1 DEF AtWork
    <3>2. CASE Step(v)
      <4>1. pc[v] # "reread"
        BY <2>2 DEF WritersOwn, ViewInv, Sees, Owned, Writing, Holding, AdvanceStages
      <4>2. CASE pc'[v] \in Unrouted
        <5>1. call'[v].msg = call[v].msg
          BY <3>2, <4>2, LocalsAreKept DEF Kept, Unrouted, Holding, AdvanceStages
        <5> QED
          BY <2>2, <4>2, <5>1 DEF AtWork
      <4>3. CASE pc'[v] \notin Unrouted
        BY <2>0, <2>2, <3>2, <4>1, <4>3, RoutingEnds DEF Taken
      <4> QED
        BY <4>2, <4>3
    <3>3. ASSUME NEW w \in Holder, w # v,
                 \/ Step(w) \/ StartSweep(w) \/ \E n \in Message : Deliver(w, n)
          PROVE pc'[v] = pc[v] /\ call'[v] = call[v]
      BY <3>3, OneMoves
    <3>4. ~StartSweep(v) /\ ~\E n \in Message : Deliver(v, n)
      BY <2>2 DEF StartSweep, Deliver, At, Unrouted
    <3>5. CASE Clock \/ UNCHANGED vars
      BY <3>1, <3>5 DEF Clock, workerVars, vars
    <3> QED
      BY <3>1, <3>2, <3>3, <3>4, <3>5, NothingFailed
  <2> QED
    BY <2>1, <2>2 DEF QuietInv, AtWork
<1>2. ASSUME NEW m \in recorded', m \notin recorded PROVE Taken(m)' \/ AtWork(m)'
  <2>1. PICK w \in Holder : Record(w)
    <3>1. \E w \in Holder : Step(w) /\ ~UNCHANGED recorded
      BY <1>2, NothingFailed DEF StartSweep, Deliver, Clock, OnlyWorkers, OnlyClaim,
                                 ledgerVars, vars
    <3> QED
      BY <3>1, OnlyRecordRecords
  <2>2. m = call[w].msg
    BY <1>2, <2>1 DEF Record
  <2>3. CASE m \in BlankMessage
    BY <2>3 DEF Taken
  <2>4. CASE m \notin BlankMessage
    <3>1. pc'[w] = "route" /\ call' = call
      BY <1>0, <1>2, <2>1, <2>2, <2>4 DEF Record, Goto
    <3> QED
      BY <2>2, <3>1 DEF AtWork, Unrouted
  <2> QED
    BY <2>3, <2>4
<1> QED
  BY <1>1, <1>2

\* Nobody records a message that somebody is at.
LEMMA DuplicatesAreTaken ==
    ASSUME PipelineTypeOK, WritersOwn, QuietInv, NEW w \in Holder,
           pc[w] = "record", call[w].msg \in recorded
    PROVE  Taken(call[w].msg)
<1> SUFFICES ASSUME NEW v \in Holder, pc[v] \in Unrouted, call[v].msg = call[w].msg
             PROVE FALSE
  BY DEF QuietInv, AtWork
<1>1. Owns(v) /\ Owns(w)
  BY DEF WritersOwn, Unrouted, Writing, AdvanceStages
<1>2. v = w
  BY <1>1 DEF Owns, Who
<1> QED
  BY <1>2 DEF Unrouted

\* A worker that comes to report its message knows that it is taken care of.
LEMMA ReporterKnows ==
    ASSUME PipelineInv, LedgerInv, BelongInv, WritersOwn, ViewInv, [Next]_vars,
           QuietInv, NEW w \in Holder, Step(w),
           \/ pc'[w] = "retire"
           \/ pc'[w] = "release" /\ call'[w].reply \in Finished
    PROVE  Taken(call[w].msg) /\ call'[w].msg = call[w].msg
<1> USE DEF PipelineInv
<1>0. pc \in [Holder -> Stages] /\ call \in [Holder -> Call] /\ call[w] \in Call
  BY DEF PipelineTypeOK
<1>1. CASE pc'[w] = "retire"
  <2>1. ReleaseClaim(w)
    BY <1>0, <1>1, StepsInside
       DEF Holding, AdvanceStages, Acquire, Defer, DrainList, DrainNext, Retire,
           ReturnUnclaimed, Answer, Goto
  <2>2. pc[w] = "release" /\ call[w].reply # "error" /\ UNCHANGED call
    BY <1>0, <1>1, <2>1 DEF ReleaseClaim, At, Goto
  <2>3. call[w].reply \in Finished
    BY <2>2 DEF LedgerInv, PastRecord
  <2> QED
    BY <2>2, <2>3 DEF QuietInv, Reports
<1>2. CASE pc'[w] = "release" /\ call'[w].reply \in Finished
  <2>1. pc'[w] \in Holding
    BY <1>2 DEF Holding
  <2>2. call'[w].msg = call[w].msg
    BY <2>1, LocalsAreKept DEF Kept
  <2>3. pc[w] \in Holding
    <3>1. ~Acquire(w)
      BY <1>0, <1>2 DEF Acquire, Goto
    <3> QED
      BY <2>1, <3>1, HoldingGoesOn
  <2>4. CASE pc[w] = "record"
    <3>1. Record(w)
      BY <1>2, <2>4, RepliesHaveReasons
    <3>2. call[w].msg \in recorded \/ call[w].msg \in BlankMessage
      BY <1>0, <1>2, <3>1 DEF Record, Goto
    <3> QED
      BY <2>2, <2>4, <3>2, DuplicatesAreTaken DEF Taken
  <2>5. CASE pc[w] = "release"
    <3>1. ReleaseClaim(w)
      BY <2>5, FromRelease
    <3> QED
      BY <1>0, <1>2, <3>1 DEF ReleaseClaim, Goto
  <2>6. CASE pc[w] \in Unrouted
    <3>1. pc[w] # "reread" /\ call[w].msg \in Message
      BY <2>6 DEF WritersOwn, ViewInv, Sees, Owned, Writing, Holding, AdvanceStages,
                  PipelineTypeOK, Assigned, Unrouted
    <3>2. pc'[w] \in {"orphan", "outcome", "link"}
      BY <1>2, <2>6, <3>1, RoutingEnds DEF Unrouted
    <3> QED
      BY <1>2, <3>2
  <2>7. CASE pc[w] \in Placing \ {"append"}
    BY <2>2, <2>7 DEF BelongInv, Placed, Taken, HasTurn
  <2> QED
    BY <2>3, <2>4, <2>5, <2>6, <2>7
       DEF Holding, Placing, Unrouted, Advancing, AdvanceStages
<1> QED
  BY <1>1, <1>2

\* An answer that is kept for the end of the request stays true.
LEMMA AnswersStay ==
    ASSUME PipelineInv, LedgerInv, QuietInv, [Next]_vars, NEW w \in Holder,
           \/ Step(w) \/ StartSweep(w) \/ \E m \in Message : Deliver(w, m),
           call'[w].origin # None, Answered(w)', call'[w].answer \in Finished
    PROVE  Taken(call'[w].origin)
<1> USE DEF PipelineInv, Answered
<1>0. pc \in [Holder -> Stages] /\ call \in [Holder -> Call] /\ call[w] \in Call
  BY DEF PipelineTypeOK
<1>1. CASE /\ call'[w].origin = call[w].origin /\ call'[w].answer = call[w].answer
           /\ Answered(w)
  BY <1>1 DEF QuietInv, Reports
<1>2. CASE Step(w) /\ pc'[w] \in Holding
  <2>1. Kept(w)
    BY <1>2, LocalsAreKept
  <2>2. call[w].nested
    BY <1>2, <2>1 DEF Kept, Holding, AdvanceStages
  <2> QED
    BY <1>1, <2>1, <2>2 DEF Kept
<1>3. CASE Acquire(w)
  BY <1>0, <1>1, <1>3 DEF Acquire, Goto
<1>4. CASE Defer(w)
  <2>1. CASE call[w].nested /\ UNCHANGED call
    BY <1>1, <2>1
  <2>2. CASE call' = [call EXCEPT ![w] = NoCall]
    BY <1>0, <2>2 DEF NoCall
  <2> QED
    BY <1>4, <2>1, <2>2 DEF Defer, ReturnUnclaimed, Answer
<1>5. CASE ReleaseClaim(w)
  <2>1. CASE call[w].nested /\ UNCHANGED call
    BY <1>1, <2>1
  <2>2. CASE ~call[w].nested /\ call' = [call EXCEPT ![w].answer = call[w].reply]
    <3>1. call'[w].answer = call[w].reply /\ call'[w].origin = call[w].origin
      BY <1>0, <2>2 DEF Call
    <3>2. pc[w] = "release"
      BY <1>5 DEF ReleaseClaim, At
    <3>3. call[w].msg = call[w].origin
      BY <2>2, <3>1, <3>2 DEF LedgerInv, AnswerIsTrue
    <3>4. Taken(call[w].msg)
      BY <3>1, <3>2 DEF QuietInv, Reports
    <3> QED
      BY <3>1, <3>3, <3>4
  <2> QED
    BY <1>5, <2>1, <2>2 DEF ReleaseClaim
<1>6. CASE DrainList(w) \/ StartSweep(w)
  <2>1. PICK rows : call' = [call EXCEPT ![w].todo = rows]
    BY <1>6 DEF DrainList, StartSweep
  <2>2. /\ call'[w].origin = call[w].origin /\ call'[w].answer = call[w].answer
        /\ call'[w].nested = call[w].nested
    BY <1>0, <2>1 DEF Call
  <2>3. pc[w] \in {"drainlist", "idle"}
    BY <1>6 DEF DrainList, StartSweep, At
  <2>4. pc[w] = "idle" => call[w].nested
    BY <2>2 DEF LedgerInv, AnswerIsTrue, Holding, AdvanceStages
  <2> QED
    BY <1>1, <2>2, <2>3, <2>4
<1>7. CASE DrainNext(w)
  <2>1. CASE Answer(w, call[w].answer)
    BY <1>0, <2>1 DEF Answer, NoCall
  <2>2. ASSUME NEW m, call' = [call EXCEPT ![w] =
                           [Request(w) EXCEPT !.msg = m, !.nested = TRUE,
                                              !.recv = deferred[m].recv,
                                              !.todo = call[w].todo \ {m}]]
        PROVE call'[w].origin = call[w].origin /\ call'[w].answer = call[w].answer
    BY <1>0, <2>2 DEF Request, NoCall
  <2> QED
    BY <1>1, <1>7, <2>1, <2>2 DEF DrainNext, At
<1>8. CASE Retire(w)
  BY <1>1, <1>8 DEF Retire, At
<1>9. ASSUME NEW m \in Message, Deliver(w, m) PROVE FALSE
  <2>1. ~call'[w].nested /\ pc'[w] = "acquire"
    BY <1>0, <1>9 DEF Deliver, Goto, NoCall
  <2> QED
    BY <2>1
<1> QED
  BY <1>2, <1>3, <1>4, <1>5, <1>6, <1>7, <1>8, <1>9, StepsInside

LEMMA ReportsStep ==
    ASSUME PipelineInv, LedgerInv, BelongInv, WritersOwn, ViewInv, [Next]_vars,
           QuietInv, spent'.failures = 0, NEW u \in Holder
    PROVE  Reports(u)'
<1> USE DEF PipelineInv
<1>0. /\ pc \in [Holder -> Stages] /\ call \in [Holder -> Call]
      /\ pc'[u] \notin {"idle", "drainnext"} => call'[u].msg \in Message
      /\ call'[u].origin \in Message \cup {None}
  <2>1. PipelineTypeOK'
    BY PipelineTypeStep
  <2>2. call'[u] \in Call
    BY <2>1 DEF PipelineTypeOK
  <2> QED
    BY <2>1, <2>2 DEF PipelineTypeOK, Assigned, Call
<1>t. \A m \in Message : Taken(m) => Taken(m)'
  BY TakenStays
<1>p. ASSUME pc'[u] = "retire" => Taken(call'[u].msg),
             pc'[u] = "release" /\ call'[u].reply \in Finished => Taken(call'[u].msg),
             call'[u].origin # None /\ Answered(u)' /\ call'[u].answer \in Finished
             => Taken(call'[u].origin)
      PROVE Reports(u)'
  <2>1. PICK m : m = call'[u].msg
    OBVIOUS
  <2>2. PICK g : g = call'[u].origin
    OBVIOUS
  <2>3. /\ pc'[u] = "retire" => Taken(m)'
        /\ pc'[u] = "release" /\ call'[u].reply \in Finished => Taken(m)'
    BY <1>0, <1>p, <1>t, <2>1
  <2>4. g # None /\ Answered(u)' /\ call'[u].answer \in Finished => Taken(g)'
    BY <1>0, <1>p, <1>t, <2>2
  <2>5. Taken(call[u].msg)' <=> Taken(m)'
    BY <2>1 DEF Taken, HasTurn, Transcript
  <2>6. Taken(call[u].origin)' <=> Taken(g)'
    BY <2>2 DEF Taken, HasTurn, Transcript
  <2>7. /\ pc'[u] = "retire" => Taken(call[u].msg)'
        /\ pc'[u] = "release" /\ call'[u].reply \in Finished => Taken(call[u].msg)'
    BY <2>3, <2>5
  <2>8. call'[u].origin # None /\ Answered(u)' /\ call'[u].answer \in Finished
           => Taken(call[u].origin)'
    BY <2>2, <2>4, <2>6
  <2> QED
    BY <2>7, <2>8 DEF Reports
<1>1. CASE pc'[u] = pc[u] /\ call'[u] = call[u]
  <2>1. Answered(u)' = Answered(u)
    BY <1>1 DEF Answered
  <2> QED
    BY <1>1, <1>p, <2>1 DEF QuietInv, Reports
<1>2. ASSUME NEW w \in Holder, w # u,
             \/ Step(w) \/ StartSweep(w) \/ \E n \in Message : Deliver(w, n)
      PROVE pc'[u] = pc[u] /\ call'[u] = call[u]
  BY <1>2, OneMoves
<1>3. CASE \/ Step(u) \/ StartSweep(u) \/ \E n \in Message : Deliver(u, n)
  <2>1. /\ pc'[u] = "retire" => Taken(call'[u].msg)
        /\ pc'[u] = "release" /\ call'[u].reply \in Finished => Taken(call'[u].msg)
    <3>1. CASE Step(u)
      BY <3>1, ReporterKnows
    <3>2. CASE StartSweep(u) \/ \E n \in Message : Deliver(u, n)
      BY <1>0, <3>2 DEF StartSweep, Deliver, Goto
    <3> QED
      BY <1>3, <3>1, <3>2
  <2> QED
    BY <1>3, <1>p, <2>1, AnswersStay
<1>4. CASE Clock \/ UNCHANGED vars
  BY <1>1, <1>4 DEF Clock, workerVars, vars
<1> QED
  BY <1>1, <1>2, <1>3, <1>4, NothingFailed

\* What the queue has let go and what was answered is taken care of.
LEMMA QueueKept ==
    ASSUME PipelineInv, LedgerInv, QuietInv, [Next]_vars
    PROVE  /\ \A m \in Message : deferred'[m].status = "done" => Taken(m)'
           /\ \A m \in Pending : m \in Pending' \/ Taken(m)'
<1> USE DEF PipelineInv
<1>0. deferred \in [Message -> [status : {"none", "pending", "done"},
                                recv : Time, at : Time]]
  BY DEF PipelineTypeOK
<1>t. \A m \in Message : Taken(m) => Taken(m)'
  BY TakenStays
<1>1. ASSUME NEW m \in Message
      PROVE \/ deferred'[m].status = deferred[m].status
            \/ deferred[m].status = "none" /\ deferred'[m].status = "pending"
            \/ Taken(m)
  <2>1. ASSUME NEW w \in Holder, Defer(w)
        PROVE \/ deferred'[m].status = deferred[m].status
              \/ deferred[m].status = "none" /\ deferred'[m].status = "pending"
    BY <1>0, <2>1 DEF Defer
  <2>2. ASSUME NEW w \in Holder, Retire(w)
        PROVE deferred'[m].status = deferred[m].status \/ Taken(m)
    <3>1. Taken(call[w].msg)
      BY <2>2 DEF Retire, At, QuietInv, Reports
    <3>2. CASE call[w].msg = m
      BY <3>1, <3>2
    <3>3. CASE call[w].msg # m
      BY <1>0, <2>2, <3>3 DEF Retire
    <3> QED
      BY <3>2, <3>3
  <2>3. CASE UNCHANGED deferred
    BY <2>3
  <2> QED
    BY <2>1, <2>2, <2>3, QueueActions
<1>2. \A m \in Message : deferred'[m].status = "done" => Taken(m)'
  BY <1>0, <1>1, <1>t DEF QuietInv
<1>3. \A m \in Pending : m \in Pending' \/ Taken(m)'
  BY <1>0, <1>1, <1>t DEF Pending
<1> QED
  BY <1>2, <1>3

LEMMA AnswersKept ==
    ASSUME PipelineInv, LedgerInv, QuietInv, [Next]_vars, spent'.failures = 0
    PROVE  \A m \in acked' : Taken(m)' \/ m \in Pending'
<1> USE DEF PipelineInv
<1>0. /\ call \in [Holder -> Call] /\ acked \subseteq Message
      /\ deferred \in [Message -> [status : {"none", "pending", "done"},
                                   recv : Time, at : Time]]
  BY DEF PipelineTypeOK
<1>t. \A m \in Message : Taken(m) => Taken(m)'
  BY TakenStays
<1>o. \A m \in acked : Taken(m)' \/ m \in Pending'
  BY <1>0, <1>t, QueueKept DEF QuietInv
<1>1. ASSUME NEW w \in Holder, Defer(w), NEW m \in acked', m \notin acked
      PROVE Taken(m)' \/ m \in Pending'
  <2>1. /\ pc[w] = "defer" /\ call[w].origin # None /\ m = call[w].origin
        /\ ~call[w].nested
    BY <1>1 DEF Defer, At, ReturnUnclaimed, Answer
  <2>2. m = call[w].msg /\ m \in Message
    BY <2>1 DEF LedgerInv, AnswerIsTrue, PipelineTypeOK, Assigned
  <2>3. deferred'[m].status \in {"pending", "done"}
    BY <1>0, <1>1, <2>2 DEF Defer
  <2> QED
    BY <2>2, <2>3, QueueKept DEF Pending
<1>2. ASSUME NEW w \in Holder, DrainNext(w), NEW m \in acked', m \notin acked
      PROVE Taken(m)' \/ m \in Pending'
  <2>1. /\ pc[w] = "drainnext" /\ call[w].origin # None /\ m = call[w].origin
        /\ call[w].answer # "error"
    BY <1>2 DEF DrainNext, At, Answer
  <2>2. call[w].answer \in Finished
    BY <2>1 DEF LedgerInv, AnswerIsTrue, Holding, AdvanceStages
  <2>3. Taken(m) /\ m \in Message
    BY <1>0, <2>1, <2>2, PipelineAssumption DEF QuietInv, Reports, Answered, Call
  <2> QED
    BY <1>t, <2>3
<1>3. \/ UNCHANGED acked \/ \E w \in Holder : Defer(w) \/ DrainNext(w)
  BY NothingFailed, OnlyTwoAnswer DEF StartSweep, Deliver, Clock, OnlyWorkers, OnlyClaim, vars
<1> QED
  BY <1>o, <1>1, <1>2, <1>3

LEMMA KeptStep ==
    ASSUME PipelineInv, LedgerInv, BelongInv, WritersOwn, ViewInv, KeptInv, [Next]_vars
    PROVE  KeptInv'
<1> SUFFICES ASSUME spent'.failures = 0 PROVE QuietInv'
  BY DEF KeptInv
<1>1. QuietInv
  BY NothingFailed DEF PipelineInv, KeptInv
<1>2. \A m \in recorded' : Taken(m)' \/ AtWork(m)'
  BY <1>1, RecordedStep
<1>3. \A w \in Holder : Reports(w)'
  BY <1>1, ReportsStep
<1> QED
  BY <1>1, <1>2, <1>3, QueueKept, AnswersKept DEF QuietInv

LEMMA KeptInvariant ==
    ASSUME ~SlowWrites
    PROVE  Spec => []KeptInv
<1>1. PipelineInit => KeptInv
  BY DEF PipelineInit, KeptInv, QuietInv, Reports, NoCall, NotDeferred
<1>2. /\ PipelineInv /\ LedgerInv /\ BelongInv /\ WritersOwn /\ ViewInv /\ KeptInv
      /\ [Next]_vars
      => KeptInv'
  BY KeptStep
<1> QED
  BY <1>1, <1>2, PipelineInvariant, LedgerInvariant, BelongInvariant,
     WritersOwnAlways, ViewInvariant, PTL DEF Spec

\* As long as nothing failed, a message with text that was answered 200 or 202
\* has its turn or waits in the queue.  The word "duplicate" is true because
\* the call that recorded the message first owned the customer until the
\* message had its turn.
THEOREM AckedIsKeptAlways ==
    ASSUME ~SlowWrites
    PROVE  Spec => []AckedIsKept
<1>1. KeptInv => AckedIsKept
  BY DEF KeptInv, QuietInv, AckedIsKept, Taken
<1> QED
  BY <1>1, KeptInvariant, PTL
============================================================================
