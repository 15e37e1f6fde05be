----------------------- MODULE InboundPipelineProofs -----------------------
(***************************************************************************)
(* Theorems about the inbound pipeline, for any number of workers,         *)
(* messages, customers, conversations and failures.                        *)
(*                                                                         *)
(* First the workers' steps are shown to be steps of the claim protocol    *)
(* and of the conversation store, which makes every theorem about those    *)
(* two hold of the pipeline.  On top of the claim protocol rests the       *)
(* exclusion of writers.  Then the ledger: what Twilio and the queue are   *)
(* told is true.                                                           *)
(***************************************************************************)
EXTENDS InboundPipeline, TableProofs

\* A worker that holds a call's claim stage but no belief in a lease was told
\* so by renew, and the row is not its own any more.
LostIsDisplaced ==
    \A w \in Holder :
        pc[w] \in Holding /\ leaseEnd[w][Who(w)] = 0 => claim[Who(w)].holder # w

PipelineInv == PipelineTypeOK /\ LostIsDisplaced

----------------------------------------------------------------------------
(* Which actions touch which tables                                        *)

\* A worker changes the claim table in three places only.
LEMMA ClaimActions ==
    ASSUME NEW w \in Holder, Step(w)
    PROVE  Acquire(w) \/ ReleaseClaim(w) \/ RenewClaim(w) \/ UNCHANGED claimVars
<1> USE DEF OnlyWorkers, OnlyStore
<1>1. CASE Defer(w) \/ Record(w) \/ Link(w) \/ DrainNext(w) \/ Retire(w)
  BY <1>1 DEF Defer, Record, Link, DrainNext, Retire
<1>2. CASE DrainList(w) \/ Route(w) \/ GetOpen(w) \/ Reread(w)
  BY <1>2 DEF DrainList, Route, GetOpen, Reread
<1>3. CASE RecoverOrphan(w) \/ ListTurns(w) \/ Parse(w) \/ MergeDraft(w)
             \/ LookupOrder(w) \/ RecoverConflict(w)
  BY <1>3 DEF RecoverOrphan, ListTurns, Parse, MergeDraft, LookupOrder,
              RecoverConflict
<1>4. CASE Expire(w) \/ Create(w) \/ AppendTurnIfNew(w) \/ SaveDraft(w)
             \/ CreateDraft(w) \/ Mark(w) \/ Outcomes(w)
  BY <1>4 DEF Expire, Create, AppendTurnIfNew, SaveDraft, CreateDraft, Mark,
              Outcomes
<1> QED
  BY <1>1, <1>2, <1>3, <1>4 DEF Step

\* A worker changes the conversation tables in seven places only.
LEMMA StoreActions ==
    ASSUME NEW w \in Holder, Step(w)
    PROVE  \/ Expire(w) \/ Create(w) \/ AppendTurnIfNew(w) \/ SaveDraft(w)
           \/ CreateDraft(w) \/ Mark(w) \/ Outcomes(w)
           \/ UNCHANGED storeVars
<1> USE DEF OnlyWorkers, OnlyClaim
<1>1. CASE Defer(w) \/ Record(w) \/ Link(w) \/ DrainNext(w) \/ Retire(w)
  BY <1>1 DEF Defer, Record, Link, DrainNext, Retire
<1>2. CASE DrainList(w) \/ Route(w) \/ GetOpen(w) \/ Reread(w)
  BY <1>2 DEF DrainList, Route, GetOpen, Reread
<1>3. CASE RecoverOrphan(w) \/ ListTurns(w) \/ Parse(w) \/ MergeDraft(w)
             \/ LookupOrder(w) \/ RecoverConflict(w)
  BY <1>3 DEF RecoverOrphan, ListTurns, Parse, MergeDraft, LookupOrder,
              RecoverConflict
<1>4. CASE Acquire(w) \/ ReleaseClaim(w) \/ RenewClaim(w)
  BY <1>4 DEF Acquire, ReleaseClaim, RenewClaim
<1> QED
  BY <1>1, <1>2, <1>3, <1>4 DEF Step

\* Outside the steps of a call, only failures and the clock change the claim
\* protocol's state, and nothing changes the conversation tables.
LEMMA OtherActions ==
    ASSUME NEW w \in Holder,
           StartSweep(w) \/ Fault(w) \/ Crash(w) \/ \E m \in Message : Deliver(w, m)
    PROVE  (Abandon(w) \/ UNCHANGED claimVars) /\ UNCHANGED storeVars
<1> USE DEF OnlyWorkers
<1>1. CASE StartSweep(w) \/ Crash(w) \/ \E m \in Message : Deliver(w, m)
  BY <1>1 DEF StartSweep, Crash, Deliver
<1>2. CASE Fault(w)
  BY <1>2 DEF Fault, FailUnclaimed, FailClaimed, FailRelease, FailDrain
<1> QED
  BY <1>1, <1>2

----------------------------------------------------------------------------
(* How an action moves its worker                                          *)

\* A worker goes to a stage with the locals r, and nobody else moves.
Moves(w, stage, r) ==
    /\ pc' = [pc EXCEPT ![w] = stage]
    /\ call' = [call EXCEPT ![w] = r]

\* The locals r are of their types, and assigned as far as the stage needs.
Ready(stage, r) ==
    /\ stage \in Stages
    /\ r \in Call
    /\ stage \notin {"idle", "drainnext"} => r.msg \in Message
    /\ stage \in WithSession => r.conv \in Conv
    /\ stage = "mark" => r.order \in OrderIds'
    /\ stage \in {"mark", "outcome"} => r.outcome \in Outcome

\* A worker that moves to a stage its locals are ready for keeps the types
\* of the worker variables.
LEMMA WorkerTypes ==
    ASSUME PipelineTypeOK, NEW w \in Holder, NEW stage, NEW r,
           Moves(w, stage, r), Ready(stage, r), OrderIds \subseteq OrderIds'
    PROVE  /\ pc' \in [Holder -> Stages]
           /\ call' \in [Holder -> Call]
           /\ \A v \in Holder : Assigned(v)'
<1> USE DEF PipelineTypeOK, Moves, Ready
<1>1. pc' \in [Holder -> Stages] /\ call' \in [Holder -> Call]
  OBVIOUS
<1>2. Assigned(w)'
  <2>1. pc'[w] = stage /\ call'[w] = r
    OBVIOUS
  <2> QED
    BY <2>1 DEF Assigned
<1>3. ASSUME NEW v \in Holder, v # w PROVE Assigned(v)'
  <2>1. pc'[v] = pc[v] /\ call'[v] = call[v]
    BY <1>3
  <2>2. Assigned(v)
    OBVIOUS
  <2> QED
    BY <2>1, <2>2 DEF Assigned
<1> QED
  BY <1>1, <1>2, <1>3

Moved(w) == \E stage \in Stages, r \in Call :
                Moves(w, stage, r) /\ Ready(stage, r)

\* An assignment to one local gives locals of the right types again.
LEMMA LocalUpdates ==
    ASSUME NEW r \in Call
    PROVE  /\ \A x \in Replies \cup {None} : [r EXCEPT !.reply = x] \in Call
           /\ \A x \in Replies \cup {None} : [r EXCEPT !.answer = x] \in Call
           /\ \A x \in BOOLEAN : [r EXCEPT !.fresh = x] \in Call
           /\ \A x \in SUBSET Message : [r EXCEPT !.draft = x] \in Call
           /\ \A x \in SUBSET Message : [r EXCEPT !.todo = x] \in Call
           /\ \A x \in Outcome : [r EXCEPT !.outcome = x] \in Call
           /\ \A x \in OrderId, y \in Outcome :
                 [r EXCEPT !.order = x, !.outcome = y] \in Call
           /\ \A x \in Conv, y \in {"open", "draft_created"},
                 z \in OrderId \cup {None} :
                 [r EXCEPT !.conv = x, !.status = y, !.order = z] \in Call
<1> USE DEF Call
<1>1. \A x \in Replies \cup {None} : [r EXCEPT !.reply = x] \in Call
  OBVIOUS
<1>2. \A x \in Replies \cup {None} : [r EXCEPT !.answer = x] \in Call
  OBVIOUS
<1>3. \A x \in BOOLEAN : [r EXCEPT !.fresh = x] \in Call
  OBVIOUS
<1>4. \A x \in SUBSET Message : [r EXCEPT !.draft = x] \in Call
  OBVIOUS
<1>5. \A x \in SUBSET Message : [r EXCEPT !.todo = x] \in Call
  OBVIOUS
<1>6. \A x \in Outcome : [r EXCEPT !.outcome = x] \in Call
  OBVIOUS
<1>7. \A x \in OrderId, y \in Outcome :
         [r EXCEPT !.order = x, !.outcome = y] \in Call
  OBVIOUS
<1>8. \A x \in Conv, y \in {"open", "draft_created"}, z \in OrderId \cup {None} :
         [r EXCEPT !.conv = x, !.status = y, !.order = z] \in Call
  OBVIOUS
<1> QED
  BY <1>1, <1>2, <1>3, <1>4, <1>5, <1>6, <1>7, <1>8

\* Steps to a stage that needs no more than the locals that were there.
LEMMA PlainMoves ==
    ASSUME PipelineTypeOK, NEW w \in Holder, NEW stage \in Stages, NEW r \in Call,
           Moves(w, stage, r),
           r.msg = call[w].msg, r.conv = call[w].conv,
           stage \notin {"idle", "drainnext"} => call[w].msg \in Message,
           stage \in WithSession => call[w].conv \in Conv,
           stage \notin {"mark", "outcome"}
    PROVE  Moved(w)
BY DEF Moved, Ready

\* A session read from the tables is a session to go on with.
LEMMA ReadMoves ==
    ASSUME PipelineTypeOK, NEW w \in Holder, NEW s \in Conv,
           session[s].status \in {"open", "draft_created"},
           call[w].msg \in Message, Read(w, s),
           Goto(w, "expire") \/ Goto(w, "append")
    PROVE  Moved(w)
<1> DEFINE r == [call[w] EXCEPT !.conv = s, !.status = session[s].status,
                                !.order = session[s].order]
<1>1. session[s] \in Session
  BY DEF PipelineTypeOK, StoreTypeOK, NoSession
<1>2. call[w] \in Call /\ call \in [Holder -> Call]
  BY DEF PipelineTypeOK
<1>3. r \in Call
  BY <1>1, <1>2, LocalUpdates DEF Session
<1>4. r.msg = call[w].msg /\ r.conv = s
  BY <1>2 DEF Call
<1>5. call' = [call EXCEPT ![w] = r]
  BY <1>2 DEF Read, Call
<1>6. \A stage \in {"expire", "append"} : Ready(stage, r)
  BY <1>3, <1>4 DEF Ready, Stages, Holding, AdvanceStages
<1> QED
  BY <1>3, <1>5, <1>6 DEF Moved, Moves, Goto, Stages, Holding, AdvanceStages

\* An order found or just inserted is an order to link the session to.
LEMMA AdoptMoves ==
    ASSUME PipelineTypeOK, NEW w \in Holder, NEW o \in OrderId, o \in OrderIds',
           NEW out \in Outcome,
           call[w].msg \in Message, call[w].conv \in Conv, Adopt(w, o, out)
    PROVE  Moved(w)
<1> DEFINE r == [call[w] EXCEPT !.order = o, !.outcome = out]
<1>1. call[w] \in Call /\ call \in [Holder -> Call]
  BY DEF PipelineTypeOK
<1>2. r \in Call
  BY <1>1, LocalUpdates
<1>3. /\ r.msg = call[w].msg /\ r.conv = call[w].conv
      /\ r.order = o /\ r.outcome = out
  BY <1>1 DEF Call
<1>4. call' = [call EXCEPT ![w] = r]
  BY <1>1 DEF Adopt, Call
<1>5. Ready("mark", r)
  BY <1>2, <1>3 DEF Ready, Stages, Holding, AdvanceStages
<1> QED
  BY <1>2, <1>4, <1>5 DEF Moved, Moves, Adopt, Goto, Ready

\* The same for an outcome that has to be recorded.
LEMMA SettleMoves ==
    ASSUME PipelineTypeOK, NEW w \in Holder, NEW out \in Outcome,
           call[w].msg \in Message, call[w].conv \in Conv, Settle(w, out)
    PROVE  Moved(w)
<1> DEFINE r == [call[w] EXCEPT !.outcome = out]
<1>1. call[w] \in Call /\ call \in [Holder -> Call]
  BY DEF PipelineTypeOK
<1>2. r \in Call
  BY <1>1, LocalUpdates
<1>3. r.msg = call[w].msg /\ r.conv = call[w].conv /\ r.outcome = out
  BY <1>1 DEF Call
<1>4. Ready("outcome", r)
  BY <1>2, <1>3 DEF Ready, Stages, Holding, AdvanceStages
<1> QED
  BY <1>2, <1>4 DEF Moved, Moves, Settle, Goto, Ready

\* A call that is over leaves its worker idle, or its drain goes on.
LEMMA EndMoves ==
    ASSUME PipelineTypeOK, NEW w \in Holder, NEW reply,
           Answer(w, reply) \/ ReturnUnclaimed(w, reply)
    PROVE  Moved(w) /\ acked' \subseteq Message
<1>1. call[w] \in Call /\ call \in [Holder -> Call]
  BY DEF PipelineTypeOK
<1>2. NoCall \in Call
  BY TenancyAssumption DEF NoCall, Call, Time
<1>3. CASE Answer(w, reply)
  <2>1. acked' \subseteq Message
    BY <1>1, <1>3, PipelineAssumption DEF Answer, PipelineTypeOK, Call
  <2>2. Ready("idle", NoCall)
    BY <1>2 DEF Ready, Stages, WithSession
  <2> QED
    BY <1>2, <1>3, <2>1, <2>2 DEF Moved, Moves, Answer, Ready
<1>4. CASE Goto(w, "drainnext") /\ UNCHANGED <<call, acked>>
  <2>1. Ready("drainnext", call[w])
    BY <1>1 DEF Ready, Stages, WithSession
  <2>2. call' = [call EXCEPT ![w] = call[w]]
    BY <1>1, <1>4
  <2> QED
    BY <1>1, <1>4, <2>1, <2>2 DEF Moved, Moves, Goto, PipelineTypeOK, Ready
<1> QED
  BY <1>3, <1>4 DEF ReturnUnclaimed

\* So is an exception, and a call that advance() is done with.
LEMMA RaiseMoves ==
    ASSUME PipelineTypeOK, NEW w \in Holder, pc[w] \notin {"idle", "drainnext"},
           Raise(w) \/ Conclude(w)
    PROVE  Moved(w)
<1>1. call[w] \in Call /\ call \in [Holder -> Call] /\ call[w].msg \in Message
  BY DEF PipelineTypeOK, Assigned
<1>2. \A x \in Replies : [call[w] EXCEPT !.reply = x] \in Call
  BY <1>1, LocalUpdates
<1>3. \A x \in Replies : Ready("release", [call[w] EXCEPT !.reply = x])
  BY <1>1, <1>2 DEF Ready, Stages, Holding, WithSession, Call
<1>4. CASE Goto(w, "link") /\ UNCHANGED call
  <2>1. Ready("link", call[w])
    BY <1>1 DEF Ready, Stages, Holding, WithSession
  <2>2. call' = [call EXCEPT ![w] = call[w]]
    BY <1>1, <1>4
  <2> QED
    BY <1>1, <1>4, <2>1, <2>2 DEF Moved, Moves, Goto, Ready
<1>5. ASSUME NEW x \in Replies, Goto(w, "release"),
             call' = [call EXCEPT ![w].reply = x]
      PROVE Moved(w)
  BY <1>1, <1>2, <1>3, <1>5 DEF Moved, Moves, Goto, Ready
<1> QED
  BY <1>4, <1>5 DEF Raise, Conclude, Replies

\* Every step of a worker moves it to a stage its locals are ready for.
LEMMA StepMoves ==
    ASSUME PipelineTypeOK, NEW w \in Holder, Step(w), OrderIds \subseteq OrderIds'
    PROVE  Moved(w)
<1> USE DEF At, Stages, Holding, AdvanceStages, WithSession
<1>0. /\ call[w] \in Call /\ call \in [Holder -> Call]
      /\ pc[w] \notin {"idle", "drainnext"} => call[w].msg \in Message
      /\ pc[w] \in WithSession => call[w].conv \in Conv
      /\ pc[w] \in {"mark", "outcome"} => call[w].outcome \in Outcome
      /\ pc[w] = "mark" => call[w].order \in OrderIds
  BY DEF PipelineTypeOK, Assigned
<1>u. \A x \in Replies \cup {None} :
         /\ [call[w] EXCEPT !.reply = x] \in Call
         /\ [call[w] EXCEPT !.answer = x] \in Call
  BY <1>0, LocalUpdates
<1>v. \A x \in SUBSET Message :
         /\ [call[w] EXCEPT !.draft = x] \in Call
         /\ [call[w] EXCEPT !.todo = x] \in Call
  BY <1>0, LocalUpdates
\* A step that leaves the locals as they are.
<1>p. ASSUME NEW stage \in Stages, Goto(w, stage), UNCHANGED call,
             stage \notin {"mark", "outcome", "idle"},
             pc[w] \notin {"idle", "drainnext"} \/ stage = "drainnext",
             stage \in WithSession => pc[w] \in WithSession
      PROVE Moved(w)
  <2>1. Moves(w, stage, call[w])
    BY <1>0, <1>p DEF Moves, Goto
  <2> QED
    BY <1>0, <1>p, <2>1, PlainMoves
\* A step that changes a local of no consequence for the next stage.
<1>q. ASSUME NEW stage \in Stages, NEW r \in Call, Moves(w, stage, r),
             r.msg = call[w].msg, r.conv = call[w].conv,
             stage \notin {"mark", "outcome", "idle"},
             pc[w] \notin {"idle", "drainnext"},
             stage \in WithSession => pc[w] \in WithSession
      PROVE Moved(w)
  BY <1>0, <1>q, PlainMoves
<1>r. ASSUME NEW stage \in {"release", "drainlist", "link"}, Goto(w, stage),
             pc[w] \notin {"idle", "drainnext"},
             NEW x \in Replies \cup {None},
             \/ call' = [call EXCEPT ![w].reply = x]
             \/ call' = [call EXCEPT ![w].answer = x]
      PROVE Moved(w)
  <2> DEFINE r == [call[w] EXCEPT !.reply = x]
             a == [call[w] EXCEPT !.answer = x]
  <2>1. r \in Call /\ a \in Call
    BY <1>u
  <2>5. r.msg = call[w].msg /\ r.conv = call[w].conv
    BY <1>0 DEF Call
  <2>6. a.msg = call[w].msg /\ a.conv = call[w].conv
    BY <1>0 DEF Call
  <2>2. call' = [call EXCEPT ![w] = r] \/ call' = [call EXCEPT ![w] = a]
    BY <1>r
  <2>3. CASE call' = [call EXCEPT ![w] = r]
    <3> HIDE DEF r
    <3> QED
      BY <1>q, <1>r, <2>1, <2>3, <2>5 DEF Moves, Goto
  <2>4. CASE call' = [call EXCEPT ![w] = a]
    <3> HIDE DEF a
    <3> QED
      BY <1>q, <1>r, <2>1, <2>4, <2>6 DEF Moves, Goto
  <2> QED
    BY <2>2, <2>3, <2>4
<1>s. ASSUME NEW s \in Conv, session[s].status \in {"open", "draft_created"},
             pc[w] \notin {"idle", "drainnext"},
             Read(w, s), Goto(w, "expire") \/ Goto(w, "append")
      PROVE Moved(w)
  BY <1>0, <1>s, ReadMoves
<1>o. ASSUME NEW o \in orders, pc[w] \in WithSession,
             Adopt(w, o.id, "already_has_draft")
      PROVE Moved(w)
  <2>1. o.id \in OrderId /\ o.id \in OrderIds'
    BY DEF PipelineTypeOK, StoreTypeOK, Order, OrderIds
  <2> QED
    BY <1>0, <1>o, <2>1, AdoptMoves DEF Outcome
<1>e. ASSUME pc[w] \in WithSession, NEW out \in Outcome, Settle(w, out)
      PROVE Moved(w)
  BY <1>0, <1>e, SettleMoves
<1>1. CASE Acquire(w)
  BY <1>1, <1>p DEF Acquire
<1>2. CASE Defer(w)
  BY <1>2, EndMoves DEF Defer
<1>3. CASE Record(w)
  BY <1>3, <1>p, <1>r DEF Record, Replies
<1>4. CASE Link(w)
  BY <1>4, <1>r DEF Link, Replies
<1>5. CASE ReleaseClaim(w)
  <2>1. call[w].reply \in Replies \cup {None}
    BY <1>0 DEF Call
  <2> QED
    BY <1>5, <1>p, <1>r, <2>1 DEF ReleaseClaim
<1>6. CASE DrainList(w)
  <2>1. PICK rows \in SUBSET Message : call' = [call EXCEPT ![w].todo = rows]
    BY <1>6 DEF DrainList, FirstRows, PendingOf, Pending
  <2> DEFINE r == [call[w] EXCEPT !.todo = rows]
  <2>2. r \in Call /\ r.msg = call[w].msg /\ r.conv = call[w].conv
    BY <1>0, <1>v DEF Call
  <2>3. call' = [call EXCEPT ![w] = r]
    BY <2>1
  <2>4. pc[w] = "drainlist" /\ Moves(w, "drainnext", r)
    BY <1>6, <2>3 DEF DrainList, Moves, Goto
  <2> HIDE DEF r
  <2> QED
    BY <1>q, <2>2, <2>4
<1>7. CASE DrainNext(w)
  <2>1. CASE Answer(w, call[w].answer)
    BY <2>1, EndMoves
  <2>2. ASSUME NEW m \in call[w].todo, Goto(w, "acquire"),
               call' = [call EXCEPT ![w] =
                           [Request(w) EXCEPT !.msg = m, !.nested = TRUE,
                                              !.recv = deferred[m].recv,
                                              !.todo = call[w].todo \ {m}]]
        PROVE Moved(w)
    <3> DEFINE r == [Request(w) EXCEPT !.msg = m, !.nested = TRUE,
                                       !.recv = deferred[m].recv,
                                       !.todo = call[w].todo \ {m}]
    <3>1. m \in Message /\ deferred[m].recv \in Time
      BY <1>0, <2>2 DEF Call, PipelineTypeOK
    <3>2. Request(w) \in Call
      <4>1. NoCall \in Call
        BY TenancyAssumption DEF NoCall, Call, Time
      <4>2. /\ call[w].origin \in Message \cup {None}
            /\ call[w].answer \in Replies \cup {None}
            /\ call[w].todo \in SUBSET Message
        BY <1>0 DEF Call
      <4> HIDE DEF NoCall
      <4> QED
        BY <4>1, <4>2 DEF Request, Call
    <3>3. r \in Call /\ r.msg = m
      <4>1. call[w].todo \ {m} \in SUBSET Message
        BY <1>0 DEF Call
      <4>2. PICK q \in Call : q = Request(w)
        BY <3>2
      <4>3. PICK t \in Time : t = deferred[m].recv
        BY <3>1
      <4>4. PICK rows \in SUBSET Message : rows = call[w].todo \ {m}
        BY <4>1
      <4> DEFINE half == [q EXCEPT !.msg = m, !.nested = TRUE]
                 timed == [half EXCEPT !.recv = t]
                 whole == [timed EXCEPT !.todo = rows]
      <4>5. r = whole
        BY <4>2, <4>3, <4>4
      <4>6. half \in Call /\ half.msg = m
        BY <3>1 DEF Call
      <4> HIDE DEF half
      <4>7. timed \in Call /\ timed.msg = m
        BY <4>6 DEF Call
      <4> HIDE DEF timed
      <4>8. whole \in Call /\ whole.msg = m
        BY <4>7 DEF Call
      <4> HIDE DEF r, whole
      <4> QED
        BY <4>5, <4>8
    <3>4. Ready("acquire", r)
      BY <3>1, <3>3 DEF Ready
    <3> HIDE DEF r
    <3> QED
      BY <2>2, <3>3, <3>4 DEF Moved, Moves, Goto, r
  <2> QED
    BY <1>7, <2>1, <2>2 DEF DrainNext
<1>8. CASE Retire(w)
  BY <1>8, <1>p DEF Retire
<1>9. CASE Route(w)
  BY <1>9, <1>p, <1>s DEF Route, LatestSessions, Routable
<1>10. CASE Expire(w)
  BY <1>10, <1>p DEF Expire
<1>11. CASE GetOpen(w)
  BY <1>11, <1>p, <1>s DEF GetOpen, OpenSessions
<1>12. CASE Create(w)
  <2>1. ASSUME NEW s \in Conv,
               call' = [call EXCEPT ![w].conv = s, ![w].status = "open",
                                    ![w].order = None],
               pc[w] = "create", Goto(w, "append")
        PROVE Moved(w)
    <3> DEFINE r == [call[w] EXCEPT !.conv = s, !.status = "open", !.order = None]
    <3>1. r \in Call
      BY <1>0, LocalUpdates
    <3>2. r.msg \in Message /\ r.conv = s
      BY <1>0, <2>1 DEF Call
    <3>3. call' = [call EXCEPT ![w] = r]
      BY <1>0, <2>1 DEF Call
    <3>4. Ready("append", r)
      BY <3>1, <3>2 DEF Ready
    <3> HIDE DEF r
    <3> QED
      BY <2>1, <3>1, <3>3, <3>4 DEF Moved, Moves, Goto
  <2> QED
    BY <1>12, <1>p, <2>1 DEF Create
<1>13. CASE Reread(w)
  BY <1>13, <1>s, RaiseMoves DEF Reread, OpenSessions
<1>14. CASE AppendTurnIfNew(w)
  <2>1. CASE call[w].status # "draft_created"
    <3> DEFINE r == [call[w] EXCEPT !.fresh = ~HasTurn(call[w].msg)]
    <3>1. r \in Call
      BY <1>0, LocalUpdates
    <3>2. r.msg = call[w].msg /\ r.conv = call[w].conv
      BY <1>0 DEF Call
    <3>3. pc[w] = "append" /\ Moves(w, "orphan", r)
      BY <1>14, <2>1 DEF AppendTurnIfNew, Moves, Goto
    <3> HIDE DEF r
    <3> QED
      BY <1>q, <3>1, <3>2, <3>3
  <2>2. CASE call[w].status = "draft_created"
    BY <1>14, <1>p, <1>e, <2>2 DEF AppendTurnIfNew, Outcome
  <2> QED
    BY <2>1, <2>2
<1>15. CASE RecoverOrphan(w)
  BY <1>15, <1>p, <1>r, <1>o DEF RecoverOrphan, OrdersOf, Replies
<1>16. CASE ListTurns(w)
  <2> DEFINE r == [call[w] EXCEPT !.draft = Transcript(call[w].conv)]
  <2>1. Transcript(call[w].conv) \subseteq Message
    BY <1>0, <1>16 DEF ListTurns, Transcript, PipelineTypeOK, StoreTypeOK
  <2>2. /\ r \in Call /\ r.msg = call[w].msg /\ r.conv = call[w].conv
        /\ call' = [call EXCEPT ![w] = r]
    BY <1>0, <1>v, <1>16, <2>1 DEF ListTurns, Call
  <2>3. pc[w] = "list" /\ Moves(w, "parse", r)
    BY <1>16, <2>2 DEF ListTurns, Moves, Goto
  <2> HIDE DEF r
  <2> QED
    BY <1>q, <2>2, <2>3
<1>17. CASE Parse(w)
  BY <1>17, <1>p, <1>e DEF Parse, Outcome
<1>18. CASE RenewClaim(w)
  BY <1>18, <1>p, <1>e DEF RenewClaim, Outcome
<1>19. CASE MergeDraft(w)
  <2> DEFINE merged == call[w].draft \cup covered[call[w].conv]
             r == [call[w] EXCEPT !.draft = merged]
  <2>1. merged \subseteq Message
    BY <1>0, <1>19 DEF MergeDraft, Call, PipelineTypeOK, StoreTypeOK
  <2>2. /\ r \in Call /\ r.msg = call[w].msg /\ r.conv = call[w].conv
        /\ call' = [call EXCEPT ![w] = r]
    BY <1>0, <1>v, <1>19, <2>1 DEF MergeDraft, Call
  <2>3. pc[w] = "getdraft" /\ Moves(w, "save", r)
    BY <1>19, <2>2 DEF MergeDraft, Moves, Goto
  <2> HIDE DEF r
  <2> QED
    BY <1>q, <2>2, <2>3
<1>20. CASE SaveDraft(w)
  BY <1>20, <1>p, <1>e DEF SaveDraft, Outcome
<1>21. CASE LookupOrder(w)
  BY <1>21, <1>p, <1>o DEF LookupOrder, OrdersOf
<1>22. CASE CreateDraft(w)
  <2>1. ASSUME NEW o \in OrderId, InsertOrder(o, call[w].conv, call[w].draft),
               Adopt(w, o, "draft_created"), pc[w] = "createdraft"
        PROVE Moved(w)
    <3> DEFINE p == [id |-> o, conv |-> call[w].conv, covers |-> call[w].draft]
    <3>1. o \in OrderIds'
      <4>1. p \in orders' /\ p.id = o
        BY <2>1 DEF InsertOrder
      <4> QED
        BY <4>1 DEF OrderIds
    <3> QED
      BY <1>0, <2>1, <3>1, AdoptMoves DEF Outcome
  <2> QED
    BY <1>22, <1>p, <2>1 DEF CreateDraft
<1>23. CASE RecoverConflict(w)
  BY <1>23, <1>o, RaiseMoves DEF RecoverConflict, OrdersOf
<1>24. CASE Mark(w)
  <2>1. CASE Goto(w, "outcome") /\ UNCHANGED call
    <3>1. Ready("outcome", call[w])
      BY <1>0, <1>24 DEF Ready, Mark
    <3>2. call' = [call EXCEPT ![w] = call[w]]
      BY <1>0, <2>1
    <3> QED
      BY <1>0, <2>1, <3>1, <3>2 DEF Moved, Moves, Goto
  <2> QED
    BY <1>24, <2>1, RaiseMoves DEF Mark
<1>25. CASE Outcomes(w)
  BY <1>25, RaiseMoves DEF Outcomes
<1> QED
  BY <1>1, <1>2, <1>3, <1>4, <1>5, <1>6, <1>7, <1>8, <1>9, <1>10, <1>11, <1>12,
     <1>13, <1>14, <1>15, <1>16, <1>17, <1>18, <1>19, <1>20, <1>21, <1>22,
     <1>23, <1>24, <1>25 DEF Step

\* A request, a drain, a failing statement and the death of a process move
\* their worker in the same way.
LEMMA OtherMoves ==
    ASSUME PipelineTypeOK, NEW w \in Holder,
           StartSweep(w) \/ Fault(w) \/ Crash(w) \/ \E m \in Message : Deliver(w, m)
    PROVE  Moved(w)
<1> USE DEF Stages, Holding, AdvanceStages, WithSession
<1>0. /\ call[w] \in Call /\ call \in [Holder -> Call]
      /\ pc[w] \notin {"idle", "drainnext"} => call[w].msg \in Message
  BY DEF PipelineTypeOK, Assigned
<1>n. NoCall \in Call
  BY TenancyAssumption DEF NoCall, Call, Time
<1>t. ASSUME NEW rows \in SUBSET Message,
             call' = [call EXCEPT ![w].todo = rows], Goto(w, "drainnext")
      PROVE Moved(w)
  <2> DEFINE r == [call[w] EXCEPT !.todo = rows]
  <2>1. r \in Call
    BY <1>0, LocalUpdates
  <2>2. Moves(w, "drainnext", r)
    BY <1>t DEF Moves, Goto
  <2>3. Ready("drainnext", r)
    BY <2>1 DEF Ready
  <2> QED
    BY <2>1, <2>2, <2>3 DEF Moved
<1>1. CASE StartSweep(w)
  <2>1. PICK rows \in {Pending} \cup {PendingOf(c) : c \in Customer} :
           call' = [call EXCEPT ![w].todo = rows]
    BY <1>1 DEF StartSweep
  <2>2. rows \subseteq Message
    BY DEF Pending, PendingOf
  <2> QED
    BY <1>1, <1>t, <2>1, <2>2 DEF StartSweep
<1>2. CASE FailUnclaimed(w) \/ FailRelease(w)
  BY <1>2, EndMoves DEF FailUnclaimed, FailRelease
<1>3. CASE FailClaimed(w)
  BY <1>3, RaiseMoves DEF FailClaimed
<1>4. CASE FailDrain(w)
  <2>1. {} \in SUBSET Message
    OBVIOUS
  <2>2. call' = [call EXCEPT ![w].todo = {}] /\ Goto(w, "drainnext")
    BY <1>4 DEF FailDrain
  <2> QED
    BY <1>t, <2>1, <2>2
<1>5. CASE Crash(w)
  <2>1. Moves(w, "idle", NoCall) /\ Ready("idle", NoCall)
    BY <1>5, <1>n DEF Crash, Moves, Ready
  <2> QED
    BY <1>n, <2>1 DEF Moved
<1>6. ASSUME NEW m \in Message, Deliver(w, m) PROVE Moved(w)
  <2> DEFINE r == [NoCall EXCEPT !.msg = m, !.recv = now, !.origin = m]
  <2>1. r \in Call /\ r.msg = m
    BY <1>n DEF NoCall, Call, PipelineTypeOK, ClaimTypeOK
  <2>2. Moves(w, "acquire", r)
    BY <1>6 DEF Deliver, Moves, Goto
  <2>3. Ready("acquire", r)
    BY <2>1 DEF Ready
  <2> QED
    BY <2>1, <2>2, <2>3 DEF Moved
<1> QED
  BY <1>1, <1>2, <1>3, <1>4, <1>5, <1>6 DEF Fault

----------------------------------------------------------------------------
(* The workers use the tables by their protocols                           *)

\* What a step of the pipeline does to the conversation tables is one call
\* of the conversation store, or nothing.
LEMMA StepUsesStore ==
    ASSUME PipelineTypeOK, [Next]_vars
    PROVE  [StoreNext]_storeVars
<1>1. ASSUME NEW w \in Holder, Step(w) PROVE [StoreNext]_storeVars
  <2>0. /\ pc[w] \notin {"idle", "drainnext"} => call[w].msg \in Message
        /\ pc[w] \in WithSession => call[w].conv \in Conv
        /\ pc[w] \in {"mark", "outcome"} => call[w].outcome \in Outcome
        /\ pc[w] = "mark" => call[w].order \in OrderIds
        /\ call[w].recv \in Time /\ call[w].draft \in SUBSET Message
    BY DEF PipelineTypeOK, Assigned, Call
  <2>w. /\ call[w].msg \in Message => Who(w) \in Customer
        /\ WithSession \subseteq Stages
    BY PipelineAssumption DEF Who, WithSession, Stages, Holding, AdvanceStages
  <2> USE DEF StoreNext, At, WithSession
  <2>1. CASE Expire(w)
    BY <1>1, <2>0, <2>1 DEF Expire
  <2>2. CASE Create(w)
    BY <1>1, <2>0, <2>w, <2>2 DEF Create
  <2>3. CASE AppendTurnIfNew(w)
    BY <1>1, <2>0, <2>3 DEF AppendTurnIfNew
  <2>4. CASE SaveDraft(w)
    BY <1>1, <2>0, <2>4 DEF SaveDraft
  <2>5. CASE CreateDraft(w)
    BY <1>1, <2>0, <2>5 DEF CreateDraft
  <2>6. CASE Mark(w)
    BY <1>1, <2>0, <2>6 DEF Mark
  <2>7. CASE Outcomes(w)
    BY <1>1, <2>0, <2>7 DEF Outcomes
  <2> QED
    BY <1>1, <2>1, <2>2, <2>3, <2>4, <2>5, <2>6, <2>7, StoreActions
<1>2. ASSUME NEW w \in Holder,
             \/ StartSweep(w) \/ Fault(w) \/ Crash(w)
             \/ \E m \in Message : Deliver(w, m)
      PROVE [StoreNext]_storeVars
  BY <1>2, OtherActions
<1>3. CASE Clock \/ UNCHANGED vars
  BY <1>3 DEF Clock, OnlyClaim, vars
<1> QED
  BY <1>1, <1>2, <1>3 DEF Next

\* Adding to the orders is all that ever happens to their ids.
LEMMA OrderIdsGrow ==
    ASSUME [StoreNext]_storeVars
    PROVE  OrderIds \subseteq OrderIds'
<1>1. orders \subseteq orders'
  BY DEF StoreNext, storeVars, CreateOpenSession, AppendTurn, ExpireSession,
         SaveAccumulatedDraft, InsertOrder, MarkDraftCreated, RecordOutcome
<1> QED
  BY <1>1 DEF OrderIds

\* The same for the claim table: a step is one call of the claim store, the
\* loss of a holder, a tick, or nothing.  A worker that releases without
\* believing in a lease was displaced, and its release matches no row.
LEMMA StepUsesClaims ==
    ASSUME PipelineInv, [Next]_vars
    PROVE  [ClaimNext]_claimVars
<1> USE DEF PipelineInv
<1>1. ASSUME NEW w \in Holder, Step(w) PROVE [ClaimNext]_claimVars
  <2>0. pc[w] \notin {"idle", "drainnext"} => Who(w) \in Customer
    BY PipelineAssumption DEF PipelineTypeOK, Assigned, Who
  <2>1. CASE Acquire(w)
    BY <2>0, <2>1 DEF Acquire, At, ClaimNext, ClaimStep
  <2>2. CASE RenewClaim(w)
    BY <2>0, <2>2 DEF RenewClaim, At, ClaimNext, ClaimStep
  <2>3. CASE ReleaseClaim(w)
    <3>1. Who(w) \in Customer /\ pc[w] \in Holding /\ Release(w, Who(w))
      BY <2>0, <2>3 DEF ReleaseClaim, At, Holding
    <3>2. CASE leaseEnd[w][Who(w)] # 0
      BY <3>1, <3>2 DEF ClaimNext, ClaimStep
    <3>3. CASE leaseEnd[w][Who(w)] = 0
      <4>1. claim[Who(w)].holder # w
        BY <3>1, <3>3 DEF LostIsDisplaced
      <4>2. claim' = claim
        BY <3>1, <4>1 DEF Release, PipelineTypeOK, ClaimTypeOK
      <4>3. leaseEnd' = leaseEnd /\ now' = now
        BY <3>1, <3>3 DEF Release, PipelineTypeOK, ClaimTypeOK
      <4> QED
        BY <4>2, <4>3 DEF claimVars
    <3> QED
      BY <3>2, <3>3
  <2> QED
    BY <1>1, <2>1, <2>2, <2>3, ClaimActions
<1>2. ASSUME NEW w \in Holder,
             \/ StartSweep(w) \/ Fault(w) \/ Crash(w)
             \/ \E m \in Message : Deliver(w, m)
      PROVE [ClaimNext]_claimVars
  BY <1>2, OtherActions DEF ClaimNext
<1>3. CASE Clock
  BY <1>3 DEF Clock, ClaimNext
<1>4. CASE UNCHANGED vars
  BY <1>4 DEF vars
<1> QED
  BY <1>1, <1>2, <1>3, <1>4 DEF Next

\* Between its acquisition and its release a call keeps its message and what
\* it knows of the request around it.
Kept(w) ==
    /\ call'[w].msg = call[w].msg
    /\ call'[w].nested = call[w].nested
    /\ call'[w].origin = call[w].origin
    /\ call'[w].answer = call[w].answer

LEMMA LocalsAreKept ==
    ASSUME PipelineTypeOK, NEW w \in Holder,
           Step(w) \/ FailClaimed(w), pc'[w] \in Holding
    PROVE  Kept(w)
<1> USE DEF At, Goto, Holding, AdvanceStages, Kept
<1>0. call \in [Holder -> Call] /\ pc \in [Holder -> Stages] /\ call[w] \in Call
  BY DEF PipelineTypeOK
<1>c. ASSUME NEW s, NEW x, NEW y,
             call' = [call EXCEPT ![w].conv = s, ![w].status = x, ![w].order = y]
      PROVE Kept(w)
  <2> DEFINE r == [call[w] EXCEPT !.conv = s, !.status = x, !.order = y]
  <2>1. /\ r.msg = call[w].msg /\ r.nested = call[w].nested
        /\ r.origin = call[w].origin /\ r.answer = call[w].answer
    BY <1>0 DEF Call
  <2>2. call'[w] = r
    BY <1>0, <1>c DEF Call
  <2> QED
    BY <2>1, <2>2
<1>s. ASSUME NEW s, Read(w, s) PROVE Kept(w)
  <2> DEFINE x == session[s].status
             y == session[s].order
  <2>1. call' = [call EXCEPT ![w].conv = s, ![w].status = x, ![w].order = y]
    BY <1>s DEF Read
  <2> HIDE DEF x, y
  <2> QED
    BY <1>c, <2>1
<1>f. \A x : call' = [call EXCEPT ![w].fresh = x] => Kept(w)
  BY <1>0 DEF Call
<1>a. \A o, x : Adopt(w, o, x) => Kept(w)
  BY <1>0 DEF Adopt, Call
<1>e. \A x : Settle(w, x) => Kept(w)
  BY <1>0 DEF Settle, Call
<1>r. \A x : call' = [call EXCEPT ![w].reply = x] => Kept(w)
  BY <1>0 DEF Call
<1>1. CASE Acquire(w) \/ Defer(w) \/ DrainNext(w) \/ Retire(w) \/ DrainList(w)
             \/ ReleaseClaim(w)
  BY <1>0, <1>1 DEF Acquire, Defer, DrainNext, Retire, DrainList, ReleaseClaim,
                    ReturnUnclaimed, Answer
<1>2. CASE Record(w) \/ Link(w) \/ Raise(w) \/ Conclude(w)
  BY <1>2, <1>r DEF Record, Link, Raise, Conclude
<1>3. CASE Route(w) \/ GetOpen(w) \/ Reread(w) \/ Create(w) \/ Expire(w)
  <2>1. CASE Create(w)
    <3> DEFINE x == "open"
    <3>1. CASE UNCHANGED call
      BY <3>1
    <3>2. ASSUME NEW s \in Conv,
                 call' = [call EXCEPT ![w].conv = s, ![w].status = x,
                                      ![w].order = None]
          PROVE Kept(w)
      <4> HIDE DEF x
      <4> QED
        BY <1>c, <3>2
    <3> QED
      BY <2>1, <3>1, <3>2 DEF Create
  <2>2. CASE Route(w) \/ GetOpen(w) \/ Expire(w)
    BY <1>s, <2>2 DEF Route, GetOpen, Expire
  <2>3. CASE Reread(w)
    BY <1>2, <1>s, <2>3 DEF Reread
  <2> QED
    BY <1>3, <2>1, <2>2, <2>3
<1>4. CASE AppendTurnIfNew(w)
  BY <1>4, <1>e, <1>f DEF AppendTurnIfNew
<1>5. CASE RecoverOrphan(w) \/ LookupOrder(w) \/ RecoverConflict(w) \/ CreateDraft(w)
  BY <1>2, <1>5, <1>a, <1>r DEF RecoverOrphan, LookupOrder, RecoverConflict, CreateDraft
<1>6. CASE ListTurns(w) \/ MergeDraft(w)
  BY <1>0, <1>6 DEF ListTurns, MergeDraft, Call
<1>7. CASE Parse(w) \/ SaveDraft(w) \/ RenewClaim(w)
  BY <1>7, <1>e DEF Parse, SaveDraft, RenewClaim
<1>8. CASE Mark(w) \/ Outcomes(w) \/ FailClaimed(w)
  BY <1>2, <1>8 DEF Mark, Outcomes, FailClaimed
<1> QED
  BY <1>1, <1>2, <1>3, <1>4, <1>5, <1>6, <1>7, <1>8 DEF Step

\* A call that holds a claim stage after a step that is not the acquisition
\* held one before; and the stages in which advance() writes are entered from
\* the record, from each other or by the renewal.
LEMMA HoldingGoesOn ==
    ASSUME PipelineTypeOK, NEW w \in Holder,
           Step(w) \/ FailClaimed(w), ~Acquire(w), pc'[w] \in Holding
    PROVE  /\ pc[w] \in Holding
           /\ Who(w)' = Who(w)
           /\ pc'[w] \in Writing =>
                 \/ pc[w] \in Writing \cup {"record"}
                 \/ Renew(w, Who(w))
<1> USE DEF At, Goto, Holding, AdvanceStages, Writing
<1>0. pc \in [Holder -> Stages]
  BY DEF PipelineTypeOK
<1>m. Who(w)' = Who(w)
  BY LocalsAreKept DEF Who, Kept
<1>1. CASE Defer(w) \/ DrainNext(w) \/ Retire(w) \/ DrainList(w) \/ ReleaseClaim(w)
  BY <1>0, <1>1 DEF Defer, DrainNext, Retire, DrainList, ReleaseClaim,
                    ReturnUnclaimed, Answer
<1>2. CASE Record(w) \/ Link(w) \/ Outcomes(w) \/ FailClaimed(w) \/ Mark(w)
  BY <1>0, <1>2, <1>m DEF Record, Link, Outcomes, FailClaimed, Mark, Conclude, Raise
<1>3. CASE Route(w) \/ GetOpen(w) \/ Reread(w) \/ Create(w) \/ Expire(w)
  BY <1>0, <1>3, <1>m DEF Route, GetOpen, Reread, Create, Expire, Raise
<1>4. CASE AppendTurnIfNew(w) \/ ListTurns(w) \/ MergeDraft(w) \/ Parse(w) \/ SaveDraft(w)
  BY <1>0, <1>4, <1>m DEF AppendTurnIfNew, ListTurns, MergeDraft, Parse, SaveDraft, Settle
<1>5. CASE RecoverOrphan(w) \/ LookupOrder(w) \/ RecoverConflict(w) \/ CreateDraft(w)
  BY <1>0, <1>5, <1>m DEF RecoverOrphan, LookupOrder, RecoverConflict, CreateDraft,
                          Adopt, Raise
<1>6. CASE RenewClaim(w)
  BY <1>0, <1>6, <1>m DEF RenewClaim, Settle
<1> QED
  BY <1>1, <1>2, <1>3, <1>4, <1>5, <1>6 DEF Step

\* The record stage is entered by the acquisition alone.
LEMMA OnlyAcquireRecords ==
    ASSUME PipelineTypeOK, NEW w \in Holder, Step(w), ~Acquire(w)
    PROVE  pc'[w] # "record"
<1> USE DEF At, Goto
<1>0. pc \in [Holder -> Stages]
  BY DEF PipelineTypeOK
<1>1. CASE Defer(w) \/ DrainNext(w) \/ Retire(w) \/ DrainList(w) \/ ReleaseClaim(w)
  BY <1>0, <1>1 DEF Defer, DrainNext, Retire, DrainList, ReleaseClaim,
                    ReturnUnclaimed, Answer
<1>2. CASE Record(w) \/ Link(w) \/ Outcomes(w) \/ Mark(w)
  BY <1>0, <1>2 DEF Record, Link, Outcomes, Mark, Conclude, Raise
<1>3. CASE Route(w) \/ GetOpen(w) \/ Reread(w) \/ Create(w) \/ Expire(w)
  BY <1>0, <1>3 DEF Route, GetOpen, Reread, Create, Expire, Raise
<1>4. CASE AppendTurnIfNew(w) \/ ListTurns(w) \/ MergeDraft(w) \/ Parse(w) \/ SaveDraft(w)
  BY <1>0, <1>4 DEF AppendTurnIfNew, ListTurns, MergeDraft, Parse, SaveDraft, Settle
<1>5. CASE RecoverOrphan(w) \/ LookupOrder(w) \/ RecoverConflict(w) \/ CreateDraft(w)
  BY <1>0, <1>5 DEF RecoverOrphan, LookupOrder, RecoverConflict, CreateDraft, Adopt, Raise
<1>6. CASE RenewClaim(w)
  BY <1>0, <1>6 DEF RenewClaim, Settle
<1> QED
  BY <1>1, <1>2, <1>3, <1>4, <1>5, <1>6 DEF Step

----------------------------------------------------------------------------
(* The invariant                                                           *)

\* The tables outside the claim and conversation stores keep their types.
LEMMA LedgerTypes ==
    ASSUME PipelineTypeOK, [Next]_vars
    PROVE  /\ recorded' \subseteq Message
           /\ resulting' \in [Message -> OrderId \cup {None}]
           /\ deferred' \in [Message -> [status : {"none", "pending", "done"},
                                         recv : Time, at : Time]]
           /\ acked' \subseteq Message
           /\ spent' \in [deliveries : Nat, failures : Nat]
<1> DEFINE Row == [status : {"none", "pending", "done"}, recv : Time, at : Time]
           Goal == /\ recorded' \subseteq Message
                   /\ resulting' \in [Message -> OrderId \cup {None}]
                   /\ deferred' \in [Message -> Row]
                   /\ acked' \subseteq Message
<1>0. /\ recorded \subseteq Message
      /\ resulting \in [Message -> OrderId \cup {None}]
      /\ deferred \in [Message -> Row]
      /\ acked \subseteq Message
      /\ spent \in [deliveries : Nat, failures : Nat]
      /\ now \in Time
  BY DEF PipelineTypeOK, ClaimTypeOK
<1>1. ASSUME NEW w \in Holder, Step(w) PROVE Goal /\ UNCHANGED spent
  <2>0. /\ call[w] \in Call /\ call[w].recv \in Time
        /\ call[w].order \in OrderId \cup {None}
        /\ pc[w] \notin {"idle", "drainnext"} => call[w].msg \in Message
    BY DEF PipelineTypeOK, Assigned, Call
  <2> USE DEF At, OnlyWorkers, OnlyClaim, OnlyStore, ledgerVars
  <2>1. CASE Defer(w)
    <3>1. call[w].msg \in Message /\ acked' \subseteq Message
      BY <2>0, <2>1, EndMoves DEF Defer
    <3> DEFINE m == call[w].msg
               row == [status |-> "pending", recv |-> call[w].recv, at |-> now]
    <3>2. row \in Row
      BY <1>0, <2>0
    <3>3. deferred' = [deferred EXCEPT ![m] = IF deferred[m].status # "none"
                                              THEN deferred[m] ELSE row]
      BY <2>1 DEF Defer
    <3>4. deferred' \in [Message -> Row]
      <4> HIDE DEF row, Row
      <4> QED
        BY <1>0, <3>1, <3>2, <3>3
    <3> QED
      BY <1>0, <2>1, <3>1, <3>4 DEF Defer
  <2>2. CASE Record(w) \/ Link(w)
    BY <1>0, <2>0, <2>2 DEF Record, Link
  <2>3. CASE DrainNext(w)
    BY <1>0, <2>3, EndMoves DEF DrainNext
  <2>4. CASE Retire(w)
    <3> DEFINE m == call[w].msg
               row == [deferred[m] EXCEPT !.status =
                          IF @ = "pending" THEN "done" ELSE @]
    <3>1. m \in Message
      BY <2>0, <2>4 DEF Retire
    <3>2. row \in Row
      BY <1>0, <3>1
    <3>3. deferred' = [deferred EXCEPT ![m] = row]
      BY <1>0, <2>4, <3>1 DEF Retire
    <3>4. deferred' \in [Message -> Row]
      <4> HIDE DEF row, Row
      <4> QED
        BY <1>0, <3>1, <3>2, <3>3
    <3> QED
      BY <1>0, <2>4, <3>4 DEF Retire
  <2>5. CASE Acquire(w) \/ ReleaseClaim(w) \/ RenewClaim(w)
    BY <1>0, <2>5 DEF Acquire, ReleaseClaim, RenewClaim
  <2>6. CASE \/ DrainList(w) \/ Route(w) \/ GetOpen(w) \/ Reread(w)
             \/ RecoverOrphan(w) \/ ListTurns(w) \/ Parse(w) \/ MergeDraft(w)
             \/ LookupOrder(w) \/ RecoverConflict(w)
    BY <1>0, <2>6 DEF DrainList, Route, GetOpen, Reread, RecoverOrphan, ListTurns,
                      Parse, MergeDraft, LookupOrder, RecoverConflict
  <2>7. CASE \/ Expire(w) \/ Create(w) \/ AppendTurnIfNew(w) \/ SaveDraft(w)
             \/ CreateDraft(w) \/ Mark(w) \/ Outcomes(w)
    BY <1>0, <2>7 DEF Expire, Create, AppendTurnIfNew, SaveDraft, CreateDraft,
                      Mark, Outcomes
  <2> QED
    BY <1>1, <2>1, <2>2, <2>3, <2>4, <2>5, <2>6, <2>7 DEF Step
<1>2. ASSUME NEW w \in Holder,
             \/ StartSweep(w) \/ Fault(w) \/ Crash(w)
             \/ \E m \in Message : Deliver(w, m)
      PROVE Goal /\ spent' \in [deliveries : Nat, failures : Nat]
  <2>1. CASE StartSweep(w)
    BY <1>0, <2>1 DEF StartSweep, At, OnlyWorkers, ledgerVars
  <2>2. CASE Fault(w) \/ Crash(w)
    <3>1. spent' \in [deliveries : Nat, failures : Nat]
      BY <1>0, <2>2 DEF Fault, Crash, Failing
    <3>2. CASE FailUnclaimed(w) \/ FailRelease(w)
      BY <1>0, <3>1, <3>2, EndMoves DEF FailUnclaimed, FailRelease, ledgerVars
    <3>3. CASE FailClaimed(w) \/ FailDrain(w) \/ Crash(w)
      BY <1>0, <3>1, <3>3 DEF FailClaimed, FailDrain, Crash, OnlyWorkers, ledgerVars
    <3> QED
      BY <2>2, <3>1, <3>2, <3>3 DEF Fault
  <2>3. CASE \E m \in Message : Deliver(w, m)
    BY <1>0, <2>3 DEF Deliver, OnlyWorkers, ledgerVars
  <2> QED
    BY <1>2, <2>1, <2>2, <2>3
<1>3. CASE Clock \/ UNCHANGED vars
  BY <1>0, <1>3 DEF Clock, OnlyClaim, ledgerVars, vars
<1> QED
  BY <1>0, <1>1, <1>2, <1>3 DEF Next

\* No step of the pipeline breaks the types.
LEMMA PipelineTypeStep ==
    ASSUME PipelineInv, [Next]_vars
    PROVE  PipelineTypeOK'
<1> USE DEF PipelineInv
<1>1. ClaimTypeOK'
  BY StepUsesClaims, ClaimTypeStep DEF PipelineTypeOK
<1>2. StoreTypeOK' /\ OrderIds \subseteq OrderIds'
  BY StepUsesStore, StoreTypeStep, OrderIdsGrow DEF PipelineTypeOK
<1>3. /\ pc' \in [Holder -> Stages]
      /\ call' \in [Holder -> Call]
      /\ \A v \in Holder : Assigned(v)'
  <2>1. ASSUME NEW w \in Holder, Moved(w) PROVE <1>3!:
    <3>1. PICK stage \in Stages, r \in Call : Moves(w, stage, r) /\ Ready(stage, r)
      BY <2>1 DEF Moved
    <3> QED
      BY <1>2, <3>1, WorkerTypes
  <2>2. CASE UNCHANGED workerVars
    BY <1>2, <2>2 DEF PipelineTypeOK, Assigned, workerVars
  <2> QED
    BY <1>2, <2>1, <2>2, StepMoves, OtherMoves DEF Next, Clock, vars
<1> QED
  BY <1>1, <1>2, <1>3, LedgerTypes DEF PipelineTypeOK

\* Workers that lost their claim stay displaced until their call is over.
LEMMA LostStep ==
    ASSUME PipelineInv, [Next]_vars
    PROVE  LostIsDisplaced'
<1> USE DEF PipelineInv
<1>0. /\ leaseEnd \in [Holder -> [Customer -> Nat]]
      /\ pc \in [Holder -> Stages] /\ call \in [Holder -> Call]
      /\ claim \in [Customer -> [holder : Holder \cup {None}, expires : Nat]]
      /\ now \in Nat
      /\ \A u \in Holder : pc[u] \in Holding => Who(u) \in Customer
  BY PipelineAssumption DEF PipelineTypeOK, ClaimTypeOK, Time, Assigned, Who,
                            Holding, AdvanceStages
<1>1. SUFFICES ASSUME NEW u \in Holder, pc'[u] \in Holding, leaseEnd'[u][Who(u)'] = 0
               PROVE claim'[Who(u)'].holder # u
  BY DEF LostIsDisplaced, Who
\* Somebody else moved: u's own belief and stage are what they were, and
\* nobody writes another holder's name into a row.
<1>2. ASSUME NEW w \in Holder, w # u, Moved(w),
             \A c \in Customer : claim'[c].holder \in {claim[c].holder, w, None},
             leaseEnd'[u] = leaseEnd[u]
      PROVE claim'[Who(u)'].holder # u
  <2>1. pc'[u] = pc[u] /\ Who(u)' = Who(u)
    BY <1>0, <1>2 DEF Moved, Moves, Who
  <2> QED
    BY <1>0, <1>1, <1>2, <2>1, ClaimAssumption DEF LostIsDisplaced
<1>3. CASE /\ pc[u] \in Holding /\ Who(u)' = Who(u)
           /\ UNCHANGED <<claim, leaseEnd>>
  BY <1>1, <1>3 DEF LostIsDisplaced
<1>4. ASSUME NEW w \in Holder, Step(w) PROVE claim'[Who(u)'].holder # u
  <2>1. pc[w] \notin {"idle", "drainnext"} => Who(w) \in Customer
    BY PipelineAssumption DEF PipelineTypeOK, Assigned, Who
  <2>2. CASE w # u
    <3>1. Moved(w)
      BY <1>4, StepMoves, StepUsesStore, OrderIdsGrow DEF Next
    <3>2. /\ \A c \in Customer : claim'[c].holder \in {claim[c].holder, w, None}
          /\ leaseEnd'[u] = leaseEnd[u]
      <4>1. CASE UNCHANGED claimVars
        BY <4>1 DEF claimVars
      <4>2. CASE Acquire(w)
        <5>1. Who(w) \in Customer
          BY <2>1, <4>2 DEF Acquire, At
        <5>2. CASE Granted(w, Who(w))
          BY <1>0, <2>2, <5>1, <5>2 DEF Granted
        <5> QED
          BY <4>1, <4>2, <5>2 DEF Acquire, TryAcquire
      <4>3. CASE ReleaseClaim(w)
        BY <1>0, <2>1, <2>2, <4>3 DEF ReleaseClaim, At, Release, NoClaim
      <4>4. CASE RenewClaim(w)
        BY <1>0, <2>1, <2>2, <4>4 DEF RenewClaim, At, Renew, RenewLost, Granted
      <4> QED
        BY <1>4, <4>1, <4>2, <4>3, <4>4, ClaimActions
    <3> QED
      BY <1>2, <2>2, <3>1, <3>2
  <2>3. CASE w = u
    <3>1. CASE Acquire(u)
      <4>1. Who(u)' = Who(u) /\ pc[u] = "acquire" /\ Who(u) \in Customer
        BY <2>1, <2>3, <3>1 DEF Acquire, At, Who
      <4>2. pc'[u] = "record" /\ TryAcquire(u, Who(u))
        BY <1>0, <1>1, <3>1 DEF Acquire, Goto, Holding, AdvanceStages
      <4>3. leaseEnd'[u][Who(u)] = now + Lease
        BY <1>0, <4>1, <4>2 DEF TryAcquire, Granted
      <4> QED
        BY <1>0, <1>1, <4>1, <4>3, ClaimAssumption
    <3>2. CASE ~Acquire(u)
      <4>1. pc[u] \in Holding /\ Who(u)' = Who(u) /\ Who(u) \in Customer
        BY <1>0, <1>1, <1>4, <2>3, <3>2, HoldingGoesOn
      <4>2. CASE UNCHANGED claimVars
        BY <1>3, <4>1, <4>2 DEF claimVars
      <4>3. CASE ReleaseClaim(u)
        BY <1>0, <1>1, <4>3 DEF ReleaseClaim, Goto, Holding, AdvanceStages
      <4>4. CASE RenewClaim(u)
        <5>1. CASE Renew(u, Who(u))
          BY <1>0, <1>1, <4>1, <5>1, ClaimAssumption DEF Renew, Granted
        <5>2. CASE RenewLost(u, Who(u))
          BY <4>1, <5>2 DEF RenewLost
        <5> QED
          BY <4>4, <5>1, <5>2 DEF RenewClaim
      <4> QED
        BY <1>4, <2>3, <3>2, <4>2, <4>3, <4>4, ClaimActions
    <3> QED
      BY <3>1, <3>2
  <2> QED
    BY <2>2, <2>3
<1>5. ASSUME NEW w \in Holder,
             \/ StartSweep(w) \/ Fault(w) \/ Crash(w)
             \/ \E m \in Message : Deliver(w, m)
      PROVE claim'[Who(u)'].holder # u
  <2>1. UNCHANGED claim
    BY <1>5, OtherActions DEF Abandon, claimVars
  <2>2. CASE w # u
    <3>1. Moved(w)
      BY <1>5, OtherMoves
    <3>2. leaseEnd'[u] = leaseEnd[u]
      BY <1>0, <1>5, <2>2, OtherActions DEF Abandon, claimVars
    <3> QED
      BY <1>2, <2>1, <2>2, <3>1, <3>2
  <2>3. CASE w = u
    <3>1. FailClaimed(u)
      BY <1>0, <1>1, <1>5, <2>3
         DEF StartSweep, Fault, Crash, Deliver, FailUnclaimed, FailRelease, FailDrain,
             ReturnUnclaimed, Answer, Goto, Holding, AdvanceStages
    <3>2. ~Acquire(u)
      BY <3>1 DEF FailClaimed, Acquire, At, Holding, AdvanceStages
    <3>3. pc[u] \in Holding /\ Who(u)' = Who(u)
      BY <1>1, <3>1, <3>2, HoldingGoesOn
    <3>4. UNCHANGED claimVars
      BY <3>1 DEF FailClaimed, OnlyWorkers
    <3> QED
      BY <1>3, <3>3, <3>4 DEF claimVars
  <2> QED
    BY <2>2, <2>3
<1>6. CASE Clock \/ UNCHANGED vars
  BY <1>1, <1>3, <1>6 DEF Clock, Tick, Who, vars, workerVars, claimVars
<1> QED
  BY <1>4, <1>5, <1>6 DEF Next

\* The invariant holds in every reachable state.
LEMMA PipelineInvariant == Spec => []PipelineInv
<1>1. PipelineInit => PipelineInv
  <2> SUFFICES ASSUME PipelineInit PROVE PipelineInv
    OBVIOUS
  <2>1. ClaimTypeOK
    BY TenancyAssumption DEF PipelineInit, ClaimInit, ClaimTypeOK, NoClaim, Time
  <2>2. StoreTypeOK
    BY DEF PipelineInit, StoreInit, StoreTypeOK
  <2>3. NoCall \in Call /\ NotDeferred \in [status : {"none", "pending", "done"},
                                            recv : Time, at : Time]
    BY TenancyAssumption DEF NoCall, Call, NotDeferred, Time
  <2>4. \A w \in Holder : pc[w] = "idle" /\ "idle" \in Stages
    BY DEF PipelineInit, Stages
  <2>5. \A w \in Holder : Assigned(w)
    BY <2>4 DEF Assigned, WithSession
  <2>6. LostIsDisplaced
    BY <2>4 DEF LostIsDisplaced, Holding, AdvanceStages
  <2> HIDE DEF NoCall
  <2> QED
    BY <2>1, <2>2, <2>3, <2>4, <2>5, <2>6 DEF PipelineInit, PipelineInv, PipelineTypeOK
<1>2. PipelineInv /\ [Next]_vars => PipelineInv'
  BY PipelineTypeStep, LostStep DEF PipelineInv
<1> QED
  BY <1>1, <1>2, PTL DEF Spec

\* Every table and every local variable holds values of its type, and no local
\* is used before it is assigned.
THEOREM PipelineTypeCorrect == Spec => []PipelineTypeOK
BY PipelineInvariant, PTL DEF PipelineInv

\* The workers, however they interleave and fail, use the claim table by its
\* protocol: what was proved of the protocol holds of the pipeline.
THEOREM ClaimsAreUsedProperly == Spec => UsesClaims
<1>1. PipelineInit => ClaimInit
  BY DEF PipelineInit
<1>2. PipelineInv /\ [Next]_vars => [ClaimNext]_claimVars
  BY StepUsesClaims
<1> QED
  BY <1>1, <1>2, PipelineInvariant, PTL DEF Spec, UsesClaims, ClaimSpec

\* And the conversation tables by the calls of the store.
THEOREM StoreIsUsedProperly == Spec => UsesStore
<1>1. PipelineInit => StoreInit
  BY DEF PipelineInit
<1>2. PipelineTypeOK /\ [Next]_vars => [StoreNext]_storeVars
  BY StepUsesStore
<1> QED
  BY <1>1, <1>2, PipelineTypeCorrect, PTL DEF Spec, UsesStore, ConversationSpec

\* So whatever the two protocols promise holds under every interleaving of
\* the pipeline's workers, with crashes and slow statements anywhere.
THEOREM TablesKeepTheirPromises ==
    Spec => [](/\ LeaseExclusion
               /\ OneOpenSession
               /\ OneOrderPerConversation
               /\ StatusMatchesLink)
BY ClaimsAreUsedProperly, StoreIsUsedProperly, ClaimExcludes, OneOpenSessionKept,
   OneOrderKept, StatusMatchesLinkKept, PTL DEF UsesClaims, UsesStore

----------------------------------------------------------------------------
(* Exclusion of writers                                                    *)

\* While statements are faster than the lease, a worker in a stage that reads
\* and writes the conversation, or about to enter one, has a running lease.
WritersAreLeased ==
    \A w \in Holder :
        pc[w] \in Writing \cup {"record"} => leaseEnd[w][Who(w)] > now

LEMMA LeasedStep ==
    ASSUME ~SlowWrites, PipelineInv, WritersAreLeased, [Next]_vars
    PROVE  WritersAreLeased'
<1> USE DEF PipelineInv
<1>0. /\ leaseEnd \in [Holder -> [Customer -> Nat]]
      /\ pc \in [Holder -> Stages] /\ call \in [Holder -> Call]
      /\ now \in Nat
      /\ \A u \in Holder : pc[u] \in Holding => Who(u) \in Customer
      /\ Writing \cup {"record"} \subseteq Holding
  BY PipelineAssumption DEF PipelineTypeOK, ClaimTypeOK, Time, Assigned, Who,
                            Writing, Holding, AdvanceStages
<1>1. SUFFICES ASSUME NEW u \in Holder, pc'[u] \in Writing \cup {"record"}
               PROVE leaseEnd'[u][Who(u)'] > now'
  BY DEF WritersAreLeased, Who
<1>2. CASE /\ pc[u] \in Writing \cup {"record"} /\ Who(u)' = Who(u)
           /\ leaseEnd'[u][Who(u)] = leaseEnd[u][Who(u)] /\ now' = now
  BY <1>2 DEF WritersAreLeased
<1>3. ASSUME NEW w \in Holder, w # u, Moved(w),
             leaseEnd'[u] = leaseEnd[u], now' = now
      PROVE leaseEnd'[u][Who(u)'] > now'
  <2>1. pc'[u] = pc[u] /\ Who(u)' = Who(u)
    BY <1>0, <1>3 DEF Moved, Moves, Who
  <2> QED
    BY <1>1, <1>2, <1>3, <2>1
<1>4. ASSUME NEW w \in Holder, Step(w) PROVE leaseEnd'[u][Who(u)'] > now'
  <2>1. pc[w] \notin {"idle", "drainnext"} => Who(w) \in Customer
    BY PipelineAssumption DEF PipelineTypeOK, Assigned, Who
  <2>2. \/ UNCHANGED claimVars
        \/ Who(w) \in Customer /\ (\/ Granted(w, Who(w))
                                   \/ RenewLost(w, Who(w))
                                   \/ Release(w, Who(w)))
    BY <1>4, <2>1, ClaimActions
       DEF Acquire, RenewClaim, ReleaseClaim, TryAcquire, Renew, At
  <2>3. CASE w # u
    <3>1. Moved(w)
      BY <1>4, StepMoves, StepUsesStore, OrderIdsGrow DEF Next
    <3>2. leaseEnd'[u] = leaseEnd[u] /\ now' = now
      BY <1>0, <2>2, <2>3 DEF claimVars, Granted, RenewLost, Release
    <3> QED
      BY <1>3, <2>3, <3>1, <3>2
  <2>4. CASE w = u
    <3>1. CASE TryAcquire(u, Who(u)) /\ Who(u)' = Who(u) /\ Who(u) \in Customer
      BY <1>0, <3>1, ClaimAssumption DEF TryAcquire, Granted
    <3>2. CASE Acquire(u)
      <4>1. Who(u)' = Who(u) /\ Who(u) \in Customer
        BY <2>1, <2>4, <3>2 DEF Acquire, At, Who
      <4>2. TryAcquire(u, Who(u))
        BY <1>0, <1>1, <3>2 DEF Acquire, Goto, Writing, AdvanceStages
      <4> QED
        BY <3>1, <4>1, <4>2
    <3>3. CASE ~Acquire(u)
      <4>1. /\ pc[u] \in Holding /\ Who(u)' = Who(u) /\ Who(u) \in Customer
            /\ pc'[u] \in Writing =>
                  pc[u] \in Writing \cup {"record"} \/ Renew(u, Who(u))
        BY <1>0, <1>1, <1>4, <2>4, <3>3, HoldingGoesOn
      <4>2. pc'[u] # "record"
        BY <1>0, <1>4, <2>4, <3>3, OnlyAcquireRecords
      <4>3. CASE Renew(u, Who(u))
        BY <1>0, <4>1, <4>3, ClaimAssumption DEF Renew, Granted
      <4>4. CASE pc[u] \in Writing \cup {"record"}
        <5>1. ~ReleaseClaim(u) /\ ~RenewClaim(u)
          BY <4>4 DEF ReleaseClaim, RenewClaim, At, Writing, AdvanceStages
        <5>2. UNCHANGED claimVars
          BY <1>4, <2>4, <3>3, <5>1, ClaimActions
        <5> QED
          BY <1>2, <4>1, <4>4, <5>2 DEF claimVars
      <4> QED
        BY <1>1, <4>1, <4>2, <4>3, <4>4
    <3> QED
      BY <3>2, <3>3
  <2> QED
    BY <2>3, <2>4
<1>5. ASSUME NEW w \in Holder,
             \/ StartSweep(w) \/ Fault(w) \/ Crash(w)
             \/ \E m \in Message : Deliver(w, m)
      PROVE leaseEnd'[u][Who(u)'] > now'
  <2>1. w # u
    BY <1>0, <1>1, <1>5
       DEF StartSweep, Fault, Crash, Deliver, FailUnclaimed, FailClaimed, FailRelease,
           FailDrain, ReturnUnclaimed, Answer, Conclude, Raise, Goto, Writing,
           AdvanceStages
  <2>2. leaseEnd'[u] = leaseEnd[u] /\ now' = now
    BY <1>0, <1>5, <2>1, OtherActions DEF Abandon, claimVars
  <2> QED
    BY <1>3, <1>5, <2>1, <2>2, OtherMoves
\* The clock waits for whoever is not waiting for the parser.
<1>6. CASE Clock
  <2>1. pc[u] \in Writing \cup {"record"} /\ Who(u)' = Who(u) /\ InTime(u)
    BY <1>1, <1>6 DEF Clock, Who, workerVars
  <2>2. leaseEnd[u][Who(u)] > now /\ Who(u) \in Customer
    BY <1>0, <2>1 DEF WritersAreLeased
  <2>3. leaseEnd[u][Who(u)] > now + 1
    BY <1>0, <2>1, <2>2 DEF InTime, Writing, AdvanceStages
  <2> QED
    BY <1>6, <2>1, <2>3 DEF Clock, Tick
<1>7. CASE UNCHANGED vars
  BY <1>1, <1>2, <1>7 DEF vars, workerVars, claimVars, Who
<1> QED
  BY <1>4, <1>5, <1>6, <1>7 DEF Next

\* Two workers are never both writing for one customer: both would have a
\* running lease on it.
THEOREM OneWriter ==
    ASSUME ~SlowWrites
    PROVE  Spec => []OneWriterPerCustomer
<1>1. PipelineInit => WritersAreLeased
  BY DEF PipelineInit, WritersAreLeased, Writing, AdvanceStages
<1>2. PipelineInv /\ WritersAreLeased /\ [Next]_vars => WritersAreLeased'
  BY LeasedStep
<1>3. PipelineInv /\ WritersAreLeased /\ LeaseExclusion => OneWriterPerCustomer
  <2> SUFFICES ASSUME PipelineInv, WritersAreLeased, LeaseExclusion,
                      NEW v \in Holder, NEW w \in Holder,
                      pc[v] \in Writing, pc[w] \in Writing, Who(v) = Who(w)
               PROVE v = w
    BY DEF OneWriterPerCustomer
  <2>1. Who(v) \in Customer
    BY PipelineAssumption
       DEF PipelineInv, PipelineTypeOK, Assigned, Who, Writing, AdvanceStages
  <2> QED
    BY <2>1 DEF WritersAreLeased, LeaseExclusion
<1>4. Spec => []LeaseExclusion
  BY ClaimsAreUsedProperly, ClaimExcludes, PTL DEF UsesClaims
<1> QED
  BY <1>1, <1>2, <1>3, <1>4, PipelineInvariant, PTL DEF Spec

----------------------------------------------------------------------------
(* The ledger: what the pipeline tells Twilio and its own queue is true.  A   *)
(* row of the queue is retired only when its message was recorded, and a      *)
(* message that was answered 200 or 202 is recorded or waits in the queue.    *)
(* Both rest on what a worker knows at each stage: who is past the record     *)
(* stage has recorded its message, and a request carries an answer only if    *)
(* that answer has a reason.                                                  *)

Finished == {"processed", "duplicate"}

\* A call past the record stage has recorded its message, unless it is on its
\* way out with an error.
PastRecord(w) ==
    /\ pc[w] \in (Holding \ {"record", "release"}) \cup {"retire"}
          => call[w].msg \in recorded
    /\ pc[w] = "release" => call[w].reply \in Finished \cup {"error"}
    /\ pc[w] = "release" /\ call[w].reply \in Finished
          => call[w].msg \in recorded

\* A request either still processes the message it came with, or has an
\* answer for it, and a good answer only for a recorded message.
AnswerIsTrue(w) ==
    call[w].origin # None =>
        \/ /\ ~call[w].nested
           /\ pc[w] \in {"acquire", "defer"} \cup Holding
           /\ call[w].msg = call[w].origin
        \/ /\ call[w].nested \/ pc[w] \in {"drainlist", "drainnext", "retire"}
           /\ call[w].answer \in Finished \cup {"error"}
           /\ call[w].answer \in Finished => call[w].origin \in recorded

LedgerInv ==
    /\ \A w \in Holder : PastRecord(w) /\ AnswerIsTrue(w)
    /\ RetiredWasRecorded
    /\ AckedIsAccounted

----------------------------------------------------------------------------
\* processed_messages is never deleted from, and only Record and Link write it.
LEMMA OnlyRecordRecords ==
    ASSUME [Next]_vars
    PROVE  /\ recorded \subseteq recorded'
           /\ \A w \in Holder : Step(w) => Record(w) \/ UNCHANGED recorded
<1> USE DEF ledgerVars, OnlyWorkers, OnlyClaim, OnlyStore
<1>1. ASSUME NEW w \in Holder, Step(w)
      PROVE Record(w) \/ UNCHANGED recorded
  <2>1. CASE Defer(w) \/ Link(w) \/ DrainNext(w) \/ Retire(w)
    BY <2>1 DEF Defer, Link, DrainNext, Retire
  <2>2. CASE Acquire(w) \/ ReleaseClaim(w) \/ RenewClaim(w)
    BY <2>2 DEF Acquire, ReleaseClaim, RenewClaim
  <2>3. CASE \/ DrainList(w) \/ Route(w) \/ GetOpen(w) \/ Reread(w)
             \/ RecoverOrphan(w) \/ ListTurns(w) \/ Parse(w) \/ MergeDraft(w)
             \/ LookupOrder(w) \/ RecoverConflict(w)
    BY <2>3 DEF DrainList, Route, GetOpen, Reread, RecoverOrphan, ListTurns,
                Parse, MergeDraft, LookupOrder, RecoverConflict
  <2>4. CASE \/ Expire(w) \/ Create(w) \/ AppendTurnIfNew(w) \/ SaveDraft(w)
             \/ CreateDraft(w) \/ Mark(w) \/ Outcomes(w)
    BY <2>4 DEF Expire, Create, AppendTurnIfNew, SaveDraft, CreateDraft,
                Mark, Outcomes
  <2> QED
    BY <1>1, <2>1, <2>2, <2>3, <2>4 DEF Step
<1>2. ASSUME NEW w \in Holder, Record(w) PROVE recorded \subseteq recorded'
  BY <1>2 DEF Record
<1>3. ASSUME NEW w \in Holder,
             \/ StartSweep(w) \/ Fault(w) \/ Crash(w)
             \/ \E m \in Message : Deliver(w, m)
      PROVE UNCHANGED recorded
  BY <1>3 DEF StartSweep, Fault, FailUnclaimed, FailClaimed, FailRelease, FailDrain,
              Crash, Deliver
<1>4. CASE Clock \/ UNCHANGED vars
  BY <1>4 DEF Clock, vars
<1> QED
  BY <1>1, <1>2, <1>3, <1>4 DEF Next

\* How a call comes to its release: with an error, or with a reply that is
\* given from the record stage by Record alone.
LEMMA RepliesHaveReasons ==
    ASSUME PipelineTypeOK, NEW w \in Holder,
           Step(w) \/ FailClaimed(w), pc'[w] = "release"
    PROVE  /\ call'[w].reply \in Finished \cup {"error"}
           /\ call'[w].reply \in Finished => pc[w] # "record" \/ Record(w)
<1> USE DEF At, Goto, Finished
<1>0. pc \in [Holder -> Stages] /\ call \in [Holder -> Call] /\ call[w] \in Call
  BY DEF PipelineTypeOK
<1>r. \A x : call' = [call EXCEPT ![w].reply = x] => call'[w].reply = x
  BY <1>0 DEF Call
<1>1. CASE \/ Acquire(w) \/ Defer(w) \/ DrainNext(w) \/ Retire(w) \/ DrainList(w)
           \/ ReleaseClaim(w)
  BY <1>0, <1>1 DEF Acquire, Defer, DrainNext, Retire, DrainList, ReleaseClaim,
                    ReturnUnclaimed, Answer
<1>2. CASE Record(w) \/ Link(w)
  BY <1>0, <1>2, <1>r DEF Record, Link
<1>3. CASE Raise(w)
  BY <1>3, <1>r DEF Raise
<1>4. CASE Conclude(w) /\ pc[w] # "record"
  BY <1>0, <1>4, <1>r DEF Conclude
<1>5. CASE Route(w) \/ GetOpen(w) \/ Reread(w) \/ Create(w) \/ Expire(w)
  BY <1>0, <1>3, <1>5 DEF Route, GetOpen, Reread, Create, Expire
<1>6. CASE \/ AppendTurnIfNew(w) \/ ListTurns(w) \/ MergeDraft(w) \/ Parse(w)
           \/ SaveDraft(w) \/ RenewClaim(w)
  BY <1>0, <1>6 DEF AppendTurnIfNew, ListTurns, MergeDraft, Parse, SaveDraft,
                    RenewClaim, Settle
<1>7. CASE RecoverOrphan(w)
  BY <1>0, <1>7, <1>r DEF RecoverOrphan, Adopt
<1>8. CASE LookupOrder(w) \/ RecoverConflict(w) \/ CreateDraft(w) \/ Mark(w)
  BY <1>0, <1>3, <1>8 DEF LookupOrder, RecoverConflict, CreateDraft, Mark, Adopt
<1>9. CASE Outcomes(w) \/ FailClaimed(w)
  BY <1>3, <1>4, <1>9 DEF Outcomes, FailClaimed
<1> QED
  BY <1>1, <1>2, <1>3, <1>5, <1>6, <1>7, <1>8, <1>9 DEF Step

\* The only steps out of the record and release stages, and the only ones that
\* end outside the claim stages.
LEMMA FromRecord ==
    ASSUME PipelineTypeOK, NEW w \in Holder, Step(w) \/ FailClaimed(w),
           pc[w] = "record", ~Record(w)
    PROVE  pc'[w] = "release"
<1>1. FailClaimed(w)
  BY DEF Step, At, Acquire, Defer, Link, ReleaseClaim, DrainList, DrainNext,
         Retire, Route, Expire, GetOpen, Create, Reread, AppendTurnIfNew,
         RecoverOrphan, ListTurns, Parse, RenewClaim, MergeDraft, SaveDraft,
         LookupOrder, CreateDraft, RecoverConflict, Mark, Outcomes
<1> QED
  BY <1>1 DEF FailClaimed, Raise, Goto, PipelineTypeOK

LEMMA FromRelease ==
    ASSUME NEW w \in Holder, Step(w) \/ FailClaimed(w), pc[w] = "release"
    PROVE  ReleaseClaim(w)
BY DEF Step, FailClaimed, At, Acquire, Defer, Record, Link, DrainList, DrainNext,
       Retire, Route, Expire, GetOpen, Create, Reread, AppendTurnIfNew,
       RecoverOrphan, ListTurns, Parse, RenewClaim, MergeDraft, SaveDraft,
       LookupOrder, CreateDraft, RecoverConflict, Mark, Outcomes

LEMMA StepsInside ==
    ASSUME PipelineTypeOK, NEW w \in Holder, Step(w)
    PROVE  \/ pc'[w] \in Holding \/ Acquire(w) \/ Defer(w) \/ ReleaseClaim(w)
           \/ DrainList(w) \/ DrainNext(w) \/ Retire(w)
<1> USE DEF Goto, Holding, AdvanceStages
<1>0. pc \in [Holder -> Stages]
  BY DEF PipelineTypeOK
<1>1. CASE Record(w) \/ Link(w) \/ Outcomes(w) \/ Mark(w)
  BY <1>0, <1>1 DEF Record, Link, Outcomes, Mark, Conclude, Raise
<1>2. CASE Route(w) \/ GetOpen(w) \/ Reread(w) \/ Create(w) \/ Expire(w)
  BY <1>0, <1>2 DEF Route, GetOpen, Reread, Create, Expire, Raise
<1>3. CASE AppendTurnIfNew(w) \/ ListTurns(w) \/ MergeDraft(w) \/ Parse(w) \/ SaveDraft(w)
  BY <1>0, <1>3 DEF AppendTurnIfNew, ListTurns, MergeDraft, Parse, SaveDraft, Settle
<1>4. CASE RecoverOrphan(w) \/ LookupOrder(w) \/ RecoverConflict(w) \/ CreateDraft(w)
  BY <1>0, <1>4 DEF RecoverOrphan, LookupOrder, RecoverConflict, CreateDraft, Adopt, Raise
<1>5. CASE RenewClaim(w)
  BY <1>0, <1>5 DEF RenewClaim, Settle
<1> QED
  BY <1>1, <1>2, <1>3, <1>4, <1>5 DEF Step

\* A worker that moves carries what it knows along.
LEMMA MoverKnows ==
    ASSUME PipelineTypeOK, NEW w \in Holder, Next,
           \/ Step(w) \/ StartSweep(w) \/ Fault(w) \/ Crash(w)
           \/ \E m \in Message : Deliver(w, m),
           PastRecord(w), AnswerIsTrue(w)
    PROVE  PastRecord(w)' /\ AnswerIsTrue(w)'
<1> USE DEF Finished
<1>0. pc \in [Holder -> Stages] /\ call \in [Holder -> Call] /\ call[w] \in Call
  BY DEF PipelineTypeOK
<1>1. recorded \subseteq recorded'
  BY OnlyRecordRecords
\* Inside a call.
<1>2. CASE (Step(w) \/ FailClaimed(w)) /\ pc'[w] \in Holding
  <2>1. Kept(w)
    BY <1>2, LocalsAreKept
  <2>2. CASE Acquire(w)
    <3>1. pc'[w] = "record" /\ pc[w] = "acquire"
      BY <1>0, <1>2, <2>2 DEF Acquire, At, Goto, Holding, AdvanceStages
    <3>2. PastRecord(w)'
      BY <3>1 DEF PastRecord, Holding, AdvanceStages
    <3>3. AnswerIsTrue(w)'
      BY <1>1, <1>2, <2>1, <3>1 DEF AnswerIsTrue, Kept
    <3> QED
      BY <3>2, <3>3
  <2>3. CASE ~Acquire(w)
    <3>1. pc[w] \in Holding
      BY <1>2, <2>3, HoldingGoesOn
    <3>2. pc[w] \notin {"drainlist", "drainnext", "retire"}
      BY <3>1 DEF Holding, AdvanceStages
    <3>3. AnswerIsTrue(w)'
      BY <1>1, <1>2, <2>1, <3>1, <3>2 DEF AnswerIsTrue, Kept
    <3>4. pc'[w] # "record"
      <4>1. CASE Step(w)
        BY <2>3, <4>1, OnlyAcquireRecords
      <4>2. CASE FailClaimed(w)
        BY <1>0, <4>2 DEF FailClaimed, Conclude, Raise, Goto
      <4> QED
        BY <1>2, <4>1, <4>2
    <3>5. CASE pc[w] = "record"
      <4>1. CASE Record(w)
        <5>1. call[w].msg \in recorded'
          BY <4>1 DEF Record
        <5> QED
          BY <1>2, <2>1, <3>3, <5>1, RepliesHaveReasons DEF PastRecord, Kept
      <4>2. CASE ~Record(w)
        <5>1. pc'[w] = "release"
          BY <1>0, <1>2, <3>5, <4>2, FromRecord
        <5> QED
          BY <1>2, <3>3, <3>5, <4>2, <5>1, RepliesHaveReasons
             DEF PastRecord
      <4> QED
        BY <4>1, <4>2
    <3>6. CASE pc[w] = "release"
      <4>1. ReleaseClaim(w)
        BY <1>2, <3>6, FromRelease
      <4> QED
        BY <1>0, <1>2, <4>1 DEF ReleaseClaim, Goto, Holding, AdvanceStages
    <3>7. CASE pc[w] \notin {"record", "release"}
      <4>1. call'[w].msg \in recorded'
        BY <1>1, <2>1, <3>1, <3>7 DEF PastRecord, Kept
      <4> QED
        BY <1>2, <3>3, <4>1, RepliesHaveReasons DEF PastRecord
    <3> QED
      BY <3>5, <3>6, <3>7
  <2> QED
    BY <2>2, <2>3
\* On the way out of a call, and between calls.
<1>3. ASSUME pc'[w] = "idle", call'[w] = NoCall
      PROVE PastRecord(w)' /\ AnswerIsTrue(w)'
  BY <1>3 DEF PastRecord, AnswerIsTrue, NoCall, Holding, AdvanceStages
<1>4. ASSUME pc'[w] = "drainnext", call'[w].origin = call[w].origin,
             call'[w].nested = call[w].nested, call'[w].answer = call[w].answer,
             call[w].nested \/ pc[w] \in {"idle", "drainlist", "drainnext", "retire"}
      PROVE PastRecord(w)' /\ AnswerIsTrue(w)'
  BY <1>1, <1>4 DEF PastRecord, AnswerIsTrue, Holding, AdvanceStages
<1>5. ASSUME NEW x, Answer(w, x) \/ ReturnUnclaimed(w, x)
      PROVE PastRecord(w)' /\ AnswerIsTrue(w)'
  <2>1. CASE Answer(w, x)
    BY <1>0, <1>3, <2>1 DEF Answer
  <2>2. CASE call[w].nested /\ Goto(w, "drainnext") /\ UNCHANGED <<call, acked>>
    BY <1>0, <1>4, <2>2 DEF Goto
  <2> QED
    BY <1>5, <2>1, <2>2 DEF ReturnUnclaimed
<1>6. CASE Defer(w) \/ FailUnclaimed(w) \/ FailRelease(w)
  BY <1>5, <1>6 DEF Defer, FailUnclaimed, FailRelease
<1>7. CASE Crash(w)
  BY <1>0, <1>3, <1>7 DEF Crash
<1>8. CASE StartSweep(w) \/ FailDrain(w) \/ DrainList(w)
  <2>1. pc'[w] = "drainnext"
    BY <1>0, <1>8 DEF StartSweep, FailDrain, DrainList, Goto
  <2>2. PICK rows : call' = [call EXCEPT ![w].todo = rows]
    BY <1>8 DEF StartSweep, FailDrain, DrainList
  <2>3. pc[w] \in {"idle", "drainlist", "drainnext", "retire"}
    BY <1>8 DEF StartSweep, FailDrain, DrainList, At
  <2> QED
    BY <1>0, <1>4, <2>1, <2>2, <2>3 DEF Call
<1>9. CASE Retire(w)
  BY <1>0, <1>4, <1>9 DEF Retire, At, Goto
<1>10. CASE Acquire(w) /\ pc'[w] \notin Holding
  <2>1. pc'[w] = "defer" /\ call'[w] = call[w] /\ pc[w] = "acquire"
    BY <1>0, <1>10 DEF Acquire, At, Goto, Holding
  <2> QED
    BY <1>1, <2>1 DEF PastRecord, AnswerIsTrue, Holding, AdvanceStages
<1>11. CASE ReleaseClaim(w)
  <2>0. /\ pc[w] = "release" /\ pc[w] \in Holding
        /\ pc[w] \notin {"drainlist", "drainnext", "retire"}
        /\ call[w].reply \in Finished \cup {"error"}
        /\ call[w].reply \in Finished => call[w].msg \in recorded
    BY <1>11 DEF ReleaseClaim, At, PastRecord, Holding, AdvanceStages
  <2>1. CASE call[w].nested
    <3>1. /\ call'[w] = call[w]
          /\ pc'[w] = IF call[w].reply = "error" THEN "drainnext" ELSE "retire"
      BY <1>0, <1>11, <2>1 DEF ReleaseClaim, Goto
    <3> QED
      BY <1>1, <2>0, <2>1, <3>1 DEF PastRecord, AnswerIsTrue, Holding, AdvanceStages
  <2>2. CASE ~call[w].nested
    <3>1. /\ pc'[w] = "drainlist" /\ call'[w].answer = call[w].reply
          /\ call'[w].origin = call[w].origin
      BY <1>0, <1>11, <2>2 DEF ReleaseClaim, Goto, Call
    <3>2. call[w].origin # None => call[w].msg = call[w].origin
      BY <2>0, <2>2 DEF AnswerIsTrue
    <3> QED
      BY <1>1, <2>0, <3>1, <3>2 DEF PastRecord, AnswerIsTrue, Holding, AdvanceStages
  <2> QED
    BY <2>1, <2>2
<1>12. CASE DrainNext(w)
  <2>1. CASE Answer(w, call[w].answer)
    BY <1>5, <2>1
  <2>2. ASSUME NEW m \in call[w].todo, Goto(w, "acquire"),
               call' = [call EXCEPT ![w] =
                           [Request(w) EXCEPT !.msg = m, !.nested = TRUE,
                                              !.recv = deferred[m].recv,
                                              !.todo = call[w].todo \ {m}]]
        PROVE PastRecord(w)' /\ AnswerIsTrue(w)'
    <3>1. /\ pc'[w] = "acquire" /\ pc[w] = "drainnext"
          /\ call'[w].nested = TRUE /\ call'[w].origin = call[w].origin
          /\ call'[w].answer = call[w].answer
      BY <1>0, <1>12, <2>2 DEF DrainNext, At, Goto, Request, NoCall
    <3> QED
      BY <1>1, <3>1 DEF PastRecord, AnswerIsTrue, Holding, AdvanceStages
  <2> QED
    BY <1>12, <2>1, <2>2 DEF DrainNext
<1>13. ASSUME NEW m \in Message, Deliver(w, m)
       PROVE PastRecord(w)' /\ AnswerIsTrue(w)'
  <2>1. pc'[w] = "acquire" /\ call'[w].msg = m /\ call'[w].origin = m
        /\ ~call'[w].nested
    BY <1>0, <1>13 DEF Deliver, Goto, NoCall
  <2> QED
    BY <2>1 DEF PastRecord, AnswerIsTrue, Holding, AdvanceStages
\* Everything else stays inside the call.
<1>14. CASE FailClaimed(w)
  <2>1. pc'[w] \in Holding
    BY <1>0, <1>14 DEF FailClaimed, Conclude, Raise, Goto, Holding
  <2> QED
    BY <1>2, <1>14, <2>1
<1>15. CASE Step(w)
  <2>1. \/ pc'[w] \in Holding \/ Acquire(w) \/ Defer(w) \/ ReleaseClaim(w)
        \/ DrainList(w) \/ DrainNext(w) \/ Retire(w)
    BY <1>0, <1>15, StepsInside
  <2> QED
    BY <1>2, <1>6, <1>8, <1>9, <1>10, <1>11, <1>12, <1>15, <2>1
<1> QED
  BY <1>6, <1>7, <1>8, <1>13, <1>14, <1>15 DEF Fault

----------------------------------------------------------------------------
\* A row leaves the queue in one action only, and enters it in one.
LEMMA QueueActions ==
    ASSUME PipelineTypeOK, [Next]_vars
    PROVE  \/ UNCHANGED deferred
           \/ \E w \in Holder : Defer(w) \/ Retire(w)
<1> USE DEF OnlyWorkers, OnlyClaim, OnlyStore
<1>1. ASSUME NEW w \in Holder, Step(w)
      PROVE Defer(w) \/ Retire(w) \/ UNCHANGED deferred
  <2>1. CASE Record(w) \/ Link(w) \/ DrainNext(w)
    BY <2>1 DEF Record, Link, DrainNext
  <2>2. CASE Acquire(w) \/ ReleaseClaim(w) \/ RenewClaim(w)
    BY <2>2 DEF Acquire, ReleaseClaim, RenewClaim
  <2>3. CASE \/ DrainList(w) \/ Route(w) \/ GetOpen(w) \/ Reread(w)
             \/ RecoverOrphan(w) \/ ListTurns(w) \/ Parse(w) \/ MergeDraft(w)
             \/ LookupOrder(w) \/ RecoverConflict(w)
    BY <2>3 DEF DrainList, Route, GetOpen, Reread, RecoverOrphan, ListTurns,
                Parse, MergeDraft, LookupOrder, RecoverConflict
  <2>4. CASE \/ Expire(w) \/ Create(w) \/ AppendTurnIfNew(w) \/ SaveDraft(w)
             \/ CreateDraft(w) \/ Mark(w) \/ Outcomes(w)
    BY <2>4 DEF Expire, Create, AppendTurnIfNew, SaveDraft, CreateDraft,
                Mark, Outcomes
  <2> QED
    BY <1>1, <2>1, <2>2, <2>3, <2>4 DEF Step
<1>2. ASSUME NEW w \in Holder,
             \/ StartSweep(w) \/ Fault(w) \/ Crash(w)
             \/ \E m \in Message : Deliver(w, m)
      PROVE UNCHANGED deferred
  BY <1>2 DEF StartSweep, Fault, FailUnclaimed, FailClaimed, FailRelease, FailDrain,
              Crash, Deliver
<1>3. CASE Clock \/ UNCHANGED vars
  BY <1>3 DEF Clock, vars
<1> QED
  BY <1>1, <1>2, <1>3 DEF Next

\* What a retired row stands for has been recorded, and a message that is
\* pending stays so until it is recorded.
LEMMA QueueStep ==
    ASSUME PipelineTypeOK, LedgerInv, [Next]_vars
    PROVE  /\ RetiredWasRecorded'
           /\ Pending \subseteq Pending' \cup recorded
<1> USE DEF RetiredWasRecorded, LedgerInv, Pending
<1>0. /\ deferred \in [Message -> [status : {"none", "pending", "done"},
                                   recv : Time, at : Time]]
      /\ recorded \subseteq recorded'
  BY OnlyRecordRecords DEF PipelineTypeOK
<1>1. ASSUME NEW w \in Holder, Defer(w)
      PROVE \A m \in Message :
               \/ deferred'[m].status = deferred[m].status
               \/ /\ deferred[m].status = "none"
                  /\ deferred'[m].status = "pending"
  BY <1>0, <1>1 DEF Defer
<1>2. ASSUME NEW w \in Holder, Retire(w)
      PROVE \A m \in Message :
               deferred'[m].status = deferred[m].status \/ m \in recorded
  <2>1. call[w].msg \in Message /\ call[w].msg \in recorded
    BY <1>2 DEF Retire, At, PipelineTypeOK, Assigned, PastRecord
  <2> QED
    BY <1>0, <1>2, <2>1 DEF Retire
<1>3. CASE UNCHANGED deferred
  BY <1>0, <1>3
<1> QED
  BY <1>0, <1>1, <1>2, <1>3, QueueActions

\* Requests are answered in two places.
LEMMA OnlyTwoAnswer ==
    ASSUME NEW w \in Holder, Step(w), ~Defer(w), ~DrainNext(w)
    PROVE  UNCHANGED acked
<1> USE DEF OnlyWorkers, OnlyClaim, OnlyStore
<1>1. CASE Record(w) \/ Link(w) \/ Retire(w)
  BY <1>1 DEF Record, Link, Retire
<1>2. CASE Acquire(w) \/ ReleaseClaim(w) \/ RenewClaim(w)
  BY <1>2 DEF Acquire, ReleaseClaim, RenewClaim
<1>3. CASE \/ DrainList(w) \/ Route(w) \/ GetOpen(w) \/ Reread(w)
           \/ RecoverOrphan(w) \/ ListTurns(w) \/ Parse(w) \/ MergeDraft(w)
           \/ LookupOrder(w) \/ RecoverConflict(w)
  BY <1>3 DEF DrainList, Route, GetOpen, Reread, RecoverOrphan, ListTurns,
              Parse, MergeDraft, LookupOrder, RecoverConflict
<1>4. CASE \/ Expire(w) \/ Create(w) \/ AppendTurnIfNew(w) \/ SaveDraft(w)
           \/ CreateDraft(w) \/ Mark(w) \/ Outcomes(w)
  BY <1>4 DEF Expire, Create, AppendTurnIfNew, SaveDraft, CreateDraft,
              Mark, Outcomes
<1> QED
  BY <1>1, <1>2, <1>3, <1>4 DEF Step

\* A good answer is given for a message that is recorded or in the queue.
LEMMA AnswerStep ==
    ASSUME PipelineTypeOK, LedgerInv, [Next]_vars
    PROVE  acked' \subseteq acked \cup recorded \cup Pending'
<1>0. /\ call \in [Holder -> Call]
      /\ deferred \in [Message -> [status : {"none", "pending", "done"},
                                   recv : Time, at : Time]]
      /\ now \in Time
  BY DEF PipelineTypeOK, ClaimTypeOK
<1> DEFINE Goal == acked' \subseteq acked \cup recorded \cup Pending'
<1>1. ASSUME NEW w \in Holder, NEW x,
             Answer(w, x) \/ ReturnUnclaimed(w, x),
             \/ x = "error"
             \/ call[w].origin # None => call[w].origin \in recorded \cup Pending'
      PROVE Goal
  BY <1>1 DEF Answer, ReturnUnclaimed
<1>2. ASSUME NEW w \in Holder, Defer(w) PROVE Goal
  <2>1. call[w].msg \in Message /\ pc[w] = "defer"
    BY <1>2 DEF Defer, At, PipelineTypeOK, Assigned
  <2>2. call[w].msg \in recorded \cup Pending'
    <3>1. deferred'[call[w].msg].status \in {"pending", "done"}
      BY <1>0, <1>2, <2>1 DEF Defer
    <3>2. deferred'[call[w].msg].status = "done" => deferred[call[w].msg].status = "done"
      BY <1>0, <1>2, <2>1 DEF Defer
    <3> QED
      BY <2>1, <3>1, <3>2 DEF LedgerInv, RetiredWasRecorded, Pending
  <2>3. CASE call[w].nested
    BY <1>2, <2>3 DEF Defer, ReturnUnclaimed
  <2>4. CASE ~call[w].nested
    <3>1. call[w].origin # None => call[w].msg = call[w].origin
      BY <2>1, <2>4 DEF LedgerInv, AnswerIsTrue
    <3> QED
      BY <1>1, <1>2, <2>2, <3>1 DEF Defer
  <2> QED
    BY <2>3, <2>4
<1>3. ASSUME NEW w \in Holder, DrainNext(w) PROVE Goal
  <2>1. CASE Answer(w, call[w].answer)
    <3>1. call[w].origin # None =>
             call[w].answer = "error" \/ call[w].origin \in recorded
      BY <1>3 DEF DrainNext, At, LedgerInv, AnswerIsTrue, Finished, Holding,
                  AdvanceStages
    <3> QED
      BY <2>1, <3>1 DEF Answer
  <2> QED
    BY <1>3, <2>1 DEF DrainNext
<1>4. ASSUME NEW w \in Holder, FailUnclaimed(w) \/ FailRelease(w) PROVE Goal
  BY <1>1, <1>4 DEF FailUnclaimed, FailRelease
<1>5. ASSUME NEW w \in Holder, Step(w), ~Defer(w), ~DrainNext(w)
      PROVE UNCHANGED acked
  BY <1>5, OnlyTwoAnswer
<1>6. ASSUME NEW w \in Holder,
             \/ StartSweep(w) \/ FailClaimed(w) \/ FailDrain(w) \/ Crash(w)
             \/ \E m \in Message : Deliver(w, m)
      PROVE UNCHANGED acked
  BY <1>6 DEF StartSweep, FailClaimed, FailDrain, Crash, Deliver, OnlyWorkers
<1>7. CASE Clock \/ UNCHANGED vars
  BY <1>7 DEF Clock, OnlyClaim, vars
<1> QED
  BY <1>2, <1>3, <1>4, <1>5, <1>6, <1>7 DEF Next, Fault

\* What the workers know is kept by every step of every worker.
LEMMA LedgerStep ==
    ASSUME PipelineInv, LedgerInv, [Next]_vars
    PROVE  LedgerInv'
<1> USE DEF PipelineInv
<1>1. recorded \subseteq recorded'
  BY OnlyRecordRecords
<1>2. ASSUME NEW w \in Holder,
             \/ Step(w) \/ StartSweep(w) \/ Fault(w) \/ Crash(w)
             \/ \E m \in Message : Deliver(w, m)
      PROVE \A u \in Holder : PastRecord(u)' /\ AnswerIsTrue(u)'
  <2>1. Next
    BY <1>2 DEF Next
  <2>2. PastRecord(w)' /\ AnswerIsTrue(w)'
    BY <1>2, <2>1, MoverKnows DEF LedgerInv
  <2>3. Moved(w)
    BY <1>2, StepMoves, OtherMoves, StepUsesStore, OrderIdsGrow
  <2>4. ASSUME NEW u \in Holder, u # w PROVE PastRecord(u)' /\ AnswerIsTrue(u)'
    <3>1. pc'[u] = pc[u] /\ call'[u] = call[u]
      BY <2>3, <2>4 DEF Moved, Moves, PipelineTypeOK
    <3> QED
      BY <1>1, <3>1 DEF LedgerInv, PastRecord, AnswerIsTrue
  <2> QED
    BY <2>2, <2>4
<1>3. CASE Clock \/ UNCHANGED vars
  <2>1. UNCHANGED <<pc, call, recorded>>
    BY <1>3 DEF Clock, OnlyClaim, ledgerVars, workerVars, vars
  <2> QED
    BY <2>1, QueueStep, AnswerStep
       DEF LedgerInv, PastRecord, AnswerIsTrue, AckedIsAccounted
<1>4. RetiredWasRecorded' /\ AckedIsAccounted'
  BY <1>1, QueueStep, AnswerStep DEF LedgerInv, AckedIsAccounted
<1> QED
  BY <1>2, <1>3, <1>4 DEF Next, LedgerInv

LEMMA LedgerInvariant == Spec => []LedgerInv
<1>1. PipelineInit => LedgerInv
  BY DEF PipelineInit, LedgerInv, PastRecord, AnswerIsTrue, RetiredWasRecorded,
         AckedIsAccounted, NoCall, NotDeferred, Holding, AdvanceStages
<1>2. PipelineInv /\ LedgerInv /\ [Next]_vars => LedgerInv'
  BY LedgerStep
<1> QED
  BY <1>1, <1>2, PipelineInvariant, PTL DEF Spec

\* A row of the queue is retired only when its message is recorded as
\* processed.
THEOREM RetiredWasRecordedAlways == Spec => []RetiredWasRecorded
BY LedgerInvariant, PTL DEF LedgerInv

\* A message answered 200 or 202 is recorded or waits in the queue, whatever
\* fails.
THEOREM AckedIsAccountedAlways == Spec => []AckedIsAccounted
BY LedgerInvariant, PTL DEF LedgerInv
============================================================================
