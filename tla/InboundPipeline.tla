-------------------------- MODULE InboundPipeline --------------------------
(***************************************************************************)
(* From the webhook to the draft order: web/app.py (processing, deferral,  *)
(* replay) and services/conversation_advancement.py, over the claim table, *)
(* the conversation tables, processed_messages and deferred_inbound.       *)
(*                                                                         *)
(* A worker is a web process or an operator's drain script: it runs one    *)
(* call at a time and stands for the holder_id the call draws.  Each       *)
(* action is one transaction of the code, or the parser call, together     *)
(* with the computation that follows it up to the next one; pc names the   *)
(* next one.  Between two of them other workers run, the clock ticks, the  *)
(* process dies or the next statement fails.                               *)
(*                                                                         *)
(* What a text says is abstracted to three choices: blank or not, parsed   *)
(* or not, enough for an order or not.  A draft is the set of messages it  *)
(* was merged from.                                                        *)
(***************************************************************************)
EXTENDS CustomerClaim, ConversationStore, FiniteSets

CONSTANTS CustomerOf,      \* the customer a message is from
          BlankMessage,    \* messages without text
          IdleThreshold,   \* DEFAULT_IDLE_THRESHOLD, in ticks
          DrainLimit,      \* AUTO_DRAIN_LIMIT
          SlowWrites,      \* may statements, too, outlast the lease?
          MaxDeliveries,   \* BOUND: webhook requests
          MaxFailures      \* BOUND: process deaths and failing statements

ASSUME PipelineAssumption ==
    /\ CustomerOf \in [Message -> Customer]
    /\ BlankMessage \subseteq Message
    /\ None \notin Message \cup Conv \cup OrderId
    /\ IdleThreshold \in Nat
    /\ DrainLimit \in Nat \ {0}
    /\ SlowWrites \in BOOLEAN

VARIABLES recorded,    \* message_sids of processed_messages
          resulting,   \* ... and their resulting_order_id
          deferred,    \* deferred_inbound, by message_sid
          acked,       \* messages answered with 200 or 202
          pc,          \* where each worker is
          call,        \* what each worker holds in local variables
          spent        \* deliveries and failures so far

ledgerVars == <<recorded, resulting>>
workerVars == <<pc, call>>
vars == <<claimVars, storeVars, ledgerVars, deferred, acked, workerVars, spent>>

NotDeferred == [status |-> "none", recv |-> 0, at |-> 0]

\* The first six fields are the locals of one processing call, the next four
\* those of advance(); origin, answer and todo belong to the request or
\* script around it (origin None: a drain script, which answers nobody).
NoCall == [msg |-> None, recv |-> 0, nested |-> FALSE, reply |-> None,
           conv |-> None, status |-> None,
           fresh |-> FALSE, draft |-> {}, order |-> None, outcome |-> None,
           origin |-> None, answer |-> None, todo |-> {}]

Replies == {"processed", "duplicate", "deferred", "error"}

\* The stages of a call that acquired its claim.
AdvanceStages == {"route", "expire", "getopen", "create", "reread", "append",
                  "orphan", "list", "parse", "renew", "getdraft", "save",
                  "lookup", "createdraft", "conflict", "mark", "outcome"}
Holding == AdvanceStages \cup {"record", "link", "release"}
Stages == Holding \cup {"idle", "acquire", "defer", "drainlist", "drainnext",
                        "retire"}

\* The stages between routing and the outcome, where a session is at hand.
WithSession == {"expire", "append", "orphan", "list", "parse", "renew",
                "getdraft", "save", "lookup", "createdraft", "conflict", "mark",
                "outcome"}

Call == [msg : Message \cup {None}, recv : Time, nested : BOOLEAN,
         reply : Replies \cup {None},
         conv : Conv \cup {None}, status : {"open", "draft_created", None},
         fresh : BOOLEAN, draft : SUBSET Message, order : OrderId \cup {None},
         outcome : Outcome \cup {None},
         origin : Message \cup {None}, answer : Replies \cup {None},
         todo : SUBSET Message]

\* No local is used before it is assigned.
Assigned(w) ==
    /\ pc[w] \notin {"idle", "drainnext"} => call[w].msg \in Message
    /\ pc[w] \in WithSession => call[w].conv \in Conv
    /\ pc[w] = "mark" => call[w].order \in OrderIds
    /\ pc[w] \in {"mark", "outcome"} => call[w].outcome \in Outcome

PipelineTypeOK ==
    /\ ClaimTypeOK
    /\ StoreTypeOK
    /\ recorded \subseteq Message
    /\ resulting \in [Message -> OrderId \cup {None}]
    /\ deferred \in [Message -> [status : {"none", "pending", "done"},
                                 recv : Time, at : Time]]
    /\ acked \subseteq Message
    /\ pc \in [Holder -> Stages]
    /\ call \in [Holder -> Call]
    /\ \A w \in Holder : Assigned(w)
    /\ spent \in [deliveries : Nat, failures : Nat]

PipelineInit ==
    /\ ClaimInit
    /\ StoreInit
    /\ recorded = {}
    /\ resulting = [m \in Message |-> None]
    /\ deferred = [m \in Message |-> NotDeferred]
    /\ acked = {}
    /\ pc = [w \in Holder |-> "idle"]
    /\ call = [w \in Holder |-> NoCall]
    /\ spent = [deliveries |-> 0, failures |-> 0]

----------------------------------------------------------------------------
Who(w) == CustomerOf[call[w].msg]

Goto(w, stage) == pc' = [pc EXCEPT ![w] = stage]

At(w, from) == pc[w] = from /\ UNCHANGED spent

OnlyWorkers == UNCHANGED <<claimVars, storeVars, ledgerVars, deferred, acked>>
OnlyClaim == UNCHANGED <<storeVars, ledgerVars, deferred, acked>>
OnlyStore == UNCHANGED <<claimVars, ledgerVars, deferred, acked>>

Pending == {m \in Message : deferred[m].status = "pending"}
PendingOf(c) == {m \in Pending : CustomerOf[m] = c}

\* ORDER BY received_at, deferred_at; the last key, the message_sid, is
\* opaque and breaks ties arbitrarily.
Before(m, n) ==
    \/ deferred[m].recv < deferred[n].recv
    \/ deferred[m].recv = deferred[n].recv /\ deferred[m].at <= deferred[n].at

FirstRows(k, S) ==
    {T \in SUBSET S : /\ T = S \/ Cardinality(T) = k
                      /\ Cardinality(T) <= k
                      /\ \A m \in T, n \in S \ T : Before(m, n)}

----------------------------------------------------------------------------
(* Requests                                                                *)

\* Seeded fault: received_at from a clock that is ahead.
DeliverAhead(w, m) ==
    /\ pc[w] = "idle"
    /\ spent.deliveries < MaxDeliveries
    /\ spent' = [spent EXCEPT !.deliveries = @ + 1]
    /\ call' = [call EXCEPT ![w] = [NoCall EXCEPT !.msg = m, !.recv = now + 1,
                                                  !.origin = m]]
    /\ Goto(w, "acquire")
    /\ OnlyWorkers

\* POST /webhooks/twilio/whatsapp, past validation: any message, again and
\* again.
Deliver(w, m) ==
    /\ pc[w] = "idle"
    /\ spent.deliveries < MaxDeliveries
    /\ spent' = [spent EXCEPT !.deliveries = @ + 1]
    /\ call' = [call EXCEPT ![w] = [NoCall EXCEPT !.msg = m, !.recv = now,
                                                  !.origin = m]]
    /\ Goto(w, "acquire")
    /\ OnlyWorkers

\* drain_pending_deferred_inbound and ..._for_customer, run by hand; a drain
\* that finds nothing does nothing and is left out.
StartSweep(w) ==
    /\ At(w, "idle")
    /\ \E rows \in {Pending} \cup {PendingOf(c) : c \in Customer} :
          rows # {} /\ call' = [call EXCEPT ![w].todo = rows]
    /\ Goto(w, "drainnext")
    /\ OnlyWorkers

\* The response leaves when everything the request does is done.
Answer(w, reply) ==
    /\ pc' = [pc EXCEPT ![w] = "idle"]
    /\ call' = [call EXCEPT ![w] = NoCall]
    /\ acked' = IF call[w].origin # None /\ reply # "error"
                THEN acked \cup {call[w].origin} ELSE acked

\* Seeded fault: a replay that was deferred again is retired.
ReturnUnclaimedRetiring(w, reply) ==
    IF call[w].nested
    THEN Goto(w, "retire") /\ UNCHANGED <<call, acked>>
    ELSE Answer(w, reply)

\* A processing call that never held the claim is over.
ReturnUnclaimed(w, reply) ==
    IF call[w].nested
    THEN Goto(w, "drainnext") /\ UNCHANGED <<call, acked>>
    ELSE Answer(w, reply)

----------------------------------------------------------------------------
(* _process_validated_inbound_message                                      *)

Acquire(w) ==
    /\ At(w, "acquire")
    /\ \/ TryAcquire(w, Who(w)) /\ Goto(w, "record")
       \/ ~Acquirable(Who(w)) /\ Goto(w, "defer") /\ UNCHANGED claimVars
    /\ UNCHANGED call
    /\ OnlyClaim

\* ON CONFLICT DO NOTHING: a row, pending or done, stays as it is.
Defer(w) ==
    /\ At(w, "defer")
    /\ deferred' = [deferred EXCEPT ![call[w].msg] =
                       IF @.status # "none" THEN @
                       ELSE [status |-> "pending", recv |-> call[w].recv,
                             at |-> now]]
    /\ ReturnUnclaimed(w, "deferred")
    /\ UNCHANGED <<claimVars, storeVars, ledgerVars>>

Record(w) ==
    LET m == call[w].msg IN
    /\ At(w, "record")
    /\ recorded' = recorded \cup {m}
    /\ \/ /\ m \in recorded
          /\ call' = [call EXCEPT ![w].reply = "duplicate"]
          /\ Goto(w, "release")
       \/ /\ m \notin recorded /\ m \in BlankMessage
          /\ call' = [call EXCEPT ![w].reply = "processed"]
          /\ Goto(w, "release")
       \/ /\ m \notin recorded /\ m \notin BlankMessage
          /\ Goto(w, "route")
          /\ UNCHANGED call
    /\ UNCHANGED <<claimVars, storeVars, resulting, deferred, acked>>

\* mark_order_created
Link(w) ==
    /\ At(w, "link")
    /\ resulting' = [resulting EXCEPT ![call[w].msg] = call[w].order]
    /\ call' = [call EXCEPT ![w].reply = "processed"]
    /\ Goto(w, "release")
    /\ UNCHANGED <<claimVars, storeVars, recorded, deferred, acked>>

\* Seeded faults: a failed replay is retired; a duplicate is not; the claim
\* is released whoever holds it.
ReleaseClaimRetiringErrors(w) ==
    /\ At(w, "release")
    /\ Release(w, Who(w))
    /\ IF call[w].nested
       THEN Goto(w, "retire") /\ UNCHANGED call
       ELSE /\ Goto(w, "drainlist")
            /\ call' = [call EXCEPT ![w].answer = call[w].reply]
    /\ OnlyClaim
ReleaseClaimKeepingDuplicates(w) ==
    /\ At(w, "release")
    /\ Release(w, Who(w))
    /\ IF call[w].nested
       THEN /\ Goto(w, IF call[w].reply = "processed" THEN "retire" ELSE "drainnext")
            /\ UNCHANGED call
       ELSE /\ Goto(w, "drainlist")
            /\ call' = [call EXCEPT ![w].answer = call[w].reply]
    /\ OnlyClaim
ReleaseClaimOfAnybody(w) ==
    /\ At(w, "release")
    /\ claim' = [claim EXCEPT ![Who(w)] = NoClaim]
    /\ leaseEnd' = [leaseEnd EXCEPT ![w][Who(w)] = 0]
    /\ IF call[w].nested
       THEN /\ Goto(w, IF call[w].reply = "error" THEN "drainnext" ELSE "retire")
            /\ UNCHANGED call
       ELSE /\ Goto(w, "drainlist")
            /\ call' = [call EXCEPT ![w].answer = call[w].reply]
    /\ UNCHANGED now
    /\ OnlyClaim

\* The finally clause: release, then drain unless this call is a replay.
ReleaseClaim(w) ==
    /\ At(w, "release")
    /\ Release(w, Who(w))
    /\ IF call[w].nested
       THEN /\ Goto(w, IF call[w].reply = "error" THEN "drainnext" ELSE "retire")
            /\ UNCHANGED call
       ELSE /\ Goto(w, "drainlist")
            /\ call' = [call EXCEPT ![w].answer = call[w].reply]
    /\ OnlyClaim

----------------------------------------------------------------------------
(* _replay_deferred_records                                                *)

\* The automatic drain looks at the first rows of its own customer.
DrainList(w) ==
    /\ At(w, "drainlist")
    /\ \E rows \in FirstRows(DrainLimit, PendingOf(Who(w))) :
          call' = [call EXCEPT ![w].todo = rows]
    /\ Goto(w, "drainnext")
    /\ OnlyWorkers

\* What outlives a processing call: the request or script around it.
Request(w) == [NoCall EXCEPT !.origin = call[w].origin,
                             !.answer = call[w].answer,
                             !.todo = call[w].todo]

\* Seeded fault: a replayed row stays on the list.
DrainNextAgain(w) ==
    /\ At(w, "drainnext")
    /\ \/ /\ call[w].todo = {}
          /\ Answer(w, call[w].answer)
       \/ \E m \in call[w].todo :
             /\ \A n \in call[w].todo : Before(m, n)
             /\ call' = [call EXCEPT ![w] =
                           [Request(w) EXCEPT !.msg = m, !.nested = TRUE,
                                              !.recv = deferred[m].recv]]
             /\ Goto(w, "acquire")
             /\ UNCHANGED acked
    /\ UNCHANGED <<claimVars, storeVars, ledgerVars, deferred>>

\* The next row, oldest first, goes through processing again, as a fresh
\* arrival with its stored receipt time; after the last row the request is
\* answered.
DrainNext(w) ==
    /\ At(w, "drainnext")
    /\ \/ /\ call[w].todo = {}
          /\ Answer(w, call[w].answer)
       \/ \E m \in call[w].todo :
             /\ \A n \in call[w].todo : Before(m, n)
             /\ call' = [call EXCEPT ![w] =
                           [Request(w) EXCEPT !.msg = m, !.nested = TRUE,
                                              !.recv = deferred[m].recv,
                                              !.todo = call[w].todo \ {m}]]
             /\ Goto(w, "acquire")
             /\ UNCHANGED acked
    /\ UNCHANGED <<claimVars, storeVars, ledgerVars, deferred>>

\* mark_processed: the replay was processed, or found to be a duplicate.
Retire(w) ==
    /\ At(w, "retire")
    /\ deferred' = [deferred EXCEPT ![call[w].msg].status =
                       IF @ = "pending" THEN "done" ELSE @]
    /\ Goto(w, "drainnext")
    /\ UNCHANGED <<claimVars, storeVars, ledgerVars, acked, call>>

----------------------------------------------------------------------------
(* advance: routing                                                        *)

\* The session a call goes on with, as this transaction read it.
Read(w, s) == call' = [call EXCEPT ![w].conv = s,
                                   ![w].status = session[s].status,
                                   ![w].order = session[s].order]

IdleTooLong(w, s) == call[w].recv - session[s].last > IdleThreshold

\* Seeded faults: idle sessions are expired whatever their status; only open
\* sessions are routed to.
RouteExpiringDrafts(w) ==
    /\ At(w, "route")
    /\ \/ /\ Routable(Who(w)) = {}
          /\ Goto(w, "getopen")
          /\ UNCHANGED call
       \/ \E s \in LatestSessions(Who(w)) :
             /\ Read(w, s)
             /\ Goto(w, IF IdleTooLong(w, s) THEN "expire" ELSE "append")
    /\ OnlyWorkers
RouteOpenOnly(w) ==
    /\ At(w, "route")
    /\ \/ /\ OpenSessions(Who(w)) = {}
          /\ Goto(w, "getopen")
          /\ UNCHANGED call
       \/ \E s \in OpenSessions(Who(w)) :
             /\ Read(w, s)
             /\ Goto(w, IF IdleTooLong(w, s) THEN "expire" ELSE "append")
    /\ OnlyWorkers

\* _route_session: an open session idle for too long is expired first.
Route(w) ==
    /\ At(w, "route")
    /\ \/ /\ Routable(Who(w)) = {}
          /\ Goto(w, "getopen")
          /\ UNCHANGED call
       \/ \E s \in LatestSessions(Who(w)) :
             /\ Read(w, s)
             /\ Goto(w, IF session[s].status = "open" /\ IdleTooLong(w, s)
                        THEN "expire" ELSE "append")
    /\ OnlyWorkers

Expire(w) ==
    /\ At(w, "expire")
    /\ ExpireSession(call[w].conv)
    /\ Goto(w, "getopen")
    /\ UNCHANGED call
    /\ OnlyStore

\* get_or_create_open_session: find, else insert, else find what won.
GetOpen(w) ==
    /\ At(w, "getopen")
    /\ \/ OpenSessions(Who(w)) = {} /\ Goto(w, "create") /\ UNCHANGED call
       \/ \E s \in OpenSessions(Who(w)) : Read(w, s) /\ Goto(w, "append")
    /\ OnlyWorkers

\* Seeded fault: a second open session is inserted beside the first.
CreateAnother(w) ==
    /\ At(w, "create")
    /\ \E s \in Conv :
          /\ ~Exists(s)
          /\ session' = [session EXCEPT ![s] =
                [NoSession EXCEPT !.customer = Who(w), !.status = "open",
                                  !.last = call[w].recv]]
          /\ call' = [call EXCEPT ![w].conv = s, ![w].status = "open",
                                  ![w].order = None]
          /\ Goto(w, "append")
    /\ UNCHANGED <<turns, covered, orders>>
    /\ OnlyStore

Create(w) ==
    /\ At(w, "create")
    /\ \/ \E s \in Conv :
             /\ CreateOpenSession(s, Who(w), call[w].recv)
             /\ call' = [call EXCEPT ![w].conv = s, ![w].status = "open",
                                     ![w].order = None]
             /\ Goto(w, "append")
       \/ /\ OpenSessions(Who(w)) # {}
          /\ Goto(w, "reread")
          /\ UNCHANGED <<storeVars, call>>
    /\ OnlyStore

\* An exception inside the try block: the call is over, its claim is not.
Raise(w) ==
    /\ call' = [call EXCEPT ![w].reply = "error"]
    /\ Goto(w, "release")

Reread(w) ==
    /\ At(w, "reread")
    /\ \/ OpenSessions(Who(w)) = {} /\ Raise(w)
       \/ \E s \in OpenSessions(Who(w)) : Read(w, s) /\ Goto(w, "append")
    /\ OnlyWorkers

----------------------------------------------------------------------------
(* advance: from the turn to the order                                     *)

\* The outcome of advance() is settled.
Settle(w, outcome) ==
    /\ call' = [call EXCEPT ![w].outcome = outcome]
    /\ Goto(w, "outcome")

\* A message that has a turn already is left to the call that appended it,
\* and no outcome is recorded.
AppendTurnIfNew(w) ==
    LET fresh == ~HasTurn(call[w].msg) IN
    /\ At(w, "append")
    /\ IF fresh THEN AppendTurn(call[w].conv, call[w].msg, call[w].recv)
                ELSE UNCHANGED storeVars
    /\ IF call[w].status # "draft_created"
       THEN call' = [call EXCEPT ![w].fresh = fresh] /\ Goto(w, "orphan")
       ELSE IF fresh THEN Settle(w, "already_has_draft")
                     ELSE Goto(w, "link") /\ UNCHANGED call
    /\ OnlyStore

\* The session is to be linked to order o, and advance() then ends.
Adopt(w, o, outcome) ==
    /\ call' = [call EXCEPT ![w].order = o, ![w].outcome = outcome]
    /\ Goto(w, "mark")

\* Seeded fault: an order is looked for only where no turn was appended.
RecoverOrphanOfRetries(w) ==
    /\ At(w, "orphan")
    /\ IF call[w].fresh
       THEN Goto(w, "list") /\ UNCHANGED call
       ELSE IF OrdersOf(call[w].conv) # {}
       THEN \E o \in OrdersOf(call[w].conv) : Adopt(w, o.id, "already_has_draft")
       ELSE Goto(w, "release") /\ call' = [call EXCEPT ![w].reply = "processed"]
    /\ OnlyWorkers

\* _recover_orphan_draft: a crash may have left an order behind that its
\* session does not know.
RecoverOrphan(w) ==
    /\ At(w, "orphan")
    /\ IF OrdersOf(call[w].conv) # {}
       THEN \E o \in OrdersOf(call[w].conv) : Adopt(w, o.id, "already_has_draft")
       ELSE IF call[w].fresh
       THEN Goto(w, "list") /\ UNCHANGED call
       ELSE Goto(w, "release") /\ call' = [call EXCEPT ![w].reply = "processed"]
    /\ OnlyWorkers

ListTurns(w) ==
    /\ At(w, "list")
    /\ call' = [call EXCEPT ![w].draft = Transcript(call[w].conv)]
    /\ Goto(w, "parse")
    /\ OnlyWorkers

\* The parser call: a result, or a ParserError.
Parse(w) ==
    /\ At(w, "parse")
    /\ \/ Goto(w, "renew") /\ UNCHANGED call
       \/ Settle(w, "turn_appended_incomplete")
    /\ OnlyWorkers

\* Seeded fault: the answer of renew is ignored.
RenewUnfenced(w) ==
    /\ At(w, "renew")
    /\ Renew(w, Who(w)) \/ RenewLost(w, Who(w))
    /\ Goto(w, "getdraft")
    /\ UNCHANGED call
    /\ OnlyClaim

\* The parser call has no upper bound: without the claim nothing is written.
RenewClaim(w) ==
    /\ At(w, "renew")
    /\ \/ Renew(w, Who(w)) /\ Goto(w, "getdraft") /\ UNCHANGED call
       \/ RenewLost(w, Who(w)) /\ Settle(w, "turn_appended_incomplete")
    /\ OnlyClaim

\* get_accumulated_draft and the merge of the parse into it.
MergeDraft(w) ==
    /\ At(w, "getdraft")
    /\ call' = [call EXCEPT ![w].draft = @ \cup covered[call[w].conv]]
    /\ Goto(w, "save")
    /\ OnlyWorkers

\* Whether the draft is ready for an order depends on what it says.
SaveDraft(w) ==
    /\ At(w, "save")
    /\ SaveAccumulatedDraft(call[w].conv, call[w].draft)
    /\ \/ Goto(w, "lookup") /\ UNCHANGED call
       \/ Settle(w, "parse_incomplete")
    /\ OnlyStore

\* The revalidation before create_draft.
LookupOrder(w) ==
    /\ At(w, "lookup")
    /\ IF OrdersOf(call[w].conv) # {}
       THEN \E o \in OrdersOf(call[w].conv) : Adopt(w, o.id, "already_has_draft")
       ELSE Goto(w, "createdraft") /\ UNCHANGED call
    /\ OnlyWorkers

CreateDraft(w) ==
    /\ At(w, "createdraft")
    /\ \/ \E o \in OrderId :
             /\ InsertOrder(o, call[w].conv, call[w].draft)
             /\ Adopt(w, o, "draft_created")
       \/ /\ OrdersOf(call[w].conv) # {}
          /\ Goto(w, "conflict")
          /\ UNCHANGED <<storeVars, call>>
    /\ OnlyStore

\* Seeded fault: the order that could not be inserted is taken for created.
RecoverConflictBlindly(w) ==
    /\ At(w, "conflict")
    /\ \E o \in OrderId \ OrderIds : Adopt(w, o, "draft_created")
    /\ OnlyWorkers

\* IntegrityError: the order that was in the way is taken; if there is none
\* the error is raised.
RecoverConflict(w) ==
    /\ At(w, "conflict")
    /\ IF OrdersOf(call[w].conv) = {}
       THEN Raise(w)
       ELSE \E o \in OrdersOf(call[w].conv) : Adopt(w, o.id, "already_has_draft")
    /\ OnlyWorkers

\* mark_draft_created raises when the session is linked to another order.
Mark(w) ==
    /\ At(w, "mark")
    /\ IF session[call[w].conv].order \in {None, call[w].order}
       THEN /\ MarkDraftCreated(call[w].conv, call[w].order)
            /\ Goto(w, "outcome")
            /\ UNCHANGED call
       ELSE Raise(w) /\ UNCHANGED storeVars
    /\ OnlyStore

\* The end of advance(), and of the try block when no order resulted.
Conclude(w) ==
    IF call[w].order # None
    THEN Goto(w, "link") /\ UNCHANGED call
    ELSE Goto(w, "release") /\ call' = [call EXCEPT ![w].reply = "processed"]

\* _record_outcome
Outcomes(w) ==
    /\ At(w, "outcome")
    /\ RecordOutcome(call[w].conv, call[w].outcome)
    /\ Conclude(w)
    /\ OnlyStore

----------------------------------------------------------------------------
(* Failures                                                                *)

\* BOUND: no lease outlives the modelled clock once its holder is gone.
MayAbandon(w) == \A c \in Customer : leaseEnd[w][c] <= MaxTime

\* Seeded fault: a failing defer_message is answered 202.
FailUnclaimedQuietly(w) ==
    /\ pc[w] \in {"acquire", "defer"}
    /\ ReturnUnclaimed(w, "deferred")
    /\ UNCHANGED <<claimVars, storeVars, ledgerVars, deferred>>

\* The next statement fails and changes nothing.  Before the claim is held,
\* the request or the replay of the row fails; a failing defer_message is
\* answered 503, a failing acquire 500.
FailUnclaimed(w) ==
    /\ pc[w] \in {"acquire", "defer"}
    /\ ReturnUnclaimed(w, "error")
    /\ UNCHANGED <<claimVars, storeVars, ledgerVars, deferred>>

\* Inside the try block the exception passes through the finally clause; a
\* failing record_advancement_attempt is only logged.
FailClaimed(w) ==
    /\ pc[w] \in Holding \ {"release"}
    /\ IF pc[w] = "outcome" THEN Conclude(w) ELSE Raise(w)
    /\ OnlyWorkers

\* A failing release leaves the row behind and skips the drain.
FailRelease(w) ==
    /\ pc[w] = "release"
    /\ MayAbandon(w)
    /\ Abandon(w)
    /\ ReturnUnclaimed(w, "error")
    /\ UNCHANGED <<storeVars, ledgerVars, deferred>>

\* The drain stops; around an automatic one the exception is only logged.
FailDrain(w) ==
    /\ \/ pc[w] \in {"drainlist", "retire"}
       \/ pc[w] = "drainnext" /\ call[w].todo # {}
    /\ call' = [call EXCEPT ![w].todo = {}]
    /\ Goto(w, "drainnext")
    /\ OnlyWorkers

Failing == /\ spent.failures < MaxFailures
           /\ spent' = [spent EXCEPT !.failures = @ + 1]

Fault(w) ==
    /\ Failing
    /\ \/ FailUnclaimed(w)
       \/ FailClaimed(w)
       \/ FailRelease(w)
       \/ FailDrain(w)

\* The process dies.  Twilio sees no answer.
Crash(w) ==
    /\ pc[w] # "idle"
    /\ Failing
    /\ MayAbandon(w)
    /\ Abandon(w)
    /\ pc' = [pc EXCEPT ![w] = "idle"]
    /\ call' = [call EXCEPT ![w] = NoCall]
    /\ UNCHANGED <<storeVars, ledgerVars, deferred, acked>>

\* Unless SlowWrites, only the parser call may outlast a lease: 60 seconds
\* are enough for the statements on either side of it.
InTime(w) == pc[w] \in {"idle", "parse"}
                \/ \A c \in Customer : leaseEnd[w][c] = 0 \/ leaseEnd[w][c] > now + 1

Clock ==
    /\ SlowWrites \/ \A w \in Holder : InTime(w)
    /\ Tick
    /\ OnlyClaim
    /\ UNCHANGED <<workerVars, spent>>

----------------------------------------------------------------------------
Step(w) ==
    \/ Acquire(w) \/ Defer(w) \/ Record(w) \/ Link(w) \/ ReleaseClaim(w)
    \/ DrainList(w) \/ DrainNext(w) \/ Retire(w)
    \/ Route(w) \/ Expire(w) \/ GetOpen(w) \/ Create(w) \/ Reread(w)
    \/ AppendTurnIfNew(w) \/ RecoverOrphan(w) \/ ListTurns(w) \/ Parse(w)
    \/ RenewClaim(w) \/ MergeDraft(w) \/ SaveDraft(w) \/ LookupOrder(w)
    \/ CreateDraft(w) \/ RecoverConflict(w) \/ Mark(w) \/ Outcomes(w)

Next ==
    \/ \E w \in Holder : Step(w) \/ StartSweep(w) \/ Fault(w) \/ Crash(w)
    \/ \E w \in Holder, m \in Message : Deliver(w, m)
    \/ Clock

Spec == PipelineInit /\ [][Next]_vars

\* Threads are scheduled, parser calls return and time passes.  The two
\* differ in whether anybody runs the manual drain again and again.
Fair == WF_vars(Clock) /\ \A w \in Holder : WF_vars(Step(w))
FairSpec == Spec /\ Fair
SweptSpec == FairSpec /\ WF_vars(\E w \in Holder : StartSweep(w))

----------------------------------------------------------------------------
\* A row leaves the queue only after its message was claimed for processing
\* in processed_messages, whoever replayed it and however often
\* (_replay_deferred_records retires on PROCESSED and DUPLICATE alone).
RetiredWasRecorded ==
    \A m \in Message : deferred[m].status = "done" => m \in recorded

\* While only the parser call may outlast a lease, two workers are never
\* both between the routing and the end of advance() for one customer, the
\* parser call and the renewal after it excepted (try_acquire before, renew
\* after the parser call).
Writing == AdvanceStages \ {"parse", "renew", "outcome"}
OneWriterPerCustomer ==
    \A v, w \in Holder :
        pc[v] \in Writing /\ pc[w] \in Writing /\ Who(v) = Who(w) => v = w

\* An order is created from everything the customer had said in that
\* conversation at that moment: a worker that lost its customer while the
\* parser ran creates none (renew_customer_claim before the write phase).
OrderCoversTranscript ==
    [][\A o \in orders' \ orders : o.covers = Transcript(o.conv)]_vars

\* An expired conversation gets no turn, no order and no link any more, and
\* a conversation with a draft is never expired (_route_session decides under
\* the claim and nobody moves the session meanwhile).
ClosedIsFinal ==
    [][\A s \in Conv :
          /\ session[s].status \in {"expired", "draft_created"} =>
                /\ session'[s].status = session[s].status
                /\ session'[s].order = session[s].order
          /\ session[s].status = "expired" =>
                turns'[s] = turns[s] /\ OrdersOf(s)' = OrdersOf(s)]_vars

\* A session is linked to the order of its own conversation, and a processed
\* message to the order of the conversation that holds its turn
\* (_recover_orphan_draft, mark_draft_created, mark_order_created).
OrdersBelong ==
    /\ \A s \in Conv : session[s].order # None =>
          \E o \in OrdersOf(s) : o.id = session[s].order
    /\ \A m \in Message : resulting[m] # None =>
          \E o \in orders : o.id = resulting[m] /\ m \in Transcript(o.conv)

\* What Twilio is told is taken care of is either in processed_messages or
\* waits in the queue, whatever failed in between (the 200, 202 and 503
\* answers of twilio_whatsapp_webhook).
AckedIsAccounted == acked \subseteq recorded \cup Pending

\* As long as nothing failed, every message with text that was answered 200
\* or 202 is a turn of a conversation or waits in the queue.
AckedIsKept ==
    spent.failures = 0 =>
        \A m \in acked \ BlankMessage : HasTurn(m) \/ m \in Pending

\* A customer has at most one conversation that a message can be routed to
\* (_route_session prefers draft_created and opens a session only when it
\* finds none).
OneRoutableSession ==
    \A c \in Customer : \A s, t \in Routable(c) : s = t

\* A call that ends well, and whose claim nobody took over, leaves no order
\* behind that its session does not know: what a crash between the order and
\* its link left in an open conversation is linked by the next message that
\* gets through, and no order of it is made beside that one
\* (_recover_orphan_draft, the revalidation before create_draft,
\* mark_draft_created).
OrphanIsAdopted ==
    \A w \in Holder :
        /\ pc[w] = "release" /\ call[w].reply = "processed"
        /\ call[w].conv # None /\ claim[Who(w)].holder = w
        => \A o \in OrdersOf(call[w].conv) : session[call[w].conv].order = o.id

\* The workers' use of the claim table is a use of the lease protocol, and
\* their use of the conversation tables one of the store's.
UsesClaims == ClaimSpec
UsesStore == ConversationSpec

\* Every queued message is retired, if somebody keeps running the drain.
QueueDrains == \A m \in Message : m \in Pending ~> deferred[m].status = "done"

\* Every request and drain comes to its end: nobody waits for a claim.
CallsEnd == \A w \in Holder : pc[w] # "idle" ~> pc[w] = "idle"

----------------------------------------------------------------------------
(* What the documents say and the code does not keep.                      *)

\* "no message for a customer with any pending deferred_inbound row can be
\* processed live ahead of that row" (docs/M9_6D_..., the ordering argument).
NoOvertaking ==
    [][\A w \in Holder, m \in Message :
          pc[w] = "record" /\ ~call[w].nested /\ m \in recorded' \ recorded =>
              PendingOf(CustomerOf[m]) \subseteq {m}]_vars

\* "The MessageSid is never lost" and "a failed/incomplete attempt is always
\* safely retried" (docs/M9_6D_...): the text of a row that left the queue is
\* in a conversation (_replay_deferred_records retires duplicates).
RetiredIsKept ==
    \A m \in Message \ BlankMessage :
        deferred[m].status = "done" => HasTurn(m)

\* "A draft must never be created without its producing session reflecting
\* that draft" (docs/M9_4E_..., required invariant); a crash between the two
\* writes is accepted because then "the conversation remains open"
\* (DECISIONS.md:394), where the next message finds the order.
OrphanIsReachable ==
    \A o \in orders :
        session[o.conv].order # o.id => session[o.conv].status = "open"
============================================================================
