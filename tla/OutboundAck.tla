---------------------------- MODULE OutboundAck ----------------------------
(***************************************************************************)
(* The acknowledgement an operator sends for a confirmed order:            *)
(* pages/2_Orders_Today.py, services/outbound_acknowledgement.py,           *)
(* storage/outbound_messages.py and integrations/twilio_outbound.py, beside *)
(* the requests of OrderLifecycle that move the same orders.                *)
(*                                                                         *)
(* Each action is a run of the page up to its next transaction, one         *)
(* transaction, or the Twilio call.  There is one acknowledgement type, so  *)
(* a row of outbound_messages is found by its order.                        *)
(***************************************************************************)
EXTENDS OrderLifecycle

CONSTANTS WithPhone,     \* orders with a customer phone
          MaxAttempts    \* MAX_OUTBOUND_ACKNOWLEDGEMENT_ATTEMPTS

ASSUME AckAssumption ==
    /\ WithPhone \subseteq Order
    /\ MaxAttempts \in Nat \ {0}

VARIABLES ack,       \* outbound_messages, by order
          asked,     \* retries whose confirmation prompt is open: <<desk, order>>
          ackPc,     \* where each desk's page is
          task,      \* ... and what its request holds
          provider   \* Twilio: calls made and messages accepted, by order

ackVars == <<ack, asked, ackPc, task, provider>>
vars == <<lifecycleVars, ackVars>>

NoRow == [status |-> "none", attempts |-> 0]
NoTask == [order |-> NoOrder, retry |-> FALSE, result |-> "none"]

Row == [status : {"none", "sending", "sent", "failed", "unknown"}, attempts : Nat]
Task == [order : Order \cup {NoOrder}, retry : BOOLEAN,
         result : {"none", "sent", "failed", "unknown"}]
Count == [calls : Nat, accepted : Nat]

\* A page holds the claim of its order from the insert or update that got it
\* to the mark.
Claimed == {"send", "mark"}
Stage == {"idle", "row", "order", "claim", "lookup", "reclaim"} \cup Claimed

Busy(d) ==
    /\ ackPc[d] # "idle" => task[d].order \in Order
    /\ ackPc[d] = "mark" => task[d].result # "none"

AckTypeOK ==
    /\ ack \in [Order -> Row]
    /\ asked \subseteq Desk \X Order
    /\ ackPc \in [Desk -> Stage]
    /\ task \in [Desk -> Task]
    /\ provider \in [Order -> Count]
    /\ \A d \in Desk : Busy(d)

AckInit ==
    /\ LifecycleInit
    /\ ack = [o \in Order |-> NoRow]
    /\ asked = {}
    /\ ackPc = [d \in Desk |-> "idle"]
    /\ task = [d \in Desk |-> NoTask]
    /\ provider = [o \in Order |-> [calls |-> 0, accepted |-> 0]]

----------------------------------------------------------------------------
At(d, stage) == ackPc[d] = stage
GoOn(d, stage) == ackPc' = [ackPc EXCEPT ![d] = stage]
Done(d) == GoOn(d, "idle") /\ task' = [task EXCEPT ![d] = NoTask]

\* May the row be sent again?
Retryable(row) == row.status = "failed" /\ row.attempts < MaxAttempts

----------------------------------------------------------------------------
(* The page                                                                *)

\* The list of orders: the action is offered for a confirmed order with a
\* phone, and the page goes on to the order's row.
ShowOrder(d, o) ==
    /\ At(d, "idle")
    /\ status[o] = "confirmed"
    /\ o \in WithPhone
    /\ GoOn(d, "row")
    /\ task' = [task EXCEPT ![d].order = o]
    /\ UNCHANGED <<ack, asked, provider>>

\* The row as the page reads it decides what the operator may press: Send
\* when there is no row; Retry when it failed and attempts are left, and then
\* Confirm in a later run of the page.  The prompt is closed again when there
\* is nothing to retry.
ShowAcknowledgement(d) ==
    LET row == ack[task[d].order]
        me == <<d, task[d].order>> IN
    /\ At(d, "row")
    /\ \/ /\ row.status = "none"
          /\ GoOn(d, "order")
          /\ asked' = asked \ {me}
          /\ UNCHANGED task
       \/ /\ Retryable(row)
          /\ asked' = asked \cup {me}
          /\ Done(d)
       \/ /\ Retryable(row) /\ me \in asked
          /\ asked' = asked \ {me}
          /\ task' = [task EXCEPT ![d].retry = TRUE]
          /\ GoOn(d, "order")
       \/ /\ asked' = IF Retryable(row) THEN asked ELSE asked \ {me}
          /\ Done(d)
    /\ UNCHANGED <<ack, provider>>

----------------------------------------------------------------------------
(* send_order_confirmed_acknowledgement                                    *)

\* The order, read again, must be confirmed now.
CheckOrder(d) ==
    /\ At(d, "order")
    /\ IF status[task[d].order] = "confirmed"
       THEN GoOn(d, "claim") /\ UNCHANGED task
       ELSE Done(d)
    /\ UNCHANGED <<ack, asked, provider>>

\* _try_create_claim: the insert, or the IntegrityError of the unique key.
Claim(d) ==
    LET o == task[d].order IN
    /\ At(d, "claim")
    /\ \/ /\ ack[o].status = "none"
          /\ ack' = [ack EXCEPT ![o] = [status |-> "sending", attempts |-> 1]]
          /\ GoOn(d, "send")
       \/ /\ ack[o].status # "none"
          /\ GoOn(d, "lookup")
          /\ UNCHANGED ack
    /\ UNCHANGED <<asked, task, provider>>

\* The row in the way: only a failed one with an attempt left, and only for a
\* retry; anything else suppresses the send.
Lookup(d) ==
    /\ At(d, "lookup")
    /\ IF Retryable(ack[task[d].order]) /\ task[d].retry
       THEN GoOn(d, "reclaim") /\ UNCHANGED task
       ELSE Done(d)
    /\ UNCHANGED <<ack, asked, provider>>

\* Seeded faults: the update does not look at the row again; it does not
\* count the attempt.
ReclaimUnchecked(d) ==
    LET o == task[d].order IN
    /\ At(d, "reclaim")
    /\ ack' = [ack EXCEPT ![o] = [status |-> "sending", attempts |-> @.attempts + 1]]
    /\ GoOn(d, "send")
    /\ UNCHANGED <<asked, task, provider>>
ReclaimUncounted(d) ==
    LET o == task[d].order IN
    /\ At(d, "reclaim")
    /\ IF Retryable(ack[o])
       THEN /\ ack' = [ack EXCEPT ![o].status = "sending"]
            /\ GoOn(d, "send")
            /\ UNCHANGED task
       ELSE Done(d) /\ UNCHANGED ack
    /\ UNCHANGED <<asked, provider>>

\* _try_claim_failed_retry: one conditional UPDATE.
Reclaim(d) ==
    LET o == task[d].order IN
    /\ At(d, "reclaim")
    /\ IF Retryable(ack[o])
       THEN /\ ack' = [ack EXCEPT ![o] = [status |-> "sending",
                                          attempts |-> @.attempts + 1]]
            /\ GoOn(d, "send")
            /\ UNCHANGED task
       ELSE Done(d) /\ UNCHANGED ack
    /\ UNCHANGED <<asked, provider>>

\* Seeded faults: the answer is dropped; a timeout counts as a rejection.
SendUnheard(d) ==
    LET o == task[d].order IN
    /\ At(d, "send")
    /\ \E accepted \in {0, 1} :
          provider' = [provider EXCEPT ![o].calls = @ + 1, ![o].accepted = @ + accepted]
    /\ GoOn(d, "mark")
    /\ UNCHANGED <<ack, asked, task>>
SendHastily(d) ==
    LET o == task[d].order IN
    /\ At(d, "send")
    /\ \E accepted \in {0, 1}, result \in {"sent", "failed", "unknown"} :
          /\ result = "sent" => accepted = 1
          /\ task' = [task EXCEPT ![d].result = result]
          /\ provider' = [provider EXCEPT ![o].calls = @ + 1,
                                          ![o].accepted = @ + accepted]
    /\ GoOn(d, "mark")
    /\ UNCHANGED <<ack, asked>>

\* messages.create: accepted with a message id, refused with a 4xx, or not
\* known - a timeout, a 5xx, no id - and then accepted or not.
Send(d) ==
    LET o == task[d].order IN
    /\ At(d, "send")
    /\ \E accepted \in {0, 1}, result \in {"sent", "failed", "unknown"} :
          /\ result = "sent" => accepted = 1
          /\ result = "failed" => accepted = 0
          /\ task' = [task EXCEPT ![d].result = result]
          /\ provider' = [provider EXCEPT ![o].calls = @ + 1,
                                          ![o].accepted = @ + accepted]
    /\ GoOn(d, "mark")
    /\ UNCHANGED <<ack, asked>>

\* mark_sent, mark_failed, mark_unknown: _require_sending raises otherwise.
Mark(d) ==
    LET o == task[d].order IN
    /\ At(d, "mark")
    /\ ack' = [ack EXCEPT ![o].status = IF @ = "sending" THEN task[d].result ELSE @]
    /\ Done(d)
    /\ UNCHANGED <<asked, provider>>

\* A statement fails or the page's process dies; with the process goes the
\* session and its open prompts.
AckFail(d) ==
    /\ ~At(d, "idle")
    /\ asked' \in {asked, asked \ ({d} \X Order)}
    /\ Done(d)
    /\ UNCHANGED <<ack, provider>>

----------------------------------------------------------------------------
AckStep(d) ==
    \/ \E o \in Order : ShowOrder(d, o)
    \/ ShowAcknowledgement(d)
    \/ CheckOrder(d)
    \/ Claim(d)
    \/ Lookup(d)
    \/ Reclaim(d)
    \/ Send(d)
    \/ Mark(d)
    \/ AckFail(d)

\* A desk does one thing at a time.
Next ==
    \/ \E o \in Order : Place(o) /\ UNCHANGED ackVars
    \/ \E d \in Desk : At(d, "idle") /\ DeskStep(d) /\ UNCHANGED ackVars
    \/ \E d \in Desk : pc[d] = "idle" /\ AckStep(d) /\ UNCHANGED lifecycleVars

Spec == AckInit /\ [][Next]_vars

----------------------------------------------------------------------------
\* Twilio accepts at most one acknowledgement per order, "sent" and "failed"
\* are true whoever reads them, and nothing is sent again after "sent" or
\* "unknown" - with stale pages, crashes and answers that got lost
\* (claim_order_acknowledgement_for_send, _require_sending, send_message).
Promise == INSTANCE AtMostOnce
    WITH verdict <- [o \in Order |-> ack[o].status],
         arrived <- [o \in Order |-> provider[o].accepted]
ImplementsAtMostOnce == Promise!Spec

\* Twilio is called at most MAX_OUTBOUND_ACKNOWLEDGEMENT_ATTEMPTS times for an
\* order, by however many operators (attempt_count in the conditional UPDATE).
CallsAreLimited == \A o \in Order : provider[o].calls <= MaxAttempts

\* At most one request is between its claim and its mark for an order, and its
\* row is then "sending": _require_sending never meets another status.
SoleSender ==
    \A d, e \in Desk :
        ackPc[d] \in Claimed =>
            /\ ack[task[d].order].status = "sending"
            /\ ackPc[e] \in Claimed /\ task[e].order = task[d].order => d = e

\* Only orders that were sold from stock are acknowledged, though the order
\* may move on or be put back between the check and the call (the service
\* starts from a confirmed order alone).
OnlySoldIsAcknowledged ==
    \A o \in Order : ack[o].status # "none" => Movements(o) \subseteq sold
============================================================================
