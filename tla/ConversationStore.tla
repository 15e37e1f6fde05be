------------------------- MODULE ConversationStore -------------------------
(***************************************************************************)
(* The conversation tables and the order rows conversations produce:       *)
(* storage/conversation_state.py, storage/conversation_orders.py and the    *)
(* order insert of storage/order_lifecycle.py, with the unique indexes of   *)
(* storage/postgres_models.py.  Every store method runs in a transaction    *)
(* of its own, so each is one action; the methods only read are state       *)
(* functions.  ConversationSpec lets any caller call anything at any time:  *)
(* its properties are what the tables keep without help from the callers.   *)
(*                                                                         *)
(* The row version counters, never compared by any code, and the audit      *)
(* timestamps are left out; a turn is the message it stores.                *)
(***************************************************************************)
EXTENDS Tenancy, Sequences

CONSTANTS Message,   \* Twilio MessageSids
          Conv,      \* conversation ids
          OrderId    \* order ids

VARIABLES session,   \* conversation_sessions, by conversation id
          turns,     \* conversation_turns in sequence_number order
          covered,   \* messages the saved accumulated draft was merged from
          orders     \* order rows that carry a conversation_id

storeVars == <<session, turns, covered, orders>>

Outcome == {"turn_appended_incomplete", "parse_incomplete", "draft_created",
            "already_has_draft"}

NoSession == [customer |-> None, status |-> "absent", last |-> 0,
              order |-> None, outcome |-> None]

Session == [customer : Customer, status : {"open", "draft_created", "expired"},
            last : Time, order : OrderId \cup {None},
            outcome : Outcome \cup {None}]

Order == [id : OrderId, conv : Conv, covers : SUBSET Message]

StoreTypeOK ==
    /\ session \in [Conv -> Session \cup {NoSession}]
    /\ turns \in [Conv -> Seq(Message)]
    /\ covered \in [Conv -> SUBSET Message]
    /\ orders \subseteq Order

StoreInit ==
    /\ session = [s \in Conv |-> NoSession]
    /\ turns = [s \in Conv |-> <<>>]
    /\ covered = [s \in Conv |-> {}]
    /\ orders = {}

----------------------------------------------------------------------------
(* Reads                                                                   *)

Exists(s) == session[s].status # "absent"

OpenSessions(c) ==
    {s \in Conv : session[s].customer = c /\ session[s].status = "open"}

Routable(c) ==
    {s \in Conv : /\ session[s].customer = c
                  /\ session[s].status \in {"open", "draft_created"}}

\* get_latest_session_for_customer: draft_created before open, then the most
\* recent last_message_at.  The remaining ORDER BY columns are generated
\* values and break ties arbitrarily.
Rank(s) == IF session[s].status = "draft_created" THEN 1 ELSE 0

LatestSessions(c) ==
    {s \in Routable(c) :
        \A t \in Routable(c) :
            \/ Rank(s) > Rank(t)
            \/ Rank(s) = Rank(t) /\ session[s].last >= session[t].last}

Transcript(s) == {turns[s][i] : i \in DOMAIN turns[s]}

HasTurn(m) == \E s \in Conv : m \in Transcript(s)

\* get_order_by_conversation_id
OrdersOf(s) == {o \in orders : o.conv = s}

OrderIds == {o.id : o \in orders}

----------------------------------------------------------------------------
(* Writes                                                                  *)

\* Seeded fault: no unique index on open sessions.
CreateOpenSessionAnyway(s, c, t) ==
    /\ ~Exists(s)
    /\ session' = [session EXCEPT ![s] = [customer |-> c, status |-> "open",
                                          last |-> t, order |-> None,
                                          outcome |-> None]]
    /\ UNCHANGED <<turns, covered, orders>>

\* _try_create_open_session; the partial unique index on open sessions makes
\* the insert fail when the customer has one.
CreateOpenSession(s, c, t) ==
    /\ ~Exists(s)
    /\ OpenSessions(c) = {}
    /\ session' = [session EXCEPT ![s] = [customer |-> c, status |-> "open",
                                          last |-> t, order |-> None,
                                          outcome |-> None]]
    /\ UNCHANGED <<turns, covered, orders>>

\* append_turn_if_new returning appended=True; a second turn with the same
\* message_sid, in whatever conversation, violates the unique constraint and
\* is answered appended=False.  The status of the session is not looked at,
\* and last_message_at takes the message's time even if that is earlier.
AppendTurn(s, m, t) ==
    /\ Exists(s)
    /\ ~HasTurn(m)
    /\ turns' = [turns EXCEPT ![s] = Append(@, m)]
    /\ session' = [session EXCEPT ![s].last = t]
    /\ UNCHANGED <<covered, orders>>

\* expire_session: whatever the status was.
ExpireSession(s) ==
    /\ Exists(s)
    /\ session' = [session EXCEPT ![s].status = "expired"]
    /\ UNCHANGED <<turns, covered, orders>>

SaveAccumulatedDraft(s, M) ==
    /\ Exists(s)
    /\ covered' = [covered EXCEPT ![s] = M]
    /\ UNCHANGED <<session, turns, orders>>

\* The order insert of create_draft, under the unique index on
\* orders.conversation_id.
InsertOrder(o, s, M) ==
    /\ o \notin OrderIds
    /\ OrdersOf(s) = {}
    /\ orders' = orders \cup {[id |-> o, conv |-> s, covers |-> M]}
    /\ UNCHANGED <<session, turns, covered>>

\* mark_draft_created: whatever the status was.  Re-marking with the linked
\* order changes nothing, with another order it raises ValueError.
MarkDraftCreated(s, o) ==
    /\ Exists(s)
    /\ session[s].order \in {None, o}
    /\ session' = IF session[s].order = None
                  THEN [session EXCEPT ![s].status = "draft_created",
                                       ![s].order = o]
                  ELSE session
    /\ UNCHANGED <<turns, covered, orders>>

\* Seeded fault: a missing session is not noticed.
RecordOutcomeUnchecked(s, out) ==
    /\ session' = [session EXCEPT ![s].outcome = out]
    /\ UNCHANGED <<turns, covered, orders>>

\* record_advancement_attempt
RecordOutcome(s, out) ==
    /\ Exists(s)
    /\ session' = [session EXCEPT ![s].outcome = out]
    /\ UNCHANGED <<turns, covered, orders>>

StoreNext ==
    \/ \E s \in Conv, c \in Customer, t \in Time : CreateOpenSession(s, c, t)
    \/ \E s \in Conv, m \in Message, t \in Time : AppendTurn(s, m, t)
    \/ \E s \in Conv : ExpireSession(s)
    \/ \E s \in Conv, M \in SUBSET Message : SaveAccumulatedDraft(s, M)
    \/ \E o \in OrderId, s \in Conv, M \in SUBSET Message : InsertOrder(o, s, M)
    \/ \E s \in Conv, o \in OrderIds : MarkDraftCreated(s, o)
    \/ \E s \in Conv, out \in Outcome : RecordOutcome(s, out)

ConversationSpec == StoreInit /\ [][StoreNext]_storeVars

----------------------------------------------------------------------------
\* A customer never has two open conversations, so that two workers creating
\* one at the same time end up in the same (postgres_models.py partial unique
\* index; get_or_create_open_session).
OneOpenSession ==
    \A s, t \in Conv :
        /\ session[s].status = "open" /\ session[t].status = "open"
        /\ session[s].customer = session[t].customer
        => s = t

\* A conversation produces at most one order, however often draft creation is
\* retried (postgres_models.py unique orders.conversation_id).
OneOrderPerConversation ==
    \A o, p \in orders : o.conv = p.conv => o = p

\* A session says draft_created exactly as long as it is linked to an order,
\* unless it was expired later (mark_draft_created sets both together).
StatusMatchesLink ==
    \A s \in Conv :
        /\ session[s].status = "draft_created" => session[s].order \in OrderIds
        /\ session[s].order # None =>
              session[s].status \in {"draft_created", "expired"}

\* Once a conversation is linked to an order it stays linked to that order,
\* and once it has left the state open it never becomes open again
\* (mark_draft_created's ValueError, expire_session).
LinkIsPermanent ==
    [][\A s \in Conv :
          /\ session[s].order # None => session'[s].order = session[s].order
          /\ session[s].status \in {"draft_created", "expired"} =>
                session'[s].status \in {"draft_created", "expired"}]_storeVars
============================================================================
