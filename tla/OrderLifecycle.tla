--------------------------- MODULE OrderLifecycle ---------------------------
(***************************************************************************)
(* What operators do to an order after it was drafted: services/orders.py   *)
(* over storage/order_lifecycle.py and storage/order_confirmation.py, the   *)
(* Postgres path behind the Streamlit pages.                                *)
(*                                                                         *)
(* A desk is an operator's page session; it runs one request at a time.     *)
(* A request reads the order, decides whether the move is allowed, and      *)
(* then either writes the new status in a second transaction that does not  *)
(* look at the status again, or confirms the order in one transaction that  *)
(* does.  Transactions run READ COMMITTED and the code takes no row locks   *)
(* here, so each statement that reads is a step of its own, and all that a  *)
(* transaction writes appears at its commit.                                *)
(*                                                                         *)
(* Quantities are whole units; ids and times of rows are left out.          *)
(***************************************************************************)
EXTENDS Integers, Functions

CONSTANTS Order, Product, Desk,
          NoOrder,
          Quantity,       \* units of each product an order asks for
          OpeningStock,   \* units of each product at the start
          Fulfillment     \* "delivery", "pickup", or "unset" when not known

\* create_draft refuses an order without a positive quantity.
ASSUME LifecycleAssumption ==
    /\ NoOrder \notin Order
    /\ Quantity \in [Order -> [Product -> Nat]]
    /\ \A o \in Order : \E p \in Product : Quantity[o][p] > 0
    /\ OpeningStock \in [Product -> Nat]
    /\ Fulfillment \in [Order -> {"delivery", "pickup", "unset"}]

VARIABLES status,   \* orders.status; "none" until the order exists
          stock,    \* products.current_stock
          sold,     \* sale rows of stock_movements: <<order, product>>
          log,      \* order_status_transitions: <<order, from, to>>
          pc,       \* where each desk's request is
          job       \* ... and what it holds

orderVars == <<status, stock, sold, log>>
lifecycleVars == <<orderVars, pc, job>>

Status == {"none", "draft", "approved", "confirmed", "in_preparation",
           "ready", "delivered", "picked_up", "cancelled"}

NoJob == [order |-> NoOrder, from |-> "none", to |-> "none",
          seen |-> OpeningStock]

Job == [order : Order \cup {NoOrder}, from : Status, to : Status,
        seen : [Product -> Nat]]

\* A request at work has its order, and one about to commit has seen enough
\* of every product.
Prepared(d) ==
    /\ pc[d] # "idle" => job[d].order \in Order
    /\ pc[d] = "commit" =>
          \A p \in Product : Quantity[job[d].order][p] <= job[d].seen[p]

LifecycleTypeOK ==
    /\ status \in [Order -> Status]
    /\ stock \in [Product -> Nat]
    /\ sold \subseteq Order \X Product
    /\ log \subseteq Order \X Status \X Status
    /\ pc \in [Desk -> {"idle", "write", "check", "stock", "commit"}]
    /\ job \in [Desk -> Job]
    /\ \A d \in Desk : Prepared(d)

LifecycleInit ==
    /\ status = [o \in Order |-> "none"]
    /\ stock = OpeningStock
    /\ sold = {}
    /\ log = {}
    /\ pc = [d \in Desk |-> "idle"]
    /\ job = [d \in Desk |-> NoJob]

----------------------------------------------------------------------------
\* get_allowed_next_statuses
AllowedNext(o) ==
    CASE status[o] = "draft" -> {"approved", "cancelled"}
      [] status[o] = "confirmed" -> {"in_preparation", "cancelled"}
      [] status[o] = "in_preparation" -> {"ready", "cancelled"}
      [] status[o] = "ready" /\ Fulfillment[o] = "delivery" ->
            {"delivered", "cancelled"}
      [] status[o] = "ready" /\ Fulfillment[o] = "pickup" ->
            {"picked_up", "cancelled"}
      [] status[o] = "ready" /\ Fulfillment[o] = "unset" -> {"cancelled"}
      [] OTHER -> {}

\* The products an order has items of, and the movements of its sale.
Items(o) == {p \in Product : Quantity[o][p] > 0}
Movements(o) == {o} \X Items(o)

Goto(d, stage) == pc' = [pc EXCEPT ![d] = stage]

\* The request is over, with or without an error shown to the operator.
Return(d) == Goto(d, "idle") /\ job' = [job EXCEPT ![d] = NoJob]

----------------------------------------------------------------------------
\* create_draft, by the webhook or by hand, with its first log row.
Place(o) ==
    /\ status[o] = "none"
    /\ status' = [status EXCEPT ![o] = "draft"]
    /\ log' = log \cup {<<o, "none", "draft">>}
    /\ UNCHANGED <<stock, sold, pc, job>>

\* Seeded fault: whatever the operator asks for is allowed.
AskAnything(d, o, to) ==
    /\ pc[d] = "idle"
    /\ status[o] # "none"
    /\ Goto(d, IF to = "confirmed" THEN "check" ELSE "write")
    /\ job' = [job EXCEPT ![d] = [NoJob EXCEPT !.order = o, !.to = to,
                                               !.from = status[o]]]
    /\ UNCHANGED orderVars

\* The first transaction of review_inbound_draft and transition_order_status
\* (anything in the table), of confirm_order (a draft) and of
\* confirm_approved_order: get_order and the check of its status.  A request
\* that is refused changes nothing and is left out.
Ask(d, o, to) ==
    /\ pc[d] = "idle"
    /\ \/ to \in AllowedNext(o) /\ Goto(d, "write")
       \/ /\ status[o] \in {"draft", "approved"}
          /\ to = "confirmed"
          /\ Goto(d, "check")
    /\ job' = [job EXCEPT ![d] = [NoJob EXCEPT !.order = o, !.to = to,
                                               !.from = status[o]]]
    /\ UNCHANGED orderVars

\* update_order_status_with_transition: the status and its log row, whatever
\* the status has become meanwhile.
Write(d) ==
    LET o == job[d].order IN
    /\ pc[d] = "write"
    /\ status' = [status EXCEPT ![o] = job[d].to]
    /\ log' = log \cup {<<o, job[d].from, job[d].to>>}
    /\ Return(d)
    /\ UNCHANGED <<stock, sold>>

----------------------------------------------------------------------------
(* confirm_order_atomically                                                *)

\* The order row, read again: it must still be where the request found it.
CheckStatus(d) ==
    /\ pc[d] = "check"
    /\ IF status[job[d].order] = job[d].from
       THEN Goto(d, "stock") /\ UNCHANGED job
       ELSE Return(d)
    /\ UNCHANGED orderVars

\* Seeded fault: the stock is not compared.
ReadStockUnchecked(d) ==
    LET o == job[d].order IN
    /\ pc[d] = "stock"
    /\ IF Movements(o) \cap sold = {}
       THEN Goto(d, "commit") /\ job' = [job EXCEPT ![d].seen = stock]
       ELSE Return(d)
    /\ UNCHANGED orderVars

\* The product rows and the movements.  The order goes on when it was not
\* sold yet and there is enough of everything.
ReadStock(d) ==
    LET o == job[d].order IN
    /\ pc[d] = "stock"
    /\ IF Movements(o) \cap sold = {} /\ \A p \in Items(o) : Quantity[o][p] <= stock[p]
       THEN Goto(d, "commit") /\ job' = [job EXCEPT ![d].seen = stock]
       ELSE Return(d)
    /\ UNCHANGED orderVars

\* Seeded faults: movements may be inserted twice; only the first item of an
\* order gets one.
CommitSaleAgain(d) ==
    LET o == job[d].order IN
    /\ pc[d] = "commit"
    /\ sold' = sold \cup Movements(o)
    /\ stock' = [p \in Product |-> IF p \in Items(o)
                                   THEN job[d].seen[p] - Quantity[o][p]
                                   ELSE stock[p]]
    /\ status' = [status EXCEPT ![o] = "confirmed"]
    /\ log' = log \cup {<<o, job[d].from, "confirmed">>}
    /\ Return(d)

CommitSaleFirstItem(d) ==
    LET o == job[d].order IN
    /\ pc[d] = "commit"
    /\ sold' = sold \cup {<<o, CHOOSE p \in Items(o) : TRUE>>}
    /\ stock' = [p \in Product |-> IF p \in Items(o)
                                   THEN job[d].seen[p] - Quantity[o][p]
                                   ELSE stock[p]]
    /\ status' = [status EXCEPT ![o] = "confirmed"]
    /\ log' = log \cup {<<o, job[d].from, "confirmed">>}
    /\ Return(d)

\* Movements have a primary key: a second sale of the order fails here and
\* rolls back.  The new stock is computed from what was read, and the status
\* is set whatever it has become meanwhile.
CommitSale(d) ==
    LET o == job[d].order IN
    /\ pc[d] = "commit"
    /\ \/ /\ Movements(o) \cap sold = {}
          /\ sold' = sold \cup Movements(o)
          /\ stock' = [p \in Product |-> IF p \in Items(o)
                                         THEN job[d].seen[p] - Quantity[o][p]
                                         ELSE stock[p]]
          /\ status' = [status EXCEPT ![o] = "confirmed"]
          /\ log' = log \cup {<<o, job[d].from, "confirmed">>}
       \/ /\ Movements(o) \cap sold # {}
          /\ UNCHANGED orderVars
    /\ Return(d)

\* A statement fails or the page's process dies: the open transaction is
\* rolled back and the request is over.
Fail(d) ==
    /\ pc[d] # "idle"
    /\ Return(d)
    /\ UNCHANGED orderVars

----------------------------------------------------------------------------
DeskStep(d) ==
    \/ \E o \in Order, to \in Status : Ask(d, o, to)
    \/ Write(d)
    \/ CheckStatus(d)
    \/ ReadStock(d)
    \/ CommitSale(d)
    \/ Fail(d)

LifecycleNext ==
    \/ \E o \in Order : Place(o)
    \/ \E d \in Desk : DeskStep(d)

LifecycleSpec == LifecycleInit /\ [][LifecycleNext]_lifecycleVars

----------------------------------------------------------------------------
AfterSale == {"confirmed", "in_preparation", "ready", "delivered", "picked_up"}

WasSold(o) ==
    /\ Movements(o) \subseteq sold
    /\ \E from \in {"draft", "approved"} : <<o, from, "confirmed">> \in log

\* Whatever stale requests write, an order the kitchen works on or has handed
\* over was sold: all its stock movements and the log row of a confirmation
\* are there (confirm_order_atomically commits them with the status, and only
\* requests that found a confirmed order move on from there).
PreparedIsSold == \A o \in Order : status[o] \in AfterSale => WasSold(o)

\* An order becomes confirmed at most once in its life, also when a stale
\* request has put it back to approved (the primary key of its movements).
ConfirmedOnce ==
    [][\A o \in Order :
          status[o] # "confirmed" /\ status'[o] = "confirmed" =>
              \A from \in Status : <<o, from, "confirmed">> \notin log]_lifecycleVars

\* The units of product p on sale movements.
SoldUnits(p) ==
    SumFunctionOnSet([o \in Order |-> Quantity[o][p]], {o \in Order : <<o, p>> \in sold})

\* No unit is deducted that no movement accounts for: a failed, refused or
\* repeated confirmation costs no stock (one transaction for movements and
\* stock).
StockCoversSales ==
    \A p \in Product : stock[p] >= OpeningStock[p] - SoldUnits(p)

----------------------------------------------------------------------------
(* What the documents say and the code does not keep.                      *)

\* "Strict at confirm time: raise InsufficientStockError if any item exceeds
\* current stock" (DECISIONS.md): no more units are sold than there were.
NothingOversold == \A p \in Product : SoldUnits(p) <= OpeningStock[p]
============================================================================
