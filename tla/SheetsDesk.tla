------------------------------ MODULE SheetsDesk ------------------------------
(***************************************************************************)
(* Orders on the Google Sheets backend: pages/1_New_Order.py and             *)
(* pages/2_Orders_Today.py over services/orders.py, which confirms an order   *)
(* there without transactions: a sale movement and a stock write for each     *)
(* product, and the status last.                                             *)
(*                                                                         *)
(* A session runs one page script at a time.  The script reads tabs, finds    *)
(* out which button was pressed, and does what it says with what it has read. *)
(* Sessions interleave at every write, and between the read of the products   *)
(* at the top of the page and what follows.  The other tabs are read in one    *)
(* step with the decision they are read for: what could be written in between  *)
(* and matters, the items and movements of the page's own draft, is written   *)
(* by this session only.                                                     *)
(***************************************************************************)
EXTENDS SheetsStore, SequencesExt

CONSTANTS NoOrder, NoProduct, Fulfillment,
          Moves           \* bound: the statuses the runs move orders to

ASSUME DeskAssumption ==
    /\ NoOrder \notin Order
    /\ NoProduct \notin Product
    /\ Fulfillment \in [Order -> {"delivery", "pickup", "unset"}]

VARIABLES mine,      \* draft_order_id of a session's page, if any
          pc,        \* where the script of a session is
          seen,      \* the products it has read
          job,       \* its order, the units asked for, the status to write
          todo,      \* products the confirmation has yet to sell
          selling    \* the one of these that is booked but not deducted, if any

deskVars == <<mine, pc, seen, job, todo, selling>>
vars == <<sheetsVars, deskVars>>

Requests == [order : Order \cup {NoOrder}, units : [Product -> Nat], to : OrderStatus]

NoJob == [order |-> NoOrder, units |-> [p \in Product |-> 0], to |-> "draft"]

Stage == {"idle", "form", "order_row", "sell", "deduct", "status"}

\* What the variables of a script hold at its stages.
Ready(s) ==
    /\ pc[s] \in {"form", "sell", "deduct"} => seen[s] # NotLoaded
    /\ pc[s] \in {"order_row", "sell", "deduct", "status"} => job[s].order \in Order
    /\ pc[s] \in {"sell", "deduct"} =>
          \A p \in todo[s] : job[s].units[p] <= seen[s][p]
    /\ pc[s] = "deduct" => selling[s] \in todo[s]

DeskTypeOK ==
    /\ SheetsTypeOK
    /\ mine \in [Session -> Order \cup {NoOrder}]
    /\ pc \in [Session -> Stage]
    /\ seen \in [Session -> ProductRows \cup {NotLoaded}]
    /\ job \in [Session -> Requests]
    /\ todo \in [Session -> SUBSET Product]
    /\ selling \in [Session -> Product \cup {NoProduct}]
    /\ \A s \in Session : Ready(s)

DeskInit ==
    /\ SheetsInit
    /\ mine = [s \in Session |-> NoOrder]
    /\ pc = [s \in Session |-> "idle"]
    /\ seen = [s \in Session |-> NotLoaded]
    /\ job = [s \in Session |-> NoJob]
    /\ todo = [s \in Session |-> {}]
    /\ selling = [s \in Session |-> NoProduct]

Goto(s, stage) == pc' = [pc EXCEPT ![s] = stage]

\* The script ends, with the page drawn or with an exception.
End(s) ==
    /\ Goto(s, "idle")
    /\ seen' = [seen EXCEPT ![s] = NotLoaded]
    /\ job' = [job EXCEPT ![s] = NoJob]
    /\ todo' = [todo EXCEPT ![s] = {}]
    /\ selling' = [selling EXCEPT ![s] = NoProduct]

\* get_allowed_next_statuses
AllowedNext(o, status) ==
    CASE status = "draft" -> {"approved", "cancelled"}
      [] status = "confirmed" -> {"in_preparation", "cancelled"}
      [] status = "in_preparation" -> {"ready", "cancelled"}
      [] status = "ready" /\ Fulfillment[o] = "delivery" -> {"delivered", "cancelled"}
      [] status = "ready" /\ Fulfillment[o] = "pickup" -> {"picked_up", "cancelled"}
      [] status = "ready" /\ Fulfillment[o] = "unset" -> {"cancelled"}
      [] OTHER -> {}

----------------------------------------------------------------------------
(* The two pages, down to the button that was pressed *)

\* New order: the script starts with the products.
OpenForm(s) ==
    /\ pc[s] = "idle"
    /\ \E expired \in SUBSET Outdated(s, {"products"}) :
          /\ Remember(s, View(s, expired), {"products"})
          /\ seen' = [seen EXCEPT ![s] = View(s, expired)["products"]]
    /\ Goto(s, "form")
    /\ UNCHANGED <<tabs, faults, mine, job, todo, selling>>

\* The rest of either page, where no button was pressed or it changes nothing:
\* list_orders, or get_order of the page's draft.  A draft that is not found is
\* forgotten.
ShowOrders(s) ==
    /\ pc[s] \in {"idle", "form"}
    /\ \E expired \in SUBSET Outdated(s, {"orders"}) :
          /\ Remember(s, View(s, expired), {"orders"})
          /\ mine' = IF pc[s] = "form" /\ mine[s] # NoOrder /\ ~Exists(View(s, expired), mine[s])
                       THEN [mine EXCEPT ![s] = NoOrder] ELSE mine
    /\ End(s)
    /\ UNCHANGED <<tabs, faults>>

----------------------------------------------------------------------------
(* create_draft *)

\* The rows of an order with a new id: the items ...
CreateDraft(s, o) ==
    /\ pc[s] = "form"
    /\ order_items[o] = 0 /\ orders[o] = <<>>
    /\ \A other \in Session : job[other].order # o
    /\ \E n \in Copies, ok \in BOOLEAN :
          /\ Call(n, ok)
          /\ AppendItems(s, o, n)
          /\ IF ok
               THEN /\ Goto(s, "order_row")
                    /\ job' = [job EXCEPT ![s].order = o]
                    /\ UNCHANGED <<seen, todo, selling>>
               ELSE End(s)
    /\ UNCHANGED <<mine>>

\* ... and the order itself, which then is the draft of the page.
CreateOrderRow(s) ==
    /\ pc[s] = "order_row"
    /\ \E n \in Copies, ok \in BOOLEAN :
          /\ Call(n, ok)
          /\ AppendOrder(job[s].order, n)
          /\ mine' = IF ok THEN [mine EXCEPT ![s] = job[s].order] ELSE mine
    /\ End(s)

----------------------------------------------------------------------------
(* confirm_order without an atomic store *)

\* The products whose sale is not among the movements, exactly as it would be
\* written now; an earlier attempt may have booked the others.
ToSell(view, o) ==
    LET units == Requested(view, o)
    IN {p \in Product : units[p] > 0 /\ ~Booked(view, o, p, units[p])}

\* Seeded fault: stock is not checked.
ConfirmUnchecked(s) ==
    /\ pc[s] = "form" /\ mine[s] # NoOrder
    /\ \E expired \in SUBSET Outdated(s, {"orders", "stock_movements"}) :
          LET view == View(s, expired)
              o == mine[s]
              left == ToSell(view, o)
          IN /\ Exists(view, o) /\ StatusOf(view, o) = "draft"
             /\ Remember(s, view, {"orders", "stock_movements"})
             /\ Goto(s, IF left = {} THEN "status" ELSE "sell")
             /\ job' = [job EXCEPT ![s] = [order |-> o, units |-> Requested(view, o),
                                          to |-> "confirmed"]]
             /\ todo' = [todo EXCEPT ![s] = left]
             /\ UNCHANGED <<seen, selling>>
    /\ UNCHANGED <<tabs, faults, mine>>

\* "Confirmar orden": the draft of the page is a draft, and the stock read at
\* the top of the page suffices for what is still to be sold.
Confirm(s) ==
    /\ pc[s] = "form" /\ mine[s] # NoOrder
    /\ \E expired \in SUBSET Outdated(s, {"orders", "stock_movements"}) :
          LET view == View(s, expired)
              o == mine[s]
              units == Requested(view, o)
              left == ToSell(view, o)
          IN /\ Exists(view, o) /\ StatusOf(view, o) = "draft"
             /\ Remember(s, view, {"orders", "stock_movements"})
             /\ IF \E p \in left : seen[s][p] < units[p]
                  THEN End(s)
                  ELSE /\ Goto(s, IF left = {} THEN "status" ELSE "sell")
                       /\ job' = [job EXCEPT ![s] = [order |-> o, units |-> units,
                                                    to |-> "confirmed"]]
                       /\ todo' = [todo EXCEPT ![s] = left]
                       /\ UNCHANGED <<seen, selling>>
    /\ UNCHANGED <<tabs, faults, mine>>

\* Seeded fault: an exception of the append is swallowed.
SellRegardless(s, p) ==
    /\ pc[s] = "sell" /\ p \in todo[s]
    /\ \E n \in Copies, ok \in BOOLEAN :
          Call(n, ok) /\ AppendMovement(s, job[s].order, p, job[s].units[p], n)
    /\ Goto(s, "deduct")
    /\ selling' = [selling EXCEPT ![s] = p]
    /\ UNCHANGED <<seen, job, todo, mine>>

\* Seeded fault: stock is written before the movement.
DeductFirst(s, p) ==
    /\ pc[s] = "sell" /\ p \in todo[s]
    /\ \E n \in Copies, ok \in BOOLEAN :
          /\ Call(n, ok)
          /\ UpsertProduct(s, p, seen[s][p] - job[s].units[p], n)
          /\ IF ok
               THEN /\ Goto(s, "deduct")
                    /\ selling' = [selling EXCEPT ![s] = p]
                    /\ UNCHANGED <<seen, job, todo>>
               ELSE End(s)
    /\ UNCHANGED <<mine>>

\* append_stock_movement, which refuses an id that is in the tab.
Sell(s, p) ==
    /\ pc[s] = "sell" /\ p \in todo[s]
    /\ LET o == job[s].order
       IN IF stock_movements[o][p] # <<>>
            THEN End(s) /\ UNCHANGED sheetsVars
            ELSE \E n \in Copies, ok \in BOOLEAN :
                    /\ Call(n, ok)
                    /\ AppendMovement(s, o, p, job[s].units[p], n)
                    /\ IF ok
                         THEN /\ Goto(s, "deduct")
                              /\ selling' = [selling EXCEPT ![s] = p]
                              /\ UNCHANGED <<seen, job, todo>>
                         ELSE End(s)
    /\ UNCHANGED <<mine>>

\* upsert_product with the stock the script read, less what was sold.
Deduct(s) ==
    /\ pc[s] = "deduct"
    /\ LET p == selling[s]
           left == todo[s] \ {p}
       IN \E n \in Copies, ok \in BOOLEAN :
             /\ Call(n, ok)
             /\ UpsertProduct(s, p, seen[s][p] - job[s].units[p], n)
             /\ IF ok
                  THEN /\ Goto(s, IF left = {} THEN "status" ELSE "sell")
                       /\ todo' = [todo EXCEPT ![s] = left]
                       /\ selling' = [selling EXCEPT ![s] = NoProduct]
                       /\ UNCHANGED <<seen, job>>
                  ELSE End(s)
    /\ UNCHANGED mine

\* transition_order_status, from Orders today.
Move(s, o) ==
    /\ pc[s] = "idle"
    /\ \E expired \in SUBSET Outdated(s, {"orders"}) :
          LET view == View(s, expired)
          IN /\ Exists(view, o)
             /\ Remember(s, view, {"orders"})
             /\ \E to \in AllowedNext(o, StatusOf(view, o)) \cap Moves :
                   job' = [job EXCEPT ![s].order = o, ![s].to = to]
    /\ Goto(s, "status")
    /\ UNCHANGED <<tabs, faults, mine, seen, todo, selling>>

\* update_order_status; a confirmed draft leaves the page.
WriteStatus(s) ==
    /\ pc[s] = "status"
    /\ \E n \in Copies, ok \in BOOLEAN :
          /\ Call(n, ok)
          /\ UpdateOrderStatus(s, job[s].order, job[s].to, n)
          /\ mine' = IF ok /\ job[s].to = "confirmed"
                       THEN [mine EXCEPT ![s] = NoOrder] ELSE mine
    /\ End(s)

\* "Reset UI session", a closed browser, or a server that restarts in the
\* middle of a script: another session state, another storage, another cache.
Restart(s) ==
    /\ faults' = faults + IF pc[s] \in {"idle", "form"} THEN 0 ELSE 1
    /\ faults' <= MaxFaults
    /\ cache' = [cache EXCEPT ![s] = Nothing]
    /\ mine' = [mine EXCEPT ![s] = NoOrder]
    /\ End(s)
    /\ UNCHANGED <<tabs>>

Step(s) ==
    \/ OpenForm(s) \/ ShowOrders(s) \/ CreateOrderRow(s)
    \/ Confirm(s) \/ Deduct(s) \/ WriteStatus(s) \/ Restart(s)
    \/ \E o \in Order : CreateDraft(s, o) \/ Move(s, o)
    \/ \E p \in Product : Sell(s, p)

Next == \E s \in Session : Step(s)

Spec == DeskInit /\ [][Next]_vars

----------------------------------------------------------------------------
(* Properties *)

AfterSale == {"confirmed", "in_preparation", "ready", "delivered", "picked_up"}

\* What the sale rows of a product add up to.
SoldUnits(p) == SumFunction([o \in Order |-> SumFunction(stock_movements[o][p])])

\* An order that is shown as sold has a sale movement for each of its
\* products, whatever failed, was retried or was read stale on the way
\* (DECISIONS.md:1184, "update order status LAST").
SoldIsBooked ==
    \A o \in Order : (\E i \in DOMAIN orders[o] : orders[o][i] \in AfterSale) =>
        \A p \in Product : Units[o][p] > 0 => stock_movements[o][p] # <<>>

\* The stock of a product never shows less than the movements explain: no
\* failure, retry or stale reading takes stock twice or unbooked
\* (services/orders.py:302-316, the movement before the stock).  This bounds
\* the stock from below only; that it may miss a sale is SoldIsDeducted's matter.
StockCoversMovements ==
    \A p \in Product : products[p] >= OpeningStock[p] - SoldUnits(p)

\* An order has its items from the start, and the page that drafted it finds it
\* with all of them, from the cache as well as from the sheet.  (Items without
\* an order are what a failure between the two appends leaves.)
DraftIsFound ==
    /\ \A o \in Order : orders[o] # <<>> => order_items[o] > 0
    /\ \A s \in Session : mine[s] # NoOrder =>
          /\ orders[mine[s]] # <<>>
          /\ cache[s]["orders"] # NotLoaded =>
                /\ Exists(cache[s], mine[s])
                /\ cache[s]["orders"].items[mine[s]] = order_items[mine[s]]

\* A retry finds what the failed attempt booked: no script gets to book a sale
\* whose movement is in the sheet, where it would be refused each time.  This
\* is what invalidating the cache before the write is for (DECISIONS.md:1349).
RetryIsNotRefused ==
    \A s \in Session : pc[s] = "sell" =>
        \A p \in todo[s] : stock_movements[job[s].order][p] = <<>>

----------------------------------------------------------------------------
(* What the documents say and the code does not keep *)

\* DECISIONS.md:1186: "If anything fails mid-flow, the order stays "draft" and
\* the operation is safely retryable", and "the M1.2 duplicate-id guard makes
\* retries idempotent": once a retry has confirmed the order, its units are out
\* of the stock.  They are not when the failure came between a movement and its
\* stock write: the retry takes the movement for the whole sale of the product.
\* (With a second session the stock can miss a sale without any failure, each
\* writing what it computed from its own reading.)
SoldIsDeducted ==
    \A p \in Product :
        LET sold == {o \in Order : orders[o] # <<>> /\ Head(orders[o]) \in AfterSale}
        IN products[p] <= OpeningStock[p] - SumFunction([o \in sold |-> Units[o][p]])
==============================================================================
