----------------------------- MODULE SheetsStore -----------------------------
(***************************************************************************)
(* The Google Sheets backend, storage/sheets.py, with its two layers of      *)
(* remembered reads: storage/sheets_cache.py keeps the rows of a tab for 30   *)
(* seconds, and storage/read_context.py pins what one script run has read.   *)
(* Every browser session has a storage object, and so a cache, of its own;    *)
(* a session is single-threaded.                                             *)
(*                                                                         *)
(* Each write to Google is one step.  A write is retried on errors of the     *)
(* service, and an error may follow a write that was made: an appended row    *)
(* may be there several times when the call succeeds, and be there or not     *)
(* when it fails.  Of a row only what the properties tell apart is kept.      *)
(***************************************************************************)
EXTENDS Integers, Sequences

CONSTANTS Session, Order, Product,
          Units,          \* what an item row of an order asks for
          OpeningStock,
          NotLoaded,      \* no entry for a tab
          MaxFaults       \* bound: writes that do not go as they should

OrderStatus == {"draft", "approved", "confirmed", "in_preparation", "ready",
                "delivered", "picked_up", "cancelled"}

\* The rows of the tabs.
ProductRows == [Product -> Nat]
ItemRows == [Order -> Nat]
OrderRows == [Order -> Seq(OrderStatus)]
MovementRows == [Order -> [Product -> Seq(Nat)]]

\* An order is read with its items, and create_order invalidates the two tabs
\* together: they are cached as one.  (update_order_status drops the orders
\* only; the items of an order do not change.)
OrdersWithItems == [rows : OrderRows, items : ItemRows]

Tabs == {"products", "orders", "stock_movements"}

\* create_draft refuses an order without a positive quantity; the entry that
\* stands for none is not the rows of a tab.
ASSUME SheetsAssumption ==
    /\ Units \in [Order -> [Product -> Nat]]
    /\ \A o \in Order : \E p \in Product : Units[o][p] > 0
    /\ OpeningStock \in [Product -> Nat]
    /\ NotLoaded \notin ProductRows \cup OrdersWithItems \cup MovementRows
    /\ MaxFaults \in Nat

VARIABLES products,         \* the tab: stock of each product
          order_items,      \* the tab: how many times the items of an order are there
          orders,           \* the tab: the statuses of an order's rows, first to last
          stock_movements,  \* the tab: the units of the sale rows of an order and product
          cache,            \* what each session's cache holds of each tab
          faults            \* writes that failed, or were made more than once

tabs == <<products, order_items, orders, stock_movements>>
sheetsVars == <<tabs, cache, faults>>

SheetsTypeOK ==
    /\ products \in ProductRows
    /\ order_items \in ItemRows
    /\ orders \in OrderRows
    /\ stock_movements \in MovementRows
    /\ faults \in 0..MaxFaults
    /\ cache = [s \in Session |-> [t \in Tabs |-> cache[s][t]]]
    /\ \A s \in Session :
          /\ cache[s]["products"] \in ProductRows \cup {NotLoaded}
          /\ cache[s]["orders"] \in OrdersWithItems \cup {NotLoaded}
          /\ cache[s]["stock_movements"] \in MovementRows \cup {NotLoaded}

Nothing == [t \in Tabs |-> NotLoaded]

\* _bootstrap leaves tabs with their header row; the catalog is seeded.
SheetsInit ==
    /\ products = OpeningStock
    /\ order_items = [o \in Order |-> 0]
    /\ orders = [o \in Order |-> <<>>]
    /\ stock_movements = [o \in Order |-> [p \in Product |-> <<>>]]
    /\ cache = [s \in Session |-> Nothing]
    /\ faults = 0

----------------------------------------------------------------------------
(* Reading *)

\* get_all_records
AllRecords(t) ==
    CASE t = "products" -> products
      [] t = "orders" -> [rows |-> orders, items |-> order_items]
      [] t = "stock_movements" -> stock_movements

\* get_or_load: a tab as the cache has it, unless 30 seconds have passed (the
\* tabs in expired, which matters where the tab has changed), or else as it is
\* now.  A load that raises ends the script and leaves no entry, which no later
\* read can tell from one that has expired: it has no action of its own.
Outdated(s, T) == {t \in T : cache[s][t] \notin {NotLoaded, AllRecords(t)}}

View(s, expired) ==
    [t \in Tabs |-> IF t \in expired \/ cache[s][t] = NotLoaded
                      THEN AllRecords(t) ELSE cache[s][t]]

Remember(s, view, T) ==
    cache' = [cache EXCEPT ![s] = [t \in Tabs |-> IF t \in T THEN view[t] ELSE @[t]]]

\* _orders_from_records and get_order: the status of the first row of the
\* order, and what all its item rows ask for together.
Exists(view, o) == view["orders"].rows[o] # <<>>
StatusOf(view, o) == Head(view["orders"].rows[o])
Requested(view, o) == [p \in Product |-> view["orders"].items[o] * Units[o][p]]

\* list_stock_movements: whether the sale of that many units is among them.
Booked(view, o, p, units) ==
    \E i \in DOMAIN view["stock_movements"][o][p] :
        view["stock_movements"][o][p][i] = units

----------------------------------------------------------------------------
(* Writing *)

Invalidated(s, T) ==
    [cache EXCEPT ![s] = [t \in Tabs |-> IF t \in T THEN NotLoaded ELSE @[t]]]

\* One call through tenacity: the write was made n times, and the caller is
\* told that it was made (ok) or gets an exception.
Copies == 0..2

Call(n, ok) ==
    /\ ok => n > 0
    /\ faults' = faults + IF ok /\ n = 1 THEN 0 ELSE 1
    /\ faults' <= MaxFaults

Appended(rows, row, n) == rows \o [i \in 1..n |-> row]

\* Seeded fault: the order's tabs stay in the cache.
AppendItemsKeepingCache(s, o, n) ==
    /\ order_items' = [order_items EXCEPT ![o] = @ + n]
    /\ UNCHANGED <<products, orders, stock_movements, cache>>

\* create_order, its two appends.
AppendItems(s, o, n) ==
    /\ cache' = Invalidated(s, {"orders"})
    /\ order_items' = [order_items EXCEPT ![o] = @ + n]
    /\ UNCHANGED <<products, orders, stock_movements>>

AppendOrder(o, n) ==
    /\ orders' = [orders EXCEPT ![o] = Appended(@, "draft", n)]
    /\ UNCHANGED <<products, order_items, stock_movements, cache>>

\* Seeded fault: the append leaves the cache as it is.
AppendKeepingCache(s, o, p, units, n) ==
    /\ stock_movements' = [stock_movements EXCEPT ![o][p] = Appended(@, units, n)]
    /\ UNCHANGED <<products, order_items, orders, cache>>

\* append_stock_movement, where the id is not in the tab yet.
AppendMovement(s, o, p, units, n) ==
    /\ cache' = Invalidated(s, {"stock_movements"})
    /\ stock_movements' = [stock_movements EXCEPT ![o][p] = Appended(@, units, n)]
    /\ UNCHANGED <<products, order_items, orders>>

\* upsert_product of a product that is there: its row is written as the caller
\* has it.
UpsertProduct(s, p, units, n) ==
    /\ cache' = Invalidated(s, {"products"})
    /\ products' = IF n = 0 THEN products ELSE [products EXCEPT ![p] = units]
    /\ UNCHANGED <<order_items, orders, stock_movements>>

\* update_order_status: the first row of the order gets the new status.
UpdateOrderStatus(s, o, status, n) ==
    /\ cache' = Invalidated(s, {"orders"})
    /\ orders' = IF n = 0 THEN orders ELSE [orders EXCEPT ![o][1] = status]
    /\ UNCHANGED <<products, order_items, stock_movements>>
==============================================================================
