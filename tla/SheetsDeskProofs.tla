--------------------------- MODULE SheetsDeskProofs ---------------------------
(***************************************************************************)
(* Theorems about SheetsDesk.                                               *)
(***************************************************************************)
EXTENDS SheetsDesk, SequenceTheorems, SumProofs

Rows(t) == CASE t = "products" -> ProductRows
             [] t = "orders" -> OrdersWithItems
             [] t = "stock_movements" -> MovementRows

USE SheetsAssumption, DeskAssumption

----------------------------------------------------------------------------
(* Reads *)

LEMMA CacheType ==
    SheetsTypeOK <=>
        /\ products \in ProductRows
        /\ order_items \in ItemRows
        /\ orders \in OrderRows
        /\ stock_movements \in MovementRows
        /\ faults \in 0..MaxFaults
        /\ cache = [s \in Session |-> [t \in Tabs |-> cache[s][t]]]
        /\ \A s \in Session, t \in Tabs : cache[s][t] \in Rows(t) \cup {NotLoaded}
  BY DEF SheetsTypeOK, Rows, Tabs

LEMMA RecordsType ==
    ASSUME SheetsTypeOK, NEW t \in Tabs
    PROVE  AllRecords(t) \in Rows(t) /\ AllRecords(t) # NotLoaded
  <1>1. CASE t = "products"
    BY <1>1 DEF SheetsTypeOK, AllRecords, Rows
  <1>2. CASE t = "orders"
    <2>1. [rows |-> orders, items |-> order_items] \in OrdersWithItems
      BY DEF SheetsTypeOK, OrdersWithItems
    <2>2. AllRecords(t) = [rows |-> orders, items |-> order_items] /\ Rows(t) = OrdersWithItems
      BY <1>2 DEF AllRecords, Rows
    <2> QED
      BY <2>1, <2>2
  <1>3. CASE t = "stock_movements"
    BY <1>3 DEF SheetsTypeOK, AllRecords, Rows
  <1> QED
    BY <1>1, <1>2, <1>3 DEF Tabs

\* A view of a tab is the tab, or what the cache has of it.
LEMMA ViewIs ==
    ASSUME SheetsTypeOK, NEW s \in Session, NEW e, NEW t \in Tabs
    PROVE  /\ View(s, e)[t] \in Rows(t)
           /\ View(s, e)[t] # NotLoaded
           /\ \/ View(s, e)[t] = AllRecords(t)
              \/ View(s, e)[t] = cache[s][t]
  BY RecordsType, CacheType DEF View

\* After a read the cache of the session has the tabs as they were read, or as
\* they were.
LEMMA Remembered ==
    ASSUME SheetsTypeOK, NEW s \in Session, NEW e, NEW T,
           Remember(s, View(s, e), T)
    PROVE  /\ cache' = [r \in Session |-> [t \in Tabs |-> cache'[r][t]]]
           /\ \A r \in Session \ {s} : cache'[r] = cache[r]
           /\ \A t \in Tabs : cache'[s][t] \in {View(s, e)[t], cache[s][t]}
           /\ \A r \in Session, t \in Tabs : cache'[r][t] \in Rows(t) \cup {NotLoaded}
  <1> DEFINE read == [t \in Tabs |-> IF t \in T THEN View(s, e)[t] ELSE cache[s][t]]
  <1>1. cache' = [cache EXCEPT ![s] = read]
    BY DEF Remember
  <1>2. cache = [r \in Session |-> [t \in Tabs |-> cache[r][t]]]
    BY CacheType
  <1>3. \A t \in Tabs : read[t] \in {View(s, e)[t], cache[s][t]}
    OBVIOUS
  <1>4. read = [t \in Tabs |-> read[t]]
    OBVIOUS
  <1> HIDE DEF read
  <1>5. cache'[s] = read /\ \A r \in Session \ {s} : cache'[r] = cache[r]
    BY <1>1, <1>2
  <1>6. \A r \in Session : cache'[r] = [t \in Tabs |-> cache'[r][t]]
    BY <1>2, <1>4, <1>5
  <1>7. cache' = [r \in Session |-> cache'[r]]
    BY <1>1, <1>2
  <1>8. \A r \in Session, t \in Tabs : cache'[r][t] \in Rows(t) \cup {NotLoaded}
    BY <1>3, <1>5, CacheType, ViewIs
  <1> QED
    BY <1>3, <1>5, <1>6, <1>7, <1>8

\* After a write the session has to load the tabs that were written.
LEMMA InvalidatedIs ==
    ASSUME SheetsTypeOK, NEW s \in Session, NEW T, cache' = Invalidated(s, T)
    PROVE  /\ cache' = [r \in Session |-> [t \in Tabs |-> cache'[r][t]]]
           /\ \A r \in Session \ {s} : cache'[r] = cache[r]
           /\ \A t \in Tabs : cache'[s][t] = IF t \in T THEN NotLoaded ELSE cache[s][t]
           /\ \A r \in Session, t \in Tabs : cache'[r][t] \in Rows(t) \cup {NotLoaded}
  <1> DEFINE kept == [t \in Tabs |-> IF t \in T THEN NotLoaded ELSE cache[s][t]]
  <1>1. cache' = [cache EXCEPT ![s] = kept]
    BY DEF Invalidated
  <1>2. cache = [r \in Session |-> [t \in Tabs |-> cache[r][t]]]
    BY CacheType
  <1>3. \A t \in Tabs : kept[t] = IF t \in T THEN NotLoaded ELSE cache[s][t]
    OBVIOUS
  <1>4. kept = [t \in Tabs |-> kept[t]]
    OBVIOUS
  <1> HIDE DEF kept
  <1>5. cache'[s] = kept /\ \A r \in Session \ {s} : cache'[r] = cache[r]
    BY <1>1, <1>2
  <1>6. \A r \in Session : cache'[r] = [t \in Tabs |-> cache'[r][t]]
    BY <1>2, <1>4, <1>5
  <1>7. cache' = [r \in Session |-> cache'[r]]
    BY <1>1, <1>2
  <1>8. \A r \in Session, t \in Tabs : cache'[r][t] \in Rows(t) \cup {NotLoaded}
    BY <1>3, <1>5, CacheType
  <1> QED
    BY <1>3, <1>5, <1>6, <1>7, <1>8

----------------------------------------------------------------------------
(* Types *)

\* A call that changes the tabs leaves them tabs.
LEMMA WriteType ==
    ASSUME DeskTypeOK, NEW s \in Session, NEW o \in Order, NEW p \in Product,
           NEW n \in Copies, NEW ok \in BOOLEAN, NEW units \in Nat,
           NEW status \in OrderStatus, Call(n, ok),
           \/ AppendItems(s, o, n)
           \/ AppendOrder(o, n)
           \/ AppendMovement(s, o, p, units, n)
           \/ UpsertProduct(s, p, units, n)
           \/ UpdateOrderStatus(s, o, status, n)
    PROVE  SheetsTypeOK'
  <1> USE DEF Copies
  <1>1. SheetsTypeOK
    BY DEF DeskTypeOK
  <1>2. faults' \in 0..MaxFaults
    BY <1>1 DEF Call, SheetsTypeOK
  <1>3. /\ cache' = [r \in Session |-> [t \in Tabs |-> cache'[r][t]]]
        /\ \A r \in Session, t \in Tabs : cache'[r][t] \in Rows(t) \cup {NotLoaded}
    <2>1. CASE UNCHANGED cache
      BY <1>1, <2>1, CacheType
    <2>2. CASE \E T : cache' = Invalidated(s, T)
      BY <1>1, <2>2, InvalidatedIs
    <2> QED
      BY <2>1, <2>2 DEF AppendItems, AppendOrder, AppendMovement, UpsertProduct,
                        UpdateOrderStatus
  <1>4. /\ products' \in ProductRows
        /\ order_items' \in ItemRows
    BY <1>1 DEF SheetsTypeOK, ProductRows, ItemRows, AppendItems, AppendOrder,
                AppendMovement, UpsertProduct, UpdateOrderStatus
  <1>5. orders' \in OrderRows
    <2>1. \A row \in OrderStatus : Appended(orders[o], row, n) \in Seq(OrderStatus)
      <3> TAKE row \in OrderStatus
      <3>1. [i \in 1..n |-> row] \in Seq(OrderStatus)
        OBVIOUS
      <3>2. orders[o] \in Seq(OrderStatus)
        BY <1>1 DEF SheetsTypeOK, OrderRows
      <3> QED
        BY <3>1, <3>2 DEF Appended
    <2>2. [orders[o] EXCEPT ![1] = status] \in Seq(OrderStatus)
      <3>1. orders[o] \in Seq(OrderStatus)
        BY <1>1 DEF SheetsTypeOK, OrderRows
      <3>2. CASE 1 \in 1..Len(orders[o])
        BY <3>1, <3>2, ExceptSeq
      <3>3. CASE 1 \notin 1..Len(orders[o])
        <4>1. [orders[o] EXCEPT ![1] = status] = orders[o]
          BY <3>1, <3>3
        <4> QED
          BY <3>1, <4>1
      <3> QED
        BY <3>2, <3>3
    <2>3. CASE AppendOrder(o, n)
      BY <1>1, <2>1, <2>3 DEF SheetsTypeOK, OrderRows, AppendOrder, OrderStatus
    <2>4. CASE UpdateOrderStatus(s, o, status, n)
      BY <1>1, <2>2, <2>4 DEF SheetsTypeOK, OrderRows, UpdateOrderStatus
    <2> QED
      BY <1>1, <2>3, <2>4 DEF SheetsTypeOK, AppendItems, AppendMovement, UpsertProduct
  <1>6. stock_movements' \in MovementRows
    <2>1. Appended(stock_movements[o][p], units, n) \in Seq(Nat)
      <3>1. [i \in 1..n |-> units] \in Seq(Nat)
        OBVIOUS
      <3>2. stock_movements[o][p] \in Seq(Nat)
        BY <1>1 DEF SheetsTypeOK, MovementRows
      <3> QED
        BY <3>1, <3>2 DEF Appended
    <2>2. CASE AppendMovement(s, o, p, units, n)
      BY <1>1, <2>1, <2>2 DEF SheetsTypeOK, MovementRows, AppendMovement
    <2> QED
      BY <1>1, <2>2 DEF SheetsTypeOK, AppendItems, AppendOrder, UpsertProduct,
                        UpdateOrderStatus
  <1> QED
    BY <1>2, <1>3, <1>4, <1>5, <1>6 DEF SheetsTypeOK, Rows, Tabs

LocalTypeOK ==
    /\ mine \in [Session -> Order \cup {NoOrder}]
    /\ pc \in [Session -> Stage]
    /\ seen \in [Session -> ProductRows \cup {NotLoaded}]
    /\ job \in [Session -> Requests]
    /\ todo \in [Session -> SUBSET Product]
    /\ selling \in [Session -> Product \cup {NoProduct}]

\* A step of one session leaves the script and the page of the others alone.
Same(r) ==
    /\ pc'[r] = pc[r] /\ seen'[r] = seen[r] /\ job'[r] = job[r]
    /\ todo'[r] = todo[r] /\ selling'[r] = selling[r] /\ mine'[r] = mine[r]

LEMMA SplitType ==
    DeskTypeOK <=> SheetsTypeOK /\ LocalTypeOK /\ \A r \in Session : Ready(r)
  BY DEF DeskTypeOK, LocalTypeOK

LEMMA NoJobType == NoJob \in Requests /\ NoJob.order = NoOrder
  <1>1. [p \in Product |-> 0] \in [Product -> Nat]
    OBVIOUS
  <1> QED
    BY <1>1 DEF NoJob, Requests, OrderStatus

LEMMA EndType ==
    ASSUME LocalTypeOK, NEW s \in Session, End(s),
           mine' \in [Session -> Order \cup {NoOrder}],
           \A r \in Session \ {s} : mine'[r] = mine[r]
    PROVE  /\ LocalTypeOK'
           /\ pc'[s] = "idle" /\ job'[s] = NoJob
           /\ Ready(s)'
           /\ \A r \in Session \ {s} : Same(r)
  <1>1. LocalTypeOK'
    BY NoJobType DEF LocalTypeOK, End, Goto, Stage
  <1>2. pc'[s] = "idle" /\ job'[s] = NoJob
    BY DEF LocalTypeOK, End, Goto
  <1>3. \A r \in Session \ {s} : Same(r)
    BY DEF LocalTypeOK, End, Goto, Same
  <1> QED
    BY <1>1, <1>2, <1>3 DEF Ready

LEMMA OthersAreReady ==
    ASSUME LocalTypeOK, \A r \in Session : Ready(r), NEW s \in Session,
           Ready(s)', \A r \in Session \ {s} : Same(r)
    PROVE  \A r \in Session : Ready(r)'
  BY DEF Ready, Same

\* What Confirm has found out when it goes on.
LEMMA RequestedType ==
    ASSUME SheetsTypeOK, NEW s \in Session, NEW e, NEW o \in Order
    PROVE  Requested(View(s, e), o) \in [Product -> Nat]
  <1>1. View(s, e)["orders"] \in OrdersWithItems
    BY ViewIs DEF Tabs, Rows
  <1>2. View(s, e)["orders"].items[o] \in Nat
    BY <1>1 DEF OrdersWithItems, ItemRows
  <1>3. \A p \in Product : View(s, e)["orders"].items[o] * Units[o][p] \in Nat
    BY <1>2
  <1> QED
    BY <1>3 DEF Requested

LEMMA ReadType ==
    ASSUME SheetsTypeOK, NEW s \in Session, NEW e, NEW T,
           Remember(s, View(s, e), T), UNCHANGED <<tabs, faults>>
    PROVE  SheetsTypeOK'
  BY Remembered DEF SheetsTypeOK, tabs, Rows, Tabs

\* The steps of a session that write to Google.
LEMMA WriteStepType ==
    ASSUME DeskTypeOK, NEW s \in Session,
           \/ \E o \in Order : CreateDraft(s, o)
           \/ CreateOrderRow(s)
           \/ \E p \in Product : Sell(s, p)
           \/ Deduct(s)
           \/ WriteStatus(s)
    PROVE  /\ SheetsTypeOK' /\ LocalTypeOK' /\ Ready(s)'
           /\ \A r \in Session \ {s} : Same(r)
  <1>1. /\ SheetsTypeOK /\ LocalTypeOK /\ Ready(s)
        /\ job[s] \in Requests
    BY SplitType DEF LocalTypeOK
  <1>2. CASE \E o \in Order : CreateDraft(s, o)
    <2>1. PICK o \in Order : CreateDraft(s, o)
      BY <1>2
    <2>2. PICK n \in Copies, ok \in BOOLEAN :
             /\ Call(n, ok) /\ AppendItems(s, o, n)
             /\ IF ok THEN /\ Goto(s, "order_row")
                           /\ job' = [job EXCEPT ![s].order = o]
                           /\ UNCHANGED <<seen, todo, selling>>
                ELSE End(s)
      BY <2>1 DEF CreateDraft
    <2>3. UNCHANGED mine
      BY <2>1 DEF CreateDraft
    <2>4. SheetsTypeOK'
      <3>1. PICK p \in Product : TRUE
        BY DEF SheetsAssumption
      <3> QED
        BY <2>2, <3>1, WriteType DEF OrderStatus
    <2>5. CASE ok
      <3> DEFINE new == [job[s] EXCEPT !.order = o]
      <3>0. new \in Requests /\ new.order = o /\ job' = [job EXCEPT ![s] = new]
        BY <1>1, <2>2, <2>5 DEF Requests
      <3> HIDE DEF new
      <3>1. job'[s] \in Requests /\ job'[s].order = o
        BY <1>1, <3>0 DEF LocalTypeOK
      <3>2. LocalTypeOK'
        BY <1>1, <2>2, <2>3, <2>5, <3>0 DEF LocalTypeOK, Goto, Stage
      <3>3. \A r \in Session \ {s} : Same(r)
        BY <1>1, <2>2, <2>3, <2>5, <3>0 DEF LocalTypeOK, Goto, Same
      <3>4. pc'[s] = "order_row"
        BY <1>1, <2>2, <2>5 DEF LocalTypeOK, Goto
      <3> QED
        BY <2>4, <3>1, <3>2, <3>3, <3>4 DEF Ready
    <2>6. CASE ~ok
      BY <1>1, <2>2, <2>3, <2>4, <2>6, EndType DEF LocalTypeOK
    <2> QED
      BY <2>5, <2>6
  <1>3. CASE CreateOrderRow(s)
    <2>1. job[s].order \in Order
      BY <1>1, <1>3 DEF CreateOrderRow, Ready
    <2>2. SheetsTypeOK'
      <3>1. PICK p \in Product : TRUE
        BY <2>1 DEF SheetsAssumption
      <3>2. \E n \in Copies, ok \in BOOLEAN : Call(n, ok) /\ AppendOrder(job[s].order, n)
        BY <1>3 DEF CreateOrderRow
      <3> QED
        BY <2>1, <3>1, <3>2, WriteType DEF OrderStatus
    <2>3. /\ mine' \in [Session -> Order \cup {NoOrder}]
          /\ \A r \in Session \ {s} : mine'[r] = mine[r]
      BY <1>1, <1>3, <2>1 DEF CreateOrderRow, LocalTypeOK
    <2> QED
      BY <1>1, <1>3, <2>2, <2>3, EndType DEF CreateOrderRow
  <1>4. CASE \E p \in Product : Sell(s, p)
    <2>1. PICK p \in Product : Sell(s, p)
      BY <1>4
    <2>2. job[s].order \in Order /\ job[s].units[p] \in Nat /\ pc[s] = "sell" /\ p \in todo[s]
      BY <1>1, <2>1 DEF Sell, Ready, Requests
    <2>3. /\ UNCHANGED mine
          /\ mine' \in [Session -> Order \cup {NoOrder}]
          /\ \A r \in Session \ {s} : mine'[r] = mine[r]
      BY <1>1, <2>1 DEF Sell, LocalTypeOK
    <2>4. CASE stock_movements[job[s].order][p] # <<>>
      <3>1. End(s) /\ UNCHANGED sheetsVars
        BY <2>1, <2>4 DEF Sell
      <3>2. SheetsTypeOK'
        BY <1>1, <3>1 DEF SheetsTypeOK, sheetsVars, tabs
      <3> QED
        BY <1>1, <2>3, <3>1, <3>2, EndType
    <2>5. CASE stock_movements[job[s].order][p] = <<>>
      <3>1. PICK n \in Copies, ok \in BOOLEAN :
               /\ Call(n, ok)
               /\ AppendMovement(s, job[s].order, p, job[s].units[p], n)
               /\ IF ok THEN /\ Goto(s, "deduct")
                             /\ selling' = [selling EXCEPT ![s] = p]
                             /\ UNCHANGED <<seen, job, todo>>
                  ELSE End(s)
        BY <2>1, <2>5 DEF Sell
      <3>2. SheetsTypeOK'
        BY <2>2, <3>1, WriteType DEF OrderStatus
      <3>3. CASE ok
        <4>1. LocalTypeOK'
          BY <1>1, <2>3, <3>1, <3>3 DEF LocalTypeOK, Goto, Stage
        <4>2. \A r \in Session \ {s} : Same(r)
          BY <1>1, <2>3, <3>1, <3>3 DEF LocalTypeOK, Goto, Same
        <4>3. pc'[s] = "deduct" /\ selling'[s] = p
          BY <1>1, <3>1, <3>3 DEF LocalTypeOK, Goto
        <4> QED
          BY <1>1, <2>2, <3>1, <3>2, <3>3, <4>1, <4>2, <4>3 DEF Ready
      <3>4. CASE ~ok
        BY <1>1, <2>3, <3>1, <3>2, <3>4, EndType
      <3> QED
        BY <3>3, <3>4
    <2> QED
      BY <2>4, <2>5
  <1>5. CASE Deduct(s)
    <2> DEFINE p == selling[s]
               left == todo[s] \ {p}
               units == seen[s][p] - job[s].units[p]
    <2>1. PICK n \in Copies, ok \in BOOLEAN :
             /\ Call(n, ok)
             /\ UpsertProduct(s, p, units, n)
             /\ IF ok THEN /\ Goto(s, IF left = {} THEN "status" ELSE "sell")
                           /\ todo' = [todo EXCEPT ![s] = left]
                           /\ selling' = [selling EXCEPT ![s] = NoProduct]
                           /\ UNCHANGED <<seen, job>>
                ELSE End(s)
      BY <1>5 DEF Deduct
    <2>2. /\ pc[s] = "deduct" /\ UNCHANGED mine
          /\ mine' \in [Session -> Order \cup {NoOrder}]
          /\ \A r \in Session \ {s} : mine'[r] = mine[r]
      BY <1>1, <1>5 DEF Deduct, LocalTypeOK
    <2>3. /\ p \in Product /\ p \in todo[s] /\ job[s].order \in Order
          /\ seen[s][p] \in Nat /\ job[s].units[p] \in Nat
          /\ units \in Nat
      <3>1. seen[s] \in ProductRows /\ selling[s] \in todo[s] /\ todo[s] \subseteq Product
        BY <1>1, <2>2 DEF LocalTypeOK, Ready
      <3>2. seen[s][p] \in Nat /\ job[s].units[p] \in Nat /\ job[s].units[p] <= seen[s][p]
        BY <1>1, <2>2, <3>1 DEF Ready, ProductRows, Requests
      <3> QED
        BY <1>1, <2>2, <3>1, <3>2 DEF Ready
    <2>4. SheetsTypeOK'
      BY <2>1, <2>3, WriteType DEF OrderStatus
    <2>5. CASE ok
      <3>0. /\ todo' \in [Session -> SUBSET Product]
            /\ pc' \in [Session -> Stage]
            /\ selling' \in [Session -> Product \cup {NoProduct}]
        <4>1. left \in SUBSET Product
          BY <1>1 DEF LocalTypeOK
        <4>2. PICK stage \in {"sell", "status"} : pc' = [pc EXCEPT ![s] = stage]
          BY <2>1, <2>5 DEF Goto
        <4> HIDE DEF left, p, units
        <4> QED
          BY <1>1, <2>1, <2>5, <4>1, <4>2 DEF LocalTypeOK, Stage
      <3>1. LocalTypeOK'
        BY <1>1, <2>1, <2>2, <2>5, <3>0 DEF LocalTypeOK
      <3>2. \A r \in Session \ {s} : Same(r)
        BY <1>1, <2>1, <2>2, <2>5 DEF LocalTypeOK, Goto, Same
      <3>3. /\ pc'[s] \in {"sell", "status"} /\ todo'[s] \subseteq todo[s]
            /\ seen'[s] = seen[s] /\ job'[s] = job[s]
        BY <1>1, <2>1, <2>5 DEF LocalTypeOK, Goto
      <3> QED
        BY <1>1, <2>2, <2>4, <3>1, <3>2, <3>3 DEF Ready
    <2>6. CASE ~ok
      BY <1>1, <2>1, <2>2, <2>4, <2>6, EndType
    <2> QED
      BY <2>5, <2>6
  <1>6. CASE WriteStatus(s)
    <2>1. job[s].order \in Order /\ job[s].to \in OrderStatus
      BY <1>1, <1>6 DEF WriteStatus, Ready, Requests
    <2>2. SheetsTypeOK'
      <3>1. PICK p \in Product : TRUE
        BY <2>1 DEF SheetsAssumption
      <3>2. \E n \in Copies, ok \in BOOLEAN :
               Call(n, ok) /\ UpdateOrderStatus(s, job[s].order, job[s].to, n)
        BY <1>6 DEF WriteStatus
      <3> QED
        BY <2>1, <3>1, <3>2, WriteType
    <2>3. /\ mine' \in [Session -> Order \cup {NoOrder}]
          /\ \A r \in Session \ {s} : mine'[r] = mine[r]
      BY <1>1, <1>6 DEF WriteStatus, LocalTypeOK
    <2> QED
      BY <1>1, <1>6, <2>2, <2>3, EndType DEF WriteStatus
  <1> QED
    BY <1>2, <1>3, <1>4, <1>5, <1>6

LEMMA AllowedNextType ==
    ASSUME NEW o, NEW status PROVE AllowedNext(o, status) \subseteq OrderStatus
  BY DEF AllowedNext, OrderStatus

\* The steps that only read, or end a session.
LEMMA ReadStepType ==
    ASSUME DeskTypeOK, NEW s \in Session,
           \/ OpenForm(s) \/ ShowOrders(s) \/ Confirm(s) \/ Restart(s)
           \/ \E o \in Order : Move(s, o)
    PROVE  /\ SheetsTypeOK' /\ LocalTypeOK' /\ Ready(s)'
           /\ \A r \in Session \ {s} : Same(r)
  <1>1. SheetsTypeOK /\ LocalTypeOK /\ Ready(s)
    BY SplitType
  <1>2. CASE OpenForm(s)
    <2>1. PICK e \in SUBSET Outdated(s, {"products"}) :
             /\ Remember(s, View(s, e), {"products"})
             /\ seen' = [seen EXCEPT ![s] = View(s, e)["products"]]
      BY <1>2 DEF OpenForm
    <2>2. /\ Goto(s, "form")
          /\ UNCHANGED <<tabs, faults, mine, job, todo, selling>>
      BY <1>2 DEF OpenForm
    <2>3. SheetsTypeOK'
      BY <1>1, <2>1, <2>2, ReadType
    <2>4. View(s, e)["products"] \in ProductRows /\ View(s, e)["products"] # NotLoaded
      BY <1>1, ViewIs DEF Tabs, Rows
    <2>5. LocalTypeOK'
      BY <1>1, <2>1, <2>2, <2>4 DEF LocalTypeOK, Goto, Stage
    <2>6. pc'[s] = "form" /\ seen'[s] # NotLoaded
      BY <1>1, <2>1, <2>2, <2>4 DEF LocalTypeOK, Goto
    <2>7. \A r \in Session \ {s} : Same(r)
      BY <1>1, <2>1, <2>2 DEF LocalTypeOK, Goto, Same
    <2> QED
      BY <2>3, <2>5, <2>6, <2>7 DEF Ready
  <1>3. CASE ShowOrders(s)
    <2>1. PICK e \in SUBSET Outdated(s, {"orders"}) :
             /\ Remember(s, View(s, e), {"orders"})
             /\ mine' \in {mine, [mine EXCEPT ![s] = NoOrder]}
      BY <1>3 DEF ShowOrders
    <2>2. End(s) /\ UNCHANGED <<tabs, faults>>
      BY <1>3 DEF ShowOrders
    <2>3. SheetsTypeOK'
      BY <1>1, <2>1, <2>2, ReadType
    <2>4. /\ mine' \in [Session -> Order \cup {NoOrder}]
          /\ \A r \in Session \ {s} : mine'[r] = mine[r]
      BY <1>1, <2>1 DEF LocalTypeOK
    <2> QED
      BY <1>1, <2>2, <2>3, <2>4, EndType
  <1>4. CASE Confirm(s)
    <2> DEFINE o == mine[s]
    <2>1. PICK e \in SUBSET Outdated(s, {"orders", "stock_movements"}) :
            LET view == View(s, e)
                units == Requested(view, o)
                left == ToSell(view, o)
            IN /\ Remember(s, view, {"orders", "stock_movements"})
               /\ IF \E p \in left : seen[s][p] < units[p]
                    THEN End(s)
                    ELSE /\ Goto(s, IF left = {} THEN "status" ELSE "sell")
                         /\ job' = [job EXCEPT ![s] = [order |-> o, units |-> units,
                                                      to |-> "confirmed"]]
                         /\ todo' = [todo EXCEPT ![s] = left]
                         /\ UNCHANGED <<seen, selling>>
      BY <1>4 DEF Confirm
    <2> DEFINE units == Requested(View(s, e), o)
               left == ToSell(View(s, e), o)
               new == [order |-> o, units |-> units, to |-> "confirmed"]
    <2>2. pc[s] = "form" /\ o \in Order /\ UNCHANGED <<tabs, faults, mine>>
      BY <1>1, <1>4 DEF Confirm, LocalTypeOK
    <2>3. SheetsTypeOK'
      BY <1>1, <2>1, <2>2, ReadType
    <2>4. CASE \E p \in left : seen[s][p] < units[p]
      BY <1>1, <2>1, <2>2, <2>3, <2>4, EndType DEF LocalTypeOK
    <2>5. CASE ~\E p \in left : seen[s][p] < units[p]
      <3>1. units \in [Product -> Nat] /\ left \subseteq Product
        BY <1>1, <2>2, RequestedType DEF ToSell
      <3>2. new \in Requests /\ new.order = o /\ new.units = units
        BY <2>2, <3>1 DEF Requests, OrderStatus
      <3>3. PICK stage \in {"status", "sell"} : pc' = [pc EXCEPT ![s] = stage]
        BY <2>1, <2>5 DEF Goto
      <3>4. /\ job' = [job EXCEPT ![s] = new]
            /\ todo' = [todo EXCEPT ![s] = left]
            /\ UNCHANGED <<seen, selling>>
        BY <2>1, <2>5
      <3>5. seen[s] \in ProductRows
        BY <1>1, <2>2 DEF Ready, LocalTypeOK
      <3>6. \A p \in left : units[p] <= seen[s][p]
        BY <2>5, <3>1, <3>5 DEF ProductRows
      <3> HIDE DEF new, units, left, o
      <3>7. LocalTypeOK'
        BY <1>1, <2>2, <3>1, <3>2, <3>3, <3>4 DEF LocalTypeOK, Stage
      <3>8. \A r \in Session \ {s} : Same(r)
        BY <1>1, <2>2, <3>3, <3>4 DEF LocalTypeOK, Same
      <3>9. /\ pc'[s] \in {"status", "sell"} /\ job'[s] = new /\ todo'[s] = left
            /\ seen'[s] = seen[s]
        BY <1>1, <3>3, <3>4 DEF LocalTypeOK
      <3>10. Ready(s)'
        BY <1>1, <2>2, <3>2, <3>5, <3>6, <3>9 DEF Ready
      <3> QED
        BY <2>3, <3>7, <3>8, <3>10
    <2> QED
      BY <2>4, <2>5
  <1>5. CASE \E o \in Order : Move(s, o)
    <2>1. PICK o \in Order : Move(s, o)
      BY <1>5
    <2>2. PICK e \in SUBSET Outdated(s, {"orders"}), to \in OrderStatus :
             /\ Remember(s, View(s, e), {"orders"})
             /\ job' = [job EXCEPT ![s].order = o, ![s].to = to]
      <3>1. PICK e \in SUBSET Outdated(s, {"orders"}) :
               /\ Remember(s, View(s, e), {"orders"})
               /\ \E to \in AllowedNext(o, StatusOf(View(s, e), o)) \cap Moves :
                     job' = [job EXCEPT ![s].order = o, ![s].to = to]
        BY <2>1 DEF Move
      <3> QED
        BY <3>1, AllowedNextType
    <2>3. /\ Goto(s, "status")
          /\ UNCHANGED <<tabs, faults, mine, seen, todo, selling>>
      BY <2>1 DEF Move
    <2>4. SheetsTypeOK'
      BY <1>1, <2>2, <2>3, ReadType
    <2> DEFINE new == [order |-> o, units |-> job[s].units, to |-> to]
    <2>5. new \in Requests /\ new.order = o
      BY <1>1 DEF LocalTypeOK, Requests
    <2>6. job' = [job EXCEPT ![s] = new]
      <3>1. job \in [Session -> Requests] /\ job[s] \in Requests
        BY <1>1 DEF LocalTypeOK
      <3>2. [[job[s] EXCEPT !.order = o] EXCEPT !.to = to] = new
        <4>1. job[s] = [order |-> job[s].order, units |-> job[s].units, to |-> job[s].to]
          BY <3>1 DEF Requests
        <4> DEFINE mid == [order |-> o, units |-> job[s].units, to |-> job[s].to]
        <4>2. [job[s] EXCEPT !.order = o] = mid
          BY <4>1
        <4>3. [mid EXCEPT !.to = to] = new
          OBVIOUS
        <4> HIDE DEF mid, new
        <4> QED
          BY <4>2, <4>3
      <3>3. job' = [job EXCEPT ![s] = [[job[s] EXCEPT !.order = o] EXCEPT !.to = to]]
        BY <2>2, <3>1
      <3> QED
        BY <3>2, <3>3
    <2> HIDE DEF new
    <2>7. LocalTypeOK'
      BY <1>1, <2>3, <2>5, <2>6 DEF LocalTypeOK, Goto, Stage
    <2>8. \A r \in Session \ {s} : Same(r)
      BY <1>1, <2>3, <2>6 DEF LocalTypeOK, Goto, Same
    <2>9. pc'[s] = "status" /\ job'[s].order = o
      BY <1>1, <2>3, <2>5, <2>6 DEF LocalTypeOK, Goto
    <2> QED
      BY <2>4, <2>7, <2>8, <2>9 DEF Ready
  <1>6. CASE Restart(s)
    <2>1. /\ End(s) /\ UNCHANGED tabs
          /\ mine' = [mine EXCEPT ![s] = NoOrder]
          /\ cache' = [cache EXCEPT ![s] = Nothing]
      BY <1>6 DEF Restart
    <2>2. faults' \in 0..MaxFaults
      BY <1>1, <1>6 DEF Restart, SheetsTypeOK
    <2>3. /\ cache' = [r \in Session |-> [t \in Tabs |-> cache'[r][t]]]
          /\ \A r \in Session, t \in Tabs : cache'[r][t] \in Rows(t) \cup {NotLoaded}
      <3>1. Nothing = [t \in Tabs |-> Nothing[t]] /\ \A t \in Tabs : Nothing[t] = NotLoaded
        BY DEF Nothing
      <3>2. cache = [r \in Session |-> [t \in Tabs |-> cache[r][t]]]
        BY <1>1, CacheType
      <3>3. cache'[s] = Nothing /\ \A r \in Session \ {s} : cache'[r] = cache[r]
        BY <2>1, <3>2
      <3>4. \A r \in Session : cache'[r] = [t \in Tabs |-> cache'[r][t]]
        BY <3>1, <3>2, <3>3
      <3>5. cache' = [r \in Session |-> cache'[r]]
        BY <2>1, <3>2
      <3>6. \A r \in Session, t \in Tabs : cache'[r][t] \in Rows(t) \cup {NotLoaded}
        BY <1>1, <3>1, <3>3, CacheType
      <3> QED
        BY <3>4, <3>5, <3>6
    <2>4. SheetsTypeOK'
      BY <1>1, <2>1, <2>2, <2>3 DEF SheetsTypeOK, tabs, Rows, Tabs
    <2>5. /\ mine' \in [Session -> Order \cup {NoOrder}]
          /\ \A r \in Session \ {s} : mine'[r] = mine[r]
      BY <1>1, <2>1 DEF LocalTypeOK
    <2> QED
      BY <1>1, <2>1, <2>4, <2>5, EndType
  <1> QED
    BY <1>2, <1>3, <1>4, <1>5, <1>6

LEMMA DeskTypeStep ==
    ASSUME DeskTypeOK, NEW s \in Session, Step(s)
    PROVE  DeskTypeOK' /\ \A r \in Session \ {s} : Same(r)
  <1>1. /\ SheetsTypeOK' /\ LocalTypeOK' /\ Ready(s)'
        /\ \A r \in Session \ {s} : Same(r)
    BY ReadStepType, WriteStepType DEF Step
  <1>2. \A r \in Session : Ready(r)'
    BY <1>1, OthersAreReady, SplitType
  <1> QED
    BY <1>1, <1>2 DEF DeskTypeOK, LocalTypeOK

LEMMA DeskTypeInit == DeskInit => DeskTypeOK
  <1> SUFFICES ASSUME DeskInit PROVE DeskTypeOK
    OBVIOUS
  <1>1. \A r \in Session, t \in Tabs : cache[r][t] = NotLoaded
    BY DEF DeskInit, SheetsInit, Nothing
  <1>2. cache = [r \in Session |-> [t \in Tabs |-> cache[r][t]]]
    BY DEF DeskInit, SheetsInit, Nothing
  <1>3. SheetsTypeOK
    <2>1. products \in ProductRows /\ order_items \in ItemRows /\ faults \in 0..MaxFaults
      BY DEF DeskInit, SheetsInit, ProductRows, ItemRows
    <2>2. orders \in OrderRows
      BY DEF DeskInit, SheetsInit, OrderRows
    <2>3. stock_movements \in MovementRows
      BY DEF DeskInit, SheetsInit, MovementRows
    <2> QED
      BY <1>1, <1>2, <2>1, <2>2, <2>3 DEF SheetsTypeOK, Tabs
  <1>4. LocalTypeOK /\ \A r \in Session : Ready(r)
    BY NoJobType DEF DeskInit, LocalTypeOK, Stage, Ready
  <1> QED
    BY <1>3, <1>4, SplitType

\* What the sheets, the caches and the scripts of the pages hold stays of the
\* kind it is: stock, in particular, is never written below zero, because what
\* a script deducts was checked against the very read it deducts from
\* (services/orders.py:288-320).
THEOREM DeskTypeInvariant == Spec => []DeskTypeOK
  <1>1. DeskTypeOK /\ [Next]_vars => DeskTypeOK'
    <2> SUFFICES ASSUME DeskTypeOK, [Next]_vars PROVE DeskTypeOK'
      OBVIOUS
    <2>1. CASE Next
      BY <2>1, DeskTypeStep DEF Next
    <2>2. CASE UNCHANGED vars
      <3>1. SheetsTypeOK'
        BY <2>2, SplitType DEF SheetsTypeOK, vars, sheetsVars, tabs
      <3>2. LocalTypeOK' /\ \A r \in Session : Ready(r)'
        BY <2>2, SplitType DEF LocalTypeOK, Ready, vars, deskVars
      <3> QED
        BY <3>1, <3>2 DEF DeskTypeOK, LocalTypeOK
    <2> QED
      BY <2>1, <2>2
  <1> QED
    BY <1>1, DeskTypeInit, PTL DEF Spec

----------------------------------------------------------------------------
(* What the sheets, the cache of a session and its script say of each other. *)

BookedAll(o) == \A p \in Product : Units[o][p] > 0 => stock_movements[o][p] # <<>>

\* Orders have items, and movements, which are of orders, say what they ask for.
RowsHaveItems == \A o \in Order : orders[o] # <<>> => order_items[o] > 0

MovementsMatch ==
    \A o \in Order, p \in Product :
        /\ stock_movements[o][p] # <<>> => orders[o] # <<>>
        /\ \A i \in DOMAIN stock_movements[o][p] :
              stock_movements[o][p][i] = order_items[o] * Units[o][p]

TabsInv == RowsHaveItems /\ MovementsMatch /\ SoldIsBooked

\* What was read of the orders or movements, now or up to 30 seconds ago: it may
\* lack what others have written, but not of the draft of the session's page.
OrdersSeen(s, v) ==
    /\ \A o \in Order :
          (\E i \in DOMAIN v.rows[o] : v.rows[o][i] \in AfterSale) => BookedAll(o)
    /\ mine[s] # NoOrder => /\ v.rows[mine[s]] # <<>>
                            /\ v.items[mine[s]] = order_items[mine[s]]

MovementsSeen(s, v) ==
    /\ \A o \in Order, p \in Product : v[o][p] # <<>> => stock_movements[o][p] # <<>>
    /\ mine[s] # NoOrder => v[mine[s]] = stock_movements[mine[s]]

Page(s) ==
    /\ mine[s] # NoOrder => orders[mine[s]] # <<>>
    /\ cache[s]["orders"] # NotLoaded => OrdersSeen(s, cache[s]["orders"])
    /\ cache[s]["stock_movements"] # NotLoaded =>
          MovementsSeen(s, cache[s]["stock_movements"])

\* At order_row the order is still to be written; a confirmation is of the
\* page's draft, and has booked what it has no more to do.
Selling(s) ==
    /\ mine[s] # NoOrder /\ job[s].order = mine[s] /\ job[s].to = "confirmed"
    /\ \A p \in Product : job[s].units[p] = order_items[mine[s]] * Units[mine[s]][p]

Script(s) ==
    /\ pc[s] = "order_row" => /\ orders[job[s].order] = <<>>
                              /\ order_items[job[s].order] > 0
                              /\ cache[s]["orders"] = NotLoaded
    /\ pc[s] \in {"sell", "deduct"} => Selling(s)
    /\ pc[s] = "sell" => \A p \in Product :
          /\ p \in todo[s] => stock_movements[mine[s]][p] = <<>>
          /\ p \notin todo[s] /\ Units[mine[s]][p] > 0 => stock_movements[mine[s]][p] # <<>>
    /\ pc[s] = "deduct" => \A p \in Product :
          /\ p \in todo[s] \ {selling[s]} => stock_movements[mine[s]][p] = <<>>
          /\ p \notin todo[s] \ {selling[s]} /\ Units[mine[s]][p] > 0 =>
                stock_movements[mine[s]][p] # <<>>
    /\ pc[s] = "status" /\ job[s].to \in AfterSale => BookedAll(job[s].order)

\* No two pages have one draft, no two scripts write one order.
Apart ==
    \A r, s \in Session : r # s =>
        /\ mine[r] = mine[s] => mine[r] = NoOrder
        /\ pc[r] = "order_row" /\ pc[s] = "order_row" => job[r].order # job[s].order

DeskInv ==
    /\ DeskTypeOK /\ TabsInv /\ Apart
    /\ \A s \in Session : Page(s) /\ Script(s)

\* What a step of s does to the tabs, as far as the other sessions can tell.
Grow(s) ==
    /\ \A o \in Order :
          /\ orders[o] # <<>> => orders'[o] # <<>> /\ order_items'[o] = order_items[o]
          /\ order_items[o] > 0 => order_items'[o] > 0
          /\ \A p \in Product : stock_movements[o][p] # <<>> => stock_movements'[o][p] # <<>>
    /\ \A r \in Session \ {s} :
          /\ mine[r] # NoOrder => stock_movements'[mine[r]] = stock_movements[mine[r]]
          /\ pc[r] = "order_row" => orders'[job[r].order] = <<>>

\* What is to be shown of each step of a session.
Fine(s) ==
    /\ TabsInv' /\ Page(s)' /\ Script(s)'
    /\ Grow(s)
    /\ \A r \in Session \ {s} :
          /\ cache'[r] = cache[r]
          /\ mine'[s] # NoOrder => mine[r] # mine'[s]
          /\ pc'[s] = "order_row" => job[r].order # job'[s].order

LEMMA BookedStays ==
    ASSUME NEW s \in Session, Grow(s), NEW o \in Order, BookedAll(o)
    PROVE  BookedAll(o)'
  BY DEF Grow, BookedAll

LEMMA OthersKept ==
    ASSUME DeskInv, NEW s \in Session, Grow(s), NEW r \in Session \ {s},
           Same(r), cache'[r] = cache[r]
    PROVE  Page(r)' /\ Script(r)'
  <1>1. /\ Page(r) /\ Script(r) /\ Ready(r)
        /\ mine[r] \in Order \cup {NoOrder}
    BY SplitType DEF DeskInv, LocalTypeOK
  <1>2. mine[r] # NoOrder => /\ orders'[mine[r]] # <<>>
                             /\ order_items'[mine[r]] = order_items[mine[r]]
                             /\ stock_movements'[mine[r]] = stock_movements[mine[r]]
    BY <1>1 DEF Grow, Page
  <1>3. Page(r)'
    BY <1>1, <1>2, BookedStays DEF Page, OrdersSeen, MovementsSeen, Same, Grow
  <1>4. Script(r)'
    <2>1. CASE pc[r] = "order_row"
      <3>1. job[r].order \in Order
        BY <1>1, <2>1 DEF Ready
      <3> QED
        BY <1>1, <2>1, <3>1 DEF Script, Same, Grow
    <2>2. CASE pc[r] \in {"sell", "deduct"}
      <3>1. Selling(r)'
        BY <1>1, <1>2, <2>2 DEF Script, Selling, Same
      <3> QED
        BY <1>1, <1>2, <2>2, <3>1 DEF Script, Selling, Same
    <2>3. CASE pc[r] = "status"
      <3>1. job[r].order \in Order
        BY <1>1, <2>3 DEF Ready
      <3> QED
        BY <1>1, <2>3, <3>1, BookedStays DEF Script, Same
    <2>4. CASE pc[r] \notin {"order_row", "sell", "deduct", "status"}
      BY <2>4 DEF Script, Same
    <2> QED
      BY <2>1, <2>2, <2>3, <2>4
  <1> QED
    BY <1>3, <1>4

LEMMA FineKeeps ==
    ASSUME DeskInv, NEW s \in Session, Fine(s), DeskTypeOK',
           \A r \in Session \ {s} : Same(r)
    PROVE  DeskInv'
  <1>1. \A r \in Session : Page(r)' /\ Script(r)'
    BY OthersKept DEF Fine
  <1>2. Apart'
    <2> SUFFICES ASSUME NEW q \in Session, NEW r \in Session, q # r
                 PROVE  /\ mine'[q] = mine'[r] => mine'[q] = NoOrder
                        /\ pc'[q] = "order_row" /\ pc'[r] = "order_row" =>
                              job'[q].order # job'[r].order
      BY DEF Apart
    <2>1. CASE q # s /\ r # s
      BY <2>1 DEF DeskInv, Apart, Same
    <2>2. CASE q = s \/ r = s
      BY <2>2 DEF Fine, Same
    <2> QED
      BY <2>1, <2>2
  <1> QED
    BY <1>1, <1>2 DEF DeskInv, Fine

\* What a session sees, from its cache or from the sheet.
LEMMA Seen ==
    ASSUME DeskInv, NEW s \in Session, NEW e
    PROVE  /\ OrdersSeen(s, View(s, e)["orders"])
           /\ MovementsSeen(s, View(s, e)["stock_movements"])
  <1>1. SheetsTypeOK /\ Page(s) /\ SoldIsBooked
    BY SplitType DEF DeskInv, TabsInv
  <1>2. OrdersSeen(s, View(s, e)["orders"])
    <2>1. CASE View(s, e)["orders"] = AllRecords("orders")
      <3>1. View(s, e)["orders"].rows = orders /\ View(s, e)["orders"].items = order_items
        BY <2>1 DEF AllRecords
      <3> QED
        BY <1>1, <3>1 DEF OrdersSeen, Page, SoldIsBooked, BookedAll
    <2>2. CASE View(s, e)["orders"] = cache[s]["orders"]
      BY <1>1, <2>2, ViewIs DEF Page, Tabs
    <2> QED
      BY <1>1, <2>1, <2>2, ViewIs DEF Tabs
  <1>3. MovementsSeen(s, View(s, e)["stock_movements"])
    <2>1. CASE View(s, e)["stock_movements"] = AllRecords("stock_movements")
      BY <2>1 DEF MovementsSeen, AllRecords
    <2>2. CASE View(s, e)["stock_movements"] = cache[s]["stock_movements"]
      BY <1>1, <2>2, ViewIs DEF Page, Tabs
    <2> QED
      BY <1>1, <2>1, <2>2, ViewIs DEF Tabs
  <1> QED
    BY <1>2, <1>3

\* A step that reads leaves the page in order.
LEMMA ReadKeeps ==
    ASSUME DeskInv, NEW s \in Session, NEW e, NEW T,
           Remember(s, View(s, e), T), UNCHANGED tabs,
           mine'[s] \in {mine[s], NoOrder}
    PROVE  /\ TabsInv' /\ Page(s)' /\ Grow(s)
           /\ \A r \in Session \ {s} : cache'[r] = cache[r]
           /\ \A r \in Session \ {s} : mine'[s] # NoOrder => mine[r] # mine'[s]
  <1>1. SheetsTypeOK /\ Page(s)
    BY SplitType DEF DeskInv
  <1>2. TabsInv'
    BY DEF DeskInv, TabsInv, RowsHaveItems, MovementsMatch, SoldIsBooked, tabs
  <1>3. Grow(s)
    BY DEF Grow, DeskInv, Script, tabs
  <1>4. Page(s)'
    <2>1. /\ cache'[s]["orders"] # NotLoaded => OrdersSeen(s, cache'[s]["orders"])
          /\ cache'[s]["stock_movements"] # NotLoaded =>
                MovementsSeen(s, cache'[s]["stock_movements"])
      BY <1>1, Remembered, Seen DEF Page, Tabs
    <2> QED
      BY <1>1, <2>1 DEF Page, OrdersSeen, MovementsSeen, BookedAll, tabs
  <1>5. \A r \in Session \ {s} : mine'[s] # NoOrder => mine[r] # mine'[s]
    BY DEF DeskInv, Apart
  <1> QED
    BY <1>1, <1>2, <1>3, <1>4, <1>5, Remembered

LEMMA FormFine ==
    ASSUME DeskInv, NEW s \in Session, OpenForm(s) \/ ShowOrders(s)
    PROVE  Fine(s)
  <1>1. LocalTypeOK
    BY SplitType DEF DeskInv
  <1>2. PICK e \in UNION {SUBSET Outdated(s, {t}) : t \in Tabs}, T \in SUBSET Tabs :
           Remember(s, View(s, e), T)
    BY DEF OpenForm, ShowOrders, Tabs
  <1>3. /\ UNCHANGED tabs
        /\ mine'[s] \in {mine[s], NoOrder}
        /\ pc'[s] \in {"idle", "form"}
    BY <1>1 DEF LocalTypeOK, OpenForm, ShowOrders, End, Goto
  <1>4. Script(s)'
    BY <1>3 DEF Script
  <1> QED
    BY <1>2, <1>3, <1>4, ReadKeeps DEF Fine

LEMMA RestartFine ==
    ASSUME DeskInv, NEW s \in Session, Restart(s)
    PROVE  Fine(s)
  <1>1. SheetsTypeOK /\ LocalTypeOK
    BY SplitType DEF DeskInv
  <1>2. UNCHANGED tabs /\ mine'[s] = NoOrder /\ pc'[s] = "idle"
    BY <1>1 DEF LocalTypeOK, Restart, End, Goto
  <1>3. cache'[s] = Nothing /\ \A r \in Session \ {s} : cache'[r] = cache[r]
    <2>1. cache = [r \in Session |-> [t \in Tabs |-> cache[r][t]]]
      BY <1>1, CacheType
    <2> QED
      BY <2>1 DEF Restart
  <1>4. TabsInv' /\ Grow(s)
    BY <1>2 DEF DeskInv, TabsInv, RowsHaveItems, MovementsMatch, SoldIsBooked, Grow, Script, tabs
  <1>5. Page(s)' /\ Script(s)'
    BY <1>2, <1>3 DEF Page, Script, Nothing, Tabs
  <1> QED
    BY <1>2, <1>3, <1>4, <1>5 DEF Fine

\* An order that may move to a status after the sale has one already.
LEMMA MoveFine ==
    ASSUME DeskInv, NEW s \in Session, NEW o \in Order, Move(s, o)
    PROVE  Fine(s)
  <1>1. SheetsTypeOK /\ LocalTypeOK
    BY SplitType DEF DeskInv
  <1>2. PICK e \in SUBSET Outdated(s, {"orders"}), to \in Moves :
           /\ Exists(View(s, e), o)
           /\ Remember(s, View(s, e), {"orders"})
           /\ to \in AllowedNext(o, StatusOf(View(s, e), o))
           /\ job' = [job EXCEPT ![s].order = o, ![s].to = to]
    BY DEF Move
  <1>3. UNCHANGED <<tabs, mine>> /\ pc'[s] = "status"
    BY <1>1 DEF Move, LocalTypeOK, Goto
  <1>4. job'[s].order = o /\ job'[s].to = to
    <2>1. job[s] \in Requests
      BY <1>1 DEF LocalTypeOK
    <2>2. job[s] = [order |-> job[s].order, units |-> job[s].units, to |-> job[s].to]
      BY <2>1 DEF Requests
    <2> QED
      BY <1>1, <1>2, <2>2 DEF LocalTypeOK
  <1>5. to \in AfterSale => BookedAll(o)
    <2> SUFFICES ASSUME to \in AfterSale PROVE BookedAll(o)
      OBVIOUS
    <2> DEFINE rows == View(s, e)["orders"].rows
    <2>1. rows[o] \in Seq(OrderStatus) /\ rows[o] # <<>>
      BY <1>1, <1>2, ViewIs DEF Exists, Tabs, Rows, OrdersWithItems, OrderRows
    <2>2. StatusOf(View(s, e), o) \in AfterSale
      BY <1>2 DEF AllowedNext, AfterSale
    <2>3. 1 \in DOMAIN rows[o] /\ StatusOf(View(s, e), o) = rows[o][1]
      BY <2>1 DEF StatusOf
    <2> HIDE DEF rows
    <2>4. OrdersSeen(s, View(s, e)["orders"])
      BY Seen
    <2> QED
      BY <2>2, <2>3, <2>4 DEF OrdersSeen, rows
  <1>6. BookedAll(o) => BookedAll(o)'
    BY <1>3 DEF BookedAll, tabs
  <1>7. Script(s)'
    BY <1>3, <1>4, <1>5, <1>6 DEF Script
  <1> QED
    BY <1>2, <1>3, <1>7, ReadKeeps DEF Fine

LEMMA Positive ==
    ASSUME NEW m \in Nat, NEW n \in Nat, m > 0, n > 0
    PROVE  m * n > 0
  BY SMT

\* What is left to sell is what has no movement.
LEMMA ToSellIs ==
    ASSUME DeskInv, NEW s \in Session, NEW e, mine[s] # NoOrder
    PROVE  \A p \in Product :
              /\ Requested(View(s, e), mine[s])[p] = order_items[mine[s]] * Units[mine[s]][p]
              /\ p \in ToSell(View(s, e), mine[s]) => stock_movements[mine[s]][p] = <<>>
              /\ p \notin ToSell(View(s, e), mine[s]) /\ Units[mine[s]][p] > 0 =>
                    stock_movements[mine[s]][p] # <<>>
  <1> DEFINE o == mine[s]
             view == View(s, e)
             units == Requested(view, o)
  <1> TAKE p \in Product
  <1>1. SheetsTypeOK /\ o \in Order /\ orders[o] # <<>>
    BY SplitType DEF DeskInv, LocalTypeOK, Page
  <1>2. /\ view["orders"].items[o] = order_items[o]
        /\ view["stock_movements"][o] = stock_movements[o]
    BY Seen DEF OrdersSeen, MovementsSeen
  <1>3. units[p] = order_items[o] * Units[o][p]
    BY <1>2 DEF Requested
  <1>4. Booked(view, o, p, units[p]) <=> stock_movements[o][p] # <<>>
    <2>1. stock_movements[o][p] \in Seq(Nat)
      BY <1>1 DEF SheetsTypeOK, MovementRows
    <2>2. \A i \in DOMAIN stock_movements[o][p] : stock_movements[o][p][i] = units[p]
      BY <1>1, <1>3 DEF DeskInv, TabsInv, MovementsMatch
    <2>3. /\ stock_movements[o][p] # <<>> => 1 \in DOMAIN stock_movements[o][p]
          /\ stock_movements[o][p] = <<>> => DOMAIN stock_movements[o][p] = {}
      <3>1. DOMAIN stock_movements[o][p] = 1..Len(stock_movements[o][p])
        BY <2>1
      <3>2. stock_movements[o][p] # <<>> <=> Len(stock_movements[o][p]) > 0
        BY <2>1, EmptySeq
      <3>3. Len(stock_movements[o][p]) \in Nat
        BY <2>1
      <3> QED
        BY <3>1, <3>2, <3>3
    <2> QED
      BY <1>2, <2>2, <2>3 DEF Booked
  <1>5. Units[o][p] > 0 => units[p] > 0
    <2>1. order_items[o] \in Nat /\ order_items[o] > 0 /\ Units[o][p] \in Nat
      BY <1>1 DEF DeskInv, TabsInv, RowsHaveItems, SheetsTypeOK, ItemRows
    <2> QED
      BY <1>3, <2>1, Positive
  <1>6. p \in ToSell(view, o) <=> units[p] > 0 /\ ~Booked(view, o, p, units[p])
    BY DEF ToSell
  <1> QED
    BY <1>3, <1>4, <1>5, <1>6

LEMMA ConfirmFine ==
    ASSUME DeskInv, NEW s \in Session, Confirm(s)
    PROVE  Fine(s)
  <1> DEFINE o == mine[s]
  <1>1. LocalTypeOK /\ o # NoOrder /\ UNCHANGED <<tabs, mine>>
    BY SplitType DEF DeskInv, Confirm
  <1>2. PICK e \in SUBSET Outdated(s, {"orders", "stock_movements"}) :
          LET view == View(s, e)
              units == Requested(view, o)
              left == ToSell(view, o)
          IN /\ Remember(s, view, {"orders", "stock_movements"})
             /\ IF \E p \in left : seen[s][p] < units[p]
                  THEN End(s)
                  ELSE /\ Goto(s, IF left = {} THEN "status" ELSE "sell")
                       /\ job' = [job EXCEPT ![s] = [order |-> o, units |-> units,
                                                    to |-> "confirmed"]]
                       /\ todo' = [todo EXCEPT ![s] = left]
                       /\ UNCHANGED <<seen, selling>>
    BY DEF Confirm
  <1> DEFINE units == Requested(View(s, e), o)
             left == ToSell(View(s, e), o)
  <1>3. Script(s)' /\ pc'[s] # "order_row"
    <2>1. CASE \E p \in left : seen[s][p] < units[p]
      <3>1. pc'[s] = "idle"
        BY <1>1, <1>2, <2>1 DEF LocalTypeOK, End, Goto
      <3> QED
        BY <3>1 DEF Script
    <2>2. CASE ~\E p \in left : seen[s][p] < units[p]
      <3>1. /\ pc'[s] = IF left = {} THEN "status" ELSE "sell"
            /\ job'[s].order = o /\ job'[s].units = units /\ job'[s].to = "confirmed"
            /\ todo'[s] = left
        BY <1>1, <1>2, <2>2 DEF LocalTypeOK, Goto
      <3>2. \A p \in Product :
               /\ units[p] = order_items[o] * Units[o][p]
               /\ p \in left => stock_movements[o][p] = <<>>
               /\ p \notin left /\ Units[o][p] > 0 => stock_movements[o][p] # <<>>
        BY <1>1, ToSellIs
      <3> HIDE DEF units, left
      <3>3. CASE left = {}
        <4>1. \A p \in Product : Units[o][p] > 0 => stock_movements'[o][p] # <<>>
          BY <1>1, <3>2, <3>3 DEF tabs
        <4> HIDE DEF o
        <4> QED
          BY <3>1, <3>3, <4>1 DEF Script, BookedAll
      <3>4. CASE left # {}
        <4>1. Selling(s)'
          BY <1>1, <3>1, <3>2 DEF Selling, tabs
        <4> QED
          BY <1>1, <3>1, <3>2, <3>4, <4>1 DEF Script, tabs
      <3> QED
        BY <3>3, <3>4
    <2> QED
      BY <2>1, <2>2
  <1> QED
    BY <1>1, <1>2, <1>3, ReadKeeps DEF Fine

----------------------------------------------------------------------------
(* The steps that write. *)

\* Copies of a row that is appended.
LEMMA AppendedIs ==
    ASSUME NEW S, NEW rows \in Seq(S), NEW row \in S, NEW n \in Copies
    PROVE  /\ rows # <<>> => Appended(rows, row, n) # <<>>
           /\ n > 0 => Appended(rows, row, n) # <<>>
           /\ \A i \in DOMAIN Appended(rows, row, n) :
                 \/ Appended(rows, row, n)[i] = row
                 \/ i \in DOMAIN rows /\ Appended(rows, row, n)[i] = rows[i]
  <1> DEFINE new == [i \in 1..n |-> row]
             all == rows \o new
  <1>1. n \in Nat
    BY DEF Copies
  <1>2. new \in Seq(S) /\ Len(new) = n /\ \A i \in 1..n : new[i] = row
    BY <1>1
  <1> HIDE DEF new
  <1>3. /\ all \in Seq(S)
        /\ Len(all) = Len(rows) + n
        /\ \A i \in 1..Len(all) : all[i] = IF i <= Len(rows) THEN rows[i]
                                                             ELSE new[i - Len(rows)]
    <2>1. /\ all \in Seq(S)
          /\ Len(all) = Len(rows) + Len(new)
          /\ \A i \in 1..(Len(rows) + Len(new)) :
                all[i] = IF i <= Len(rows) THEN rows[i] ELSE new[i - Len(rows)]
      <3>1. \A s1 \in Seq(S), s2 \in Seq(S) :
               /\ s1 \o s2 \in Seq(S)
               /\ Len(s1 \o s2) = Len(s1) + Len(s2)
               /\ \A i \in 1..(Len(s1) + Len(s2)) :
                     (s1 \o s2)[i] = IF i <= Len(s1) THEN s1[i] ELSE s2[i - Len(s1)]
        BY ConcatProperties
      <3> QED
        BY <1>2, <3>1, Zenon
    <2> HIDE DEF all
    <2> QED
      BY <1>2, <2>1
  <1>4. Len(rows) \in Nat /\ DOMAIN rows = 1..Len(rows) /\ DOMAIN all = 1..Len(all)
    BY <1>3
  <1>5. rows # <<>> => Len(rows) > 0
    BY EmptySeq
  <1>6. all = <<>> => Len(all) = 0
    BY EmptySeq
  <1> HIDE DEF all
  <1>7. \A i \in DOMAIN all : \/ all[i] = row
                              \/ i \in DOMAIN rows /\ all[i] = rows[i]
    <2> TAKE i \in DOMAIN all
    <2>1. CASE i <= Len(rows)
      BY <1>1, <1>3, <1>4, <2>1
    <2>2. CASE ~(i <= Len(rows))
      <3>1. i - Len(rows) \in 1..n
        BY <1>1, <1>3, <1>4, <2>2
      <3> QED
        BY <1>2, <1>3, <1>4, <2>2, <3>1
    <2> QED
      BY <2>1, <2>2
  <1>8. Appended(rows, row, n) = all
    BY DEF Appended, all, new
  <1> QED
    BY <1>1, <1>3, <1>4, <1>5, <1>6, <1>7, <1>8

LEMMA AppendedAlone ==
    ASSUME NEW row, NEW n \in Copies
    PROVE  /\ n > 0 => Appended(<<>>, row, n) # <<>>
           /\ \A i \in DOMAIN Appended(<<>>, row, n) : Appended(<<>>, row, n)[i] = row
  <1> DEFINE S == {row}
  <1>1. <<>> \in Seq(S) /\ row \in S /\ DOMAIN <<>> = {}
    OBVIOUS
  <1> HIDE DEF S
  <1>2. /\ n > 0 => Appended(<<>>, row, n) # <<>>
        /\ \A i \in DOMAIN Appended(<<>>, row, n) :
              \/ Appended(<<>>, row, n)[i] = row
              \/ i \in DOMAIN <<>>
    <2>1. \A rows \in Seq(S) :
             /\ n > 0 => Appended(rows, row, n) # <<>>
             /\ \A i \in DOMAIN Appended(rows, row, n) :
                   \/ Appended(rows, row, n)[i] = row
                   \/ i \in DOMAIN rows
      BY <1>1, AppendedIs
    <2> QED
      BY <1>1, <2>1, Zenon
  <1> QED
    BY <1>1, <1>2

\* What a call has written when the caller is told so.
LEMMA CallIs ==
    ASSUME NEW n \in Copies, NEW ok \in BOOLEAN, Call(n, ok)
    PROVE  n \in Nat /\ (ok => n > 0)
  BY DEF Call, Copies

LEMMA CreateDraftFine ==
    ASSUME DeskInv, NEW s \in Session, NEW o \in Order, CreateDraft(s, o)
    PROVE  Fine(s)
  <1>1. SheetsTypeOK /\ LocalTypeOK /\ Page(s)
    BY SplitType DEF DeskInv
  <1>2. PICK n \in Copies, ok \in BOOLEAN :
           /\ Call(n, ok) /\ AppendItems(s, o, n)
           /\ IF ok THEN /\ Goto(s, "order_row")
                         /\ job' = [job EXCEPT ![s].order = o]
              ELSE End(s)
    BY DEF CreateDraft
  <1>3. /\ order_items[o] = 0 /\ orders[o] = <<>>
        /\ \A r \in Session : job[r].order # o
        /\ UNCHANGED <<mine, orders, stock_movements>>
    BY <1>2 DEF CreateDraft, AppendItems
  <1>4. \A q \in Order : order_items'[q] = IF q = o THEN n ELSE order_items[q]
    BY <1>1, <1>2, <1>3, CallIs DEF AppendItems, SheetsTypeOK, ItemRows
  <1>5. /\ cache'[s]["orders"] = NotLoaded
        /\ cache'[s]["stock_movements"] = cache[s]["stock_movements"]
        /\ \A r \in Session \ {s} : cache'[r] = cache[r]
    BY <1>1, <1>2, InvalidatedIs DEF AppendItems, Tabs
  <1>6. \A p \in Product : stock_movements[o][p] = <<>>
    BY <1>3 DEF DeskInv, TabsInv, MovementsMatch
  <1>7. TabsInv'
    <2>1. RowsHaveItems' /\ SoldIsBooked'
      BY <1>3, <1>4 DEF DeskInv, TabsInv, RowsHaveItems, SoldIsBooked
    <2>2. DOMAIN <<>> = {}
      OBVIOUS
    <2>3. MovementsMatch'
      <3> SUFFICES ASSUME NEW q \in Order, NEW p \in Product
                   PROVE  /\ stock_movements[q][p] # <<>> => orders[q] # <<>>
                          /\ \A i \in DOMAIN stock_movements[q][p] :
                                stock_movements[q][p][i] = order_items'[q] * Units[q][p]
        BY <1>3 DEF MovementsMatch
      <3>1. CASE q = o
        BY <1>6, <2>2, <3>1
      <3>2. CASE q # o
        BY <1>4, <3>2 DEF DeskInv, TabsInv, MovementsMatch
      <3> QED
        BY <3>1, <3>2
    <2> QED
      BY <2>1, <2>3 DEF TabsInv
  <1>8. Grow(s)
    <2>1. \A r \in Session \ {s} : pc[r] = "order_row" => orders'[job[r].order] = <<>>
      BY <1>3 DEF DeskInv, Script
    <2>2. \A q \in Order :
             /\ orders[q] # <<>> => order_items'[q] = order_items[q]
             /\ order_items[q] > 0 => order_items'[q] > 0
      BY <1>3, <1>4
    <2>3. orders' = orders /\ stock_movements' = stock_movements
      BY <1>3
    <2> QED
      BY <2>1, <2>2, <2>3 DEF Grow
  <1>9. Page(s)'
    BY <1>1, <1>3, <1>5 DEF Page, MovementsSeen
  <1>10. Script(s)' /\ (pc'[s] = "order_row" => job'[s].order = o)
    <2>1. CASE ok
      <3>1. pc'[s] = "order_row"
        BY <1>1, <1>2, <2>1 DEF LocalTypeOK, Goto
      <3>2. job'[s].order = o
        <4>1. job[s] \in Requests
          BY <1>1 DEF LocalTypeOK
        <4>2. job[s] = [order |-> job[s].order, units |-> job[s].units, to |-> job[s].to]
          BY <4>1 DEF Requests
        <4> QED
          BY <1>1, <1>2, <2>1, <4>2 DEF LocalTypeOK
      <3> QED
        BY <1>2, <1>3, <1>4, <1>5, <2>1, <3>1, <3>2, CallIs DEF Script
    <2>2. CASE ~ok
      <3>1. pc'[s] = "idle"
        BY <1>1, <1>2, <2>2 DEF LocalTypeOK, End, Goto
      <3> QED
        BY <3>1 DEF Script
    <2> QED
      BY <2>1, <2>2
  <1> QED
    BY <1>3, <1>5, <1>7, <1>8, <1>9, <1>10 DEF Fine, DeskInv, Apart

LEMMA CreateOrderRowFine ==
    ASSUME DeskInv, NEW s \in Session, CreateOrderRow(s)
    PROVE  Fine(s)
  <1> DEFINE o == job[s].order
  <1>1. SheetsTypeOK /\ LocalTypeOK /\ Page(s) /\ Script(s)
    BY SplitType DEF DeskInv
  <1>2. pc[s] = "order_row" /\ o \in Order
    BY SplitType DEF DeskInv, CreateOrderRow, Ready
  <1>3. orders[o] = <<>> /\ order_items[o] > 0 /\ cache[s]["orders"] = NotLoaded
    BY <1>1, <1>2 DEF Script
  <1>4. PICK n \in Copies, ok \in BOOLEAN :
           /\ Call(n, ok) /\ AppendOrder(o, n)
           /\ mine' = IF ok THEN [mine EXCEPT ![s] = o] ELSE mine
    BY DEF CreateOrderRow
  <1>5. UNCHANGED <<order_items, stock_movements, cache>> /\ pc'[s] = "idle"
    BY <1>1, <1>4 DEF AppendOrder, CreateOrderRow, End, Goto, LocalTypeOK
  <1>6. mine'[s] = IF ok THEN o ELSE mine[s]
    BY <1>1, <1>4 DEF LocalTypeOK
  <1>7. /\ \A q \in Order \ {o} : orders'[q] = orders[q]
        /\ orders'[o] = Appended(<<>>, "draft", n)
    BY <1>1, <1>2, <1>3, <1>4 DEF AppendOrder, SheetsTypeOK, OrderRows
  <1>8. /\ n > 0 => orders'[o] # <<>>
        /\ \A i \in DOMAIN orders'[o] : orders'[o][i] \notin AfterSale
    <2>1. /\ n > 0 => Appended(<<>>, "draft", n) # <<>>
          /\ \A i \in DOMAIN Appended(<<>>, "draft", n) :
                Appended(<<>>, "draft", n)[i] = "draft"
      BY AppendedAlone
    <2> QED
      BY <1>7, <2>1 DEF AfterSale
  <1>9. \A p \in Product : stock_movements[o][p] = <<>>
    BY <1>2, <1>3 DEF DeskInv, TabsInv, MovementsMatch
  <1> HIDE DEF o
  <1>10. TabsInv'
    <2>1. RowsHaveItems'
      BY <1>3, <1>5, <1>7 DEF DeskInv, TabsInv, RowsHaveItems
    <2>2. MovementsMatch'
      BY <1>3, <1>5, <1>7 DEF DeskInv, TabsInv, MovementsMatch
    <2>3. SoldIsBooked'
      BY <1>5, <1>7, <1>8 DEF DeskInv, TabsInv, SoldIsBooked
    <2> QED
      BY <2>1, <2>2, <2>3 DEF TabsInv
  <1>11. Grow(s)
    <2>1. \A r \in Session \ {s} : pc[r] = "order_row" => orders'[job[r].order] = <<>>
      <3> TAKE r \in Session \ {s}
      <3> HAVE pc[r] = "order_row"
      <3>1. job[r].order \in Order /\ job[r].order # o /\ orders[job[r].order] = <<>>
        BY <1>2, SplitType DEF DeskInv, Apart, Script, Ready, o
      <3> QED
        BY <1>7, <3>1
    <2> QED
      BY <1>3, <1>5, <1>7, <2>1 DEF Grow
  <1>12. \A r \in Session \ {s} : mine'[s] # NoOrder => mine[r] # mine'[s]
    BY <1>2, <1>3, <1>6, SplitType DEF DeskInv, Apart, Page, DeskAssumption
  <1>13. Page(s)'
    <2>1. CASE ok
      <3>1. orders'[o] # <<>>
        BY <1>4, <1>8, <2>1, CallIs
      <3>2. cache[s]["stock_movements"] # NotLoaded =>
               cache[s]["stock_movements"][o] = stock_movements[o]
        <4> SUFFICES ASSUME cache[s]["stock_movements"] # NotLoaded
                     PROVE  cache[s]["stock_movements"][o] = stock_movements[o]
          OBVIOUS
        <4>1. /\ stock_movements \in MovementRows
              /\ cache[s]["stock_movements"] \in MovementRows
          BY <1>1 DEF SheetsTypeOK
        <4>2. \A p \in Product : cache[s]["stock_movements"][o][p] = <<>>
          BY <1>1, <1>2, <1>9 DEF Page, MovementsSeen
        <4>3. /\ cache[s]["stock_movements"][o] \in [Product -> Seq(Nat)]
              /\ stock_movements[o] \in [Product -> Seq(Nat)]
          BY <1>2, <4>1 DEF MovementRows, o
        <4>4. \A p \in Product : cache[s]["stock_movements"][o][p] = stock_movements[o][p]
          BY <1>9, <4>2
        <4> QED
          BY <4>3, <4>4
      <3> QED
        BY <1>1, <1>3, <1>5, <1>6, <2>1, <3>1, <3>2 DEF Page, MovementsSeen
    <2>2. CASE ~ok
      <3>1. mine[s] # NoOrder => orders'[mine[s]] # <<>>
        BY <1>1, <1>3, <1>7 DEF LocalTypeOK, Page
      <3> QED
        BY <1>1, <1>3, <1>5, <1>6, <2>2, <3>1 DEF Page, MovementsSeen
    <2> QED
      BY <2>1, <2>2
  <1>14. Script(s)'
    BY <1>5 DEF Script
  <1> QED
    BY <1>5, <1>10, <1>11, <1>12, <1>13, <1>14 DEF Fine

\* A step that leaves the orders' rows as they are and adds no items keeps what
\* is known of the scripts that are about to write an order.
LEMMA GrowIs ==
    ASSUME DeskInv, NEW s \in Session, UNCHANGED order_items,
           \A o \in Order : orders[o] = <<>> <=> orders'[o] = <<>>,
           \A o \in Order, p \in Product :
              stock_movements[o][p] # <<>> => stock_movements'[o][p] # <<>>,
           \A r \in Session \ {s} : mine[r] # NoOrder =>
              stock_movements'[mine[r]] = stock_movements[mine[r]]
    PROVE  Grow(s)
  <1>1. \A r \in Session \ {s} : pc[r] = "order_row" => orders'[job[r].order] = <<>>
    BY SplitType DEF DeskInv, Script, Ready
  <1> QED
    BY <1>1 DEF Grow

LEMMA SellFine ==
    ASSUME DeskInv, NEW s \in Session, NEW p \in Product, Sell(s, p)
    PROVE  Fine(s)
  <1> DEFINE o == mine[s]
  <1>1. SheetsTypeOK /\ LocalTypeOK /\ Page(s) /\ Script(s)
    BY SplitType DEF DeskInv
  <1>2. /\ pc[s] = "sell" /\ p \in todo[s] /\ o \in Order /\ job[s].order = o
        /\ job[s].to = "confirmed"
        /\ \A q \in Product : job[s].units[q] = order_items[o] * Units[o][q]
        /\ orders[o] # <<>> /\ stock_movements[o][p] = <<>>
    BY <1>1 DEF Sell, Script, Selling, Page, LocalTypeOK
  <1>3. PICK n \in Copies, ok \in BOOLEAN :
           /\ Call(n, ok)
           /\ AppendMovement(s, o, p, job[s].units[p], n)
           /\ IF ok THEN /\ Goto(s, "deduct")
                         /\ selling' = [selling EXCEPT ![s] = p]
                         /\ UNCHANGED <<seen, job, todo>>
              ELSE End(s)
    BY <1>2 DEF Sell
  <1>4. UNCHANGED <<mine, order_items, orders>>
    BY <1>3 DEF Sell, AppendMovement
  <1>5. /\ cache'[s]["stock_movements"] = NotLoaded
        /\ cache'[s]["orders"] = cache[s]["orders"]
        /\ \A r \in Session \ {s} : cache'[r] = cache[r]
    BY <1>1, <1>3, InvalidatedIs DEF AppendMovement, Tabs
  <1> DEFINE units == job[s].units[p]
             rows == Appended(<<>>, units, n)
  <1>6. units \in Nat /\ units = order_items[o] * Units[o][p]
    BY <1>1, <1>2 DEF LocalTypeOK, Requests
  <1>7. n > 0 => rows # <<>>
    BY AppendedAlone
  <1>8. \A i \in DOMAIN rows : rows[i] = units
    BY AppendedAlone
  <1>9. \A q \in Order, k \in Product :
           stock_movements'[q][k] = IF q = o /\ k = p THEN rows ELSE stock_movements[q][k]
    <2>1. stock_movements \in [Order -> [Product -> Seq(Nat)]]
      BY <1>1 DEF SheetsTypeOK, MovementRows
    <2>2. stock_movements' = [stock_movements EXCEPT ![o][p] = rows]
      BY <1>2, <1>3 DEF AppendMovement
    <2> HIDE DEF rows
    <2> QED
      BY <2>1, <2>2
  <1>10. \A r \in Session \ {s} : mine[r] # NoOrder =>
            stock_movements'[mine[r]] = stock_movements[mine[r]]
    <2>1. \A q \in Order \ {o} : stock_movements'[q] = stock_movements[q]
      BY <1>1, <1>2, <1>3 DEF AppendMovement, SheetsTypeOK, MovementRows
    <2> QED
      BY <1>1, <1>2, <2>1 DEF LocalTypeOK, DeskInv, Apart
  <1> HIDE DEF rows, units
  <1>11. \A q \in Order, k \in Product :
            stock_movements[q][k] # <<>> => stock_movements'[q][k] # <<>>
    BY <1>2, <1>9
  <1>12. Grow(s)
    BY <1>4, <1>10, <1>11, GrowIs
  <1>13. TabsInv'
    <2>1. RowsHaveItems'
      BY <1>4 DEF DeskInv, TabsInv, RowsHaveItems
    <2>2. MovementsMatch'
      <3> SUFFICES ASSUME NEW q \in Order, NEW k \in Product
                   PROVE  /\ stock_movements'[q][k] # <<>> => orders[q] # <<>>
                          /\ \A i \in DOMAIN stock_movements'[q][k] :
                                stock_movements'[q][k][i] = order_items[q] * Units[q][k]
        BY <1>4 DEF MovementsMatch
      <3>1. CASE q = o /\ k = p
        BY <1>2, <1>6, <1>8, <1>9, <3>1
      <3>2. CASE ~(q = o /\ k = p)
        BY <1>9, <3>2 DEF DeskInv, TabsInv, MovementsMatch
      <3> QED
        BY <3>1, <3>2
    <2>3. SoldIsBooked'
      BY <1>4, <1>11 DEF DeskInv, TabsInv, SoldIsBooked
    <2> QED
      BY <2>1, <2>2, <2>3 DEF TabsInv
  <1>14. Page(s)'
    BY <1>1, <1>4, <1>5, <1>12, BookedStays DEF Page, OrdersSeen
  <1>15. Script(s)' /\ pc'[s] # "order_row"
    <2>1. CASE ok
      <3>1. /\ pc'[s] = "deduct" /\ selling'[s] = p /\ todo'[s] = todo[s]
            /\ job'[s] = job[s]
        BY <1>1, <1>3, <2>1 DEF LocalTypeOK, Goto
      <3>2. Selling(s)'
        BY <1>2, <1>4, <3>1, DeskAssumption DEF Selling
      <3>3. rows # <<>>
        BY <1>3, <1>7, <2>1, CallIs
      <3>4. \A k \in Product :
               /\ k \in todo[s] \ {p} => stock_movements'[o][k] = <<>>
               /\ k \notin todo[s] \ {p} /\ Units[o][k] > 0 => stock_movements'[o][k] # <<>>
        BY <1>1, <1>2, <1>9, <3>3 DEF Script
      <3> QED
        BY <1>4, <3>1, <3>2, <3>4 DEF Script
    <2>2. CASE ~ok
      <3>1. pc'[s] = "idle"
        BY <1>1, <1>3, <2>2 DEF LocalTypeOK, End, Goto
      <3> QED
        BY <3>1 DEF Script
    <2> QED
      BY <2>1, <2>2
  <1> QED
    BY <1>4, <1>5, <1>12, <1>13, <1>14, <1>15 DEF Fine, DeskInv, Apart

LEMMA DeductFine ==
    ASSUME DeskInv, NEW s \in Session, Deduct(s)
    PROVE  Fine(s)
  <1> DEFINE o == mine[s]
             left == todo[s] \ {selling[s]}
  <1>1. SheetsTypeOK /\ LocalTypeOK /\ Page(s) /\ Script(s)
    BY SplitType DEF DeskInv
  <1>2. /\ pc[s] = "deduct" /\ Selling(s)
        /\ \A p \in Product :
              /\ p \in left => stock_movements[o][p] = <<>>
              /\ p \notin left /\ Units[o][p] > 0 => stock_movements[o][p] # <<>>
    BY <1>1 DEF Deduct, Script
  <1>3. PICK n \in Copies, ok \in BOOLEAN :
           /\ UpsertProduct(s, selling[s], seen[s][selling[s]] - job[s].units[selling[s]], n)
           /\ IF ok THEN /\ Goto(s, IF left = {} THEN "status" ELSE "sell")
                         /\ todo' = [todo EXCEPT ![s] = left]
                         /\ UNCHANGED job
              ELSE End(s)
    BY DEF Deduct
  <1>4. UNCHANGED <<mine, order_items, orders, stock_movements>>
    BY <1>3 DEF Deduct, UpsertProduct
  <1>5. /\ cache'[s]["stock_movements"] = cache[s]["stock_movements"]
        /\ cache'[s]["orders"] = cache[s]["orders"]
        /\ \A r \in Session \ {s} : cache'[r] = cache[r]
    BY <1>1, <1>3, InvalidatedIs DEF UpsertProduct, Tabs
  <1>6. Grow(s)
    BY <1>4, GrowIs
  <1>7. TabsInv'
    BY <1>4 DEF DeskInv, TabsInv, RowsHaveItems, MovementsMatch, SoldIsBooked
  <1>8. Page(s)'
    BY <1>1, <1>4, <1>5 DEF Page, OrdersSeen, MovementsSeen, BookedAll
  <1>9. Script(s)' /\ pc'[s] # "order_row"
    <2>1. CASE ok
      <3>1. /\ pc'[s] = IF left = {} THEN "status" ELSE "sell"
            /\ todo'[s] = left /\ job'[s] = job[s]
        BY <1>1, <1>3, <2>1 DEF LocalTypeOK, Goto
      <3> HIDE DEF left
      <3>2. CASE left = {}
        <4>1. BookedAll(o)' /\ job[s].order = o
          BY <1>2, <1>4, <3>2 DEF BookedAll, Selling
        <4> HIDE DEF o
        <4> QED
          BY <1>2, <1>4, <3>1, <3>2, <4>1 DEF Script, BookedAll, o
      <3>3. CASE left # {}
        <4>1. Selling(s)'
          BY <1>2, <1>4, <3>1 DEF Selling
        <4> QED
          BY <1>2, <1>4, <3>1, <3>3, <4>1 DEF Script
      <3> QED
        BY <3>2, <3>3
    <2>2. CASE ~ok
      <3>1. pc'[s] = "idle"
        BY <1>1, <1>3, <2>2 DEF LocalTypeOK, End, Goto
      <3> QED
        BY <3>1 DEF Script
    <2> QED
      BY <2>1, <2>2
  <1> QED
    BY <1>4, <1>5, <1>6, <1>7, <1>8, <1>9 DEF Fine, DeskInv, Apart

LEMMA WriteStatusFine ==
    ASSUME DeskInv, NEW s \in Session, WriteStatus(s)
    PROVE  Fine(s)
  <1> DEFINE o == job[s].order
             to == job[s].to
  <1>1. SheetsTypeOK /\ LocalTypeOK /\ Page(s) /\ Script(s)
    BY SplitType DEF DeskInv
  <1>2. /\ o \in Order
        /\ to \in AfterSale => BookedAll(o)
    BY <1>1, SplitType DEF DeskInv, WriteStatus, Ready, Script
  <1>3. PICK n \in Copies, ok \in BOOLEAN :
           /\ UpdateOrderStatus(s, o, to, n)
           /\ mine' = IF ok /\ to = "confirmed" THEN [mine EXCEPT ![s] = NoOrder] ELSE mine
    BY DEF WriteStatus
  <1>4. /\ UNCHANGED <<order_items, stock_movements>>
        /\ mine'[s] \in {mine[s], NoOrder}
        /\ pc'[s] = "idle"
    BY <1>1, <1>3 DEF WriteStatus, UpdateOrderStatus, End, Goto, LocalTypeOK
  <1>5. /\ cache'[s]["stock_movements"] = cache[s]["stock_movements"]
        /\ cache'[s]["orders"] = NotLoaded
        /\ \A r \in Session \ {s} : cache'[r] = cache[r]
    BY <1>1, <1>3, InvalidatedIs DEF UpdateOrderStatus, Tabs
  <1> HIDE DEF o, to
  <1>6. \A q \in Order :
           /\ DOMAIN orders'[q] = DOMAIN orders[q]
           /\ \A i \in DOMAIN orders[q] : \/ orders'[q][i] = orders[q][i]
                                          \/ q = o /\ orders'[q][i] = to
    BY <1>1, <1>3 DEF UpdateOrderStatus, SheetsTypeOK, OrderRows
  <1>7. \A q \in Order : orders[q] = <<>> <=> orders'[q] = <<>>
    BY <1>1, <1>3 DEF UpdateOrderStatus, SheetsTypeOK, OrderRows
  <1>8. Grow(s)
    BY <1>4, <1>7, GrowIs
  <1>9. TabsInv'
    <2>1. RowsHaveItems' /\ MovementsMatch'
      BY <1>4, <1>7 DEF DeskInv, TabsInv, RowsHaveItems, MovementsMatch
    <2>2. SoldIsBooked'
      BY <1>2, <1>4, <1>6 DEF DeskInv, TabsInv, SoldIsBooked, BookedAll
    <2> QED
      BY <2>1, <2>2 DEF TabsInv
  <1>10. Page(s)'
    BY <1>1, <1>4, <1>5, <1>7 DEF Page, MovementsSeen, LocalTypeOK
  <1>11. Script(s)'
    BY <1>4 DEF Script
  <1> QED
    BY <1>4, <1>5, <1>8, <1>9, <1>10, <1>11 DEF Fine, DeskInv, Apart

----------------------------------------------------------------------------
(* The theorems. *)

LEMMA StepFine ==
    ASSUME DeskInv, NEW s \in Session, Step(s)
    PROVE  Fine(s)
  BY FormFine, RestartFine, MoveFine, ConfirmFine, CreateDraftFine, CreateOrderRowFine,
     SellFine, DeductFine, WriteStatusFine DEF Step

LEMMA DeskInvInit == DeskInit => DeskInv
  <1> SUFFICES ASSUME DeskInit PROVE DeskInv
    OBVIOUS
  <1>1. DeskTypeOK
    BY DeskTypeInit
  <1>2. /\ \A o \in Order : orders[o] = <<>>
        /\ \A o \in Order, p \in Product : stock_movements[o][p] = <<>>
        /\ \A s \in Session : mine[s] = NoOrder /\ pc[s] = "idle" /\ cache[s] = Nothing
    BY DEF DeskInit, SheetsInit
  <1>3. TabsInv
    <2>1. DOMAIN <<>> = {}
      OBVIOUS
    <2> QED
      BY <1>2, <2>1 DEF TabsInv, RowsHaveItems, MovementsMatch, SoldIsBooked
  <1>4. Apart /\ \A s \in Session : Page(s) /\ Script(s)
    BY <1>2 DEF Apart, Page, Script, Nothing, Tabs
  <1> QED
    BY <1>1, <1>3, <1>4 DEF DeskInv

LEMMA DeskInvStep == DeskInv /\ [Next]_vars => DeskInv'
  <1> SUFFICES ASSUME DeskInv, [Next]_vars PROVE DeskInv'
    OBVIOUS
  <1>1. CASE Next
    <2>1. PICK s \in Session : Step(s)
      BY <1>1 DEF Next
    <2>2. DeskTypeOK' /\ \A r \in Session \ {s} : Same(r)
      BY <2>1, DeskTypeStep DEF DeskInv
    <2> QED
      BY <2>1, <2>2, StepFine, FineKeeps
  <1>2. CASE UNCHANGED vars
    <2>1. DeskTypeOK'
      BY <1>2 DEF DeskInv, DeskTypeOK, SheetsTypeOK, Ready, vars, sheetsVars, deskVars, tabs
    <2>2. TabsInv' /\ Apart'
      BY <1>2 DEF DeskInv, TabsInv, RowsHaveItems, MovementsMatch, SoldIsBooked, Apart,
                  vars, sheetsVars, deskVars, tabs
    <2>3. \A s \in Session : Page(s)'
      <3> TAKE s \in Session
      <3>1. /\ cache' = cache /\ mine' = mine /\ orders' = orders
            /\ order_items' = order_items /\ stock_movements' = stock_movements
        BY <1>2 DEF vars, sheetsVars, deskVars, tabs
      <3>2. Page(s)
        BY DEF DeskInv
      <3> QED
        BY <3>1, <3>2 DEF Page, OrdersSeen, MovementsSeen, BookedAll
    <2>4. \A s \in Session : Script(s)'
      BY <1>2 DEF DeskInv, Script, Selling, BookedAll, vars, sheetsVars, deskVars, tabs
    <2> QED
      BY <2>1, <2>2, <2>3, <2>4 DEF DeskInv
  <1> QED
    BY <1>1, <1>2

LEMMA DeskInvariant == Spec => []DeskInv
  BY DeskInvInit, DeskInvStep, PTL DEF Spec

\* An order shown as sold has a movement for each product it asks for: the
\* status is written last, and only by a script that has booked or found booked
\* each sale, or that read a status after the sale (services/orders.py:322).
THEOREM SoldOrdersAreBooked == Spec => []SoldIsBooked
  <1>1. DeskInv => SoldIsBooked
    BY DEF DeskInv, TabsInv
  <1> QED
    BY <1>1, DeskInvariant, PTL

\* The page finds its draft with all of its items, in the sheet and in the
\* cache: create_order writes the items first and drops the cached tabs before
\* it does (storage/sheets.py:672-693).
THEOREM DraftsAreFound == Spec => []DraftIsFound
  <1>1. DeskInv => DraftIsFound
    <2> SUFFICES ASSUME DeskInv PROVE DraftIsFound
      OBVIOUS
    <2>1. \A o \in Order : orders[o] # <<>> => order_items[o] > 0
      BY DEF DeskInv, TabsInv, RowsHaveItems
    <2>2. \A s \in Session : mine[s] # NoOrder =>
             /\ orders[mine[s]] # <<>>
             /\ cache[s]["orders"] # NotLoaded =>
                   /\ Exists(cache[s], mine[s])
                   /\ cache[s]["orders"].items[mine[s]] = order_items[mine[s]]
      BY DEF DeskInv, Page, OrdersSeen, Exists
    <2> QED
      BY <2>1, <2>2 DEF DraftIsFound
  <1> QED
    BY <1>1, DeskInvariant, PTL

\* A script never gets to append a movement that is in the sheet: what was
\* read of the movements of the page's own draft is what is there
\* (services/orders.py:256-285, storage/sheets.py:906-923).
THEOREM RetriesAreNotRefused == Spec => []RetryIsNotRefused
  <1>1. DeskInv => RetryIsNotRefused
    <2> SUFFICES ASSUME DeskInv, NEW s \in Session, pc[s] = "sell", NEW p \in todo[s]
                 PROVE  stock_movements[job[s].order][p] = <<>>
      BY DEF RetryIsNotRefused
    <2>1. p \in Product
      BY SplitType DEF DeskInv, LocalTypeOK
    <2> QED
      BY <2>1 DEF DeskInv, Script, Selling
  <1> QED
    BY <1>1, DeskInvariant, PTL

----------------------------------------------------------------------------
(* Stock and movements *)

\* What the movements leave of the stock of a product, at least.
Floor(p) == OpeningStock[p] - SoldUnits(p)

Covers(rows) == \A p \in Product : rows[p] >= Floor(p)

\* Every stock that may still be written is one that the movements explain: the
\* sheet, what is cached of it, and what a script has read; the product it has
\* booked but not deducted, also after its deduction.
StockInv ==
    /\ Covers(products)
    /\ \A s \in Session :
          /\ cache[s]["products"] # NotLoaded => Covers(cache[s]["products"])
          /\ pc[s] \in {"form", "sell", "deduct"} => Covers(seen[s])
          /\ \A p \in Product : pc[s] = "deduct" /\ selling[s] = p =>
                seen[s][p] - job[s].units[p] >= Floor(p)

\* What the rows of the tab add up to, order by order.
Booking(rows, p) == [o \in Order |-> SumFunction(rows[o][p])]

LEMMA SumOfRows ==
    ASSUME NEW rows \in Seq(Nat)
    PROVE  /\ SumFunction(rows) \in Nat
           /\ \A i \in DOMAIN rows : SumFunction(rows) >= rows[i]
           /\ rows = <<>> => SumFunction(rows) = 0
  <1>1. /\ SumFunction(rows) = Sum(rows, DOMAIN rows)
        /\ IsFiniteSet(DOMAIN rows) /\ \A i \in DOMAIN rows : rows[i] \in Nat
    <2>1. DOMAIN rows = 1..Len(rows) /\ Len(rows) \in Nat
      OBVIOUS
    <2>2. IsFiniteSet(1..Len(rows))
      BY <2>1, FS_Interval
    <2> QED
      BY <2>1, <2>2 DEF SumFunction, Sum
  <1>2. rows = <<>> => DOMAIN rows = {}
    OBVIOUS
  <1>3. Sum(rows, {}) = 0
    BY SumTakes, FS_EmptySet
  <1>4. rows = <<>> => SumFunction(rows) = 0
    BY <1>1, <1>2, <1>3, Zenon
  <1>5. Sum(rows, DOMAIN rows) \in Nat /\ \A i \in DOMAIN rows : Sum(rows, DOMAIN rows) >= rows[i]
    <2> DEFINE D == DOMAIN rows
    <2>1. IsFiniteSet(D) /\ \A i \in D : rows[i] \in Nat
      BY <1>1
    <2> HIDE DEF D
    <2>2. Sum(rows, D) \in Nat /\ \A i \in D : Sum(rows, D) >= rows[i]
      BY <2>1, SumIsNumber, SumAtLeast
    <2> QED
      BY <2>2 DEF D
  <1> QED
    BY <1>1, <1>4, <1>5

LEMMA BookingIs ==
    ASSUME IsFiniteSet(Order), NEW rows \in MovementRows, NEW p \in Product
    PROVE  /\ SumFunction(Booking(rows, p)) = Sum(Booking(rows, p), Order)
           /\ SumFunction(Booking(rows, p)) \in Nat
           /\ \A o \in Order : /\ Booking(rows, p)[o] = SumFunction(rows[o][p])
                               /\ Booking(rows, p)[o] \in Nat
  <1>1. SumFunction(Booking(rows, p)) = Sum(Booking(rows, p), Order)
    <2>1. DOMAIN Booking(rows, p) = Order
      BY DEF Booking
    <2> QED
      BY <2>1 DEF SumFunction, Sum
  <1>2. \A o \in Order : /\ Booking(rows, p)[o] = SumFunction(rows[o][p])
                         /\ Booking(rows, p)[o] \in Nat
    <2> TAKE o \in Order
    <2>1. rows[o][p] \in Seq(Nat)
      BY DEF MovementRows
    <2> QED
      BY <2>1, SumOfRows DEF Booking
  <1>3. Sum(Booking(rows, p), Order) \in Nat
    BY <1>2, SumIsNumber
  <1> QED
    BY <1>1, <1>2, <1>3

LEMMA SoldUnitsAre ==
    ASSUME IsFiniteSet(Order)
    PROVE  /\ SheetsTypeOK => \A p \in Product : SoldUnits(p) \in Nat
           /\ SheetsTypeOK' => \A p \in Product : SoldUnits(p)' \in Nat
  BY BookingIs DEF SoldUnits, Booking, SheetsTypeOK

\* A movement that is appended where there was none adds its units, once or
\* more often, and takes none from another product.
LEMMA MovementAdds ==
    ASSUME IsFiniteSet(Order), SheetsTypeOK, SheetsTypeOK',
           NEW s \in Session, NEW o \in Order, NEW p \in Product, NEW units \in Nat,
           NEW n \in Copies, stock_movements[o][p] = <<>>,
           AppendMovement(s, o, p, units, n)
    PROVE  /\ \A q \in Product : SoldUnits(q)' >= SoldUnits(q)
           /\ n > 0 => SoldUnits(p)' >= SoldUnits(p) + units
  <1> DEFINE new == Appended(<<>>, units, n)
  <1>1. /\ stock_movements'[o][p] = new
        /\ \A q \in Product, b \in Order :
              q # p \/ b # o => stock_movements'[b][q] = stock_movements[b][q]
    BY DEF AppendMovement, SheetsTypeOK, MovementRows
  <1>2. stock_movements'[o][p] \in Seq(Nat)
    BY DEF SheetsTypeOK, MovementRows
  <1>3. n > 0 => new # <<>> /\ \A i \in DOMAIN new : new[i] = units
    BY AppendedAlone
  <1> HIDE DEF new
  <1>4. n > 0 => SumFunction(new) >= units
    <2> SUFFICES ASSUME n > 0 PROVE SumFunction(new) >= units
      OBVIOUS
    <2>1. new \in Seq(Nat) /\ new # <<>>
      BY <1>1, <1>2, <1>3
    <2>2. 1 \in DOMAIN new
      BY <2>1
    <2> QED
      BY <1>3, <2>1, <2>2, SumOfRows
  <1>5. SumFunction(new) \in Nat /\ SumFunction(stock_movements[o][p]) = 0
    <2>1. new \in Seq(Nat) /\ stock_movements[o][p] \in Seq(Nat)
      BY <1>1, <1>2
    <2> QED
      BY <2>1, SumOfRows
  <1> DEFINE old(q) == Booking(stock_movements, q)
             now(q) == Booking(stock_movements', q)
  <1>6. \A q \in Product :
           /\ SoldUnits(q) = Sum(old(q), Order) /\ SoldUnits(q) \in Nat
           /\ SoldUnits(q)' = Sum(now(q), Order) /\ SoldUnits(q)' \in Nat
           /\ \A b \in Order : /\ old(q)[b] = SumFunction(stock_movements[b][q])
                               /\ now(q)[b] = SumFunction(stock_movements'[b][q])
                               /\ old(q)[b] \in Nat /\ now(q)[b] \in Nat
    <2> TAKE q \in Product
    <2>1. stock_movements \in MovementRows /\ stock_movements' \in MovementRows
      BY DEF SheetsTypeOK
    <2>2. /\ SoldUnits(q) = SumFunction(old(q))
          /\ SoldUnits(q)' = SumFunction(now(q))
      BY DEF SoldUnits, Booking
    <2> QED
      BY <2>1, <2>2, BookingIs
  <1> HIDE DEF old, now
  <1>7. \A q \in Product : q # p => SoldUnits(q)' = SoldUnits(q)
    <2> SUFFICES ASSUME NEW q \in Product, q # p PROVE SoldUnits(q)' = SoldUnits(q)
      OBVIOUS
    <2>1. \A b \in Order : now(q)[b] = old(q)[b]
      BY <1>1, <1>6
    <2>2. Sum(now(q), Order) = Sum(old(q), Order)
      BY <2>1, SumAgrees
    <2> QED
      BY <1>6, <2>2
  <1>8. SoldUnits(p)' = SoldUnits(p) + SumFunction(new)
    <2>1. \A b \in Order : /\ old(p)[b] = SumFunction(stock_movements[b][p])
                           /\ now(p)[b] = SumFunction(stock_movements'[b][p])
                           /\ old(p)[b] \in Int /\ now(p)[b] \in Int
      BY <1>6
    <2>2. /\ Sum(old(p), Order) = SoldUnits(p) /\ Sum(now(p), Order) = SoldUnits(p)'
          /\ SoldUnits(p) \in Nat
      BY <1>6
    <2>3. old(p)[o] = 0 /\ now(p)[o] = SumFunction(new)
      <3>1. stock_movements'[o][p] = new
        BY <1>1
      <3>2. SumFunction(stock_movements'[o][p]) = SumFunction(new)
        BY <3>1, Zenon
      <3> QED
        BY <1>5, <2>1, <3>2
    <2>4. \A b \in Order \ {o} : old(p)[b] = now(p)[b]
      <3> TAKE b \in Order \ {o}
      <3>1. stock_movements'[b][p] = stock_movements[b][p]
        BY <1>1
      <3>2. SumFunction(stock_movements'[b][p]) = SumFunction(stock_movements[b][p])
        BY <3>1, Zenon
      <3> QED
        BY <2>1, <3>2
    <2>5. \A b \in Order : old(p)[b] \in Int /\ now(p)[b] \in Int
      BY <2>1
    <2>6. \E f, g : f = old(p) /\ g = now(p)
      OBVIOUS
    <2>7. PICK f, g : f = old(p) /\ g = now(p)
      BY <2>6
    <2>8. Sum(g, Order) = Sum(f, Order) + (g[o] - f[o])
      <3>1. /\ \A b \in Order : f[b] \in Int /\ g[b] \in Int
            /\ \A b \in Order \ {o} : f[b] = g[b]
        BY <2>4, <2>5, <2>7
      <3> HIDE SheetsAssumption, DeskAssumption
      <3> QED
        BY <3>1, SumChanges
    <2>9. Sum(g, Order) = SoldUnits(p)' /\ Sum(f, Order) = SoldUnits(p)
      <3>1. Sum(g, Order) = Sum(now(p), Order) /\ Sum(f, Order) = Sum(old(p), Order)
        BY <2>7, Zenon
      <3> QED
        BY <2>2, <3>1
    <2> QED
      BY <1>5, <2>2, <2>3, <2>7, <2>8, <2>9
  <1>9. \A q \in Product : SoldUnits(q)' >= SoldUnits(q)
    <2> TAKE q \in Product
    <2>1. CASE q = p
      BY <1>5, <1>6, <1>8, <2>1
    <2>2. CASE q # p
      BY <1>6, <1>7, <2>2
    <2> QED
      BY <2>1, <2>2
  <1> QED
    BY <1>4, <1>5, <1>6, <1>8, <1>9

LEMMA StillCovers ==
    ASSUME NEW rows \in ProductRows, Covers(rows), NEW p \in Product,
           SoldUnits(p) \in Nat, SoldUnits(p)' \in Nat, SoldUnits(p)' >= SoldUnits(p)
    PROVE  rows[p] >= Floor(p)'
  <1>1. rows[p] \in Nat /\ OpeningStock[p] \in Nat /\ rows[p] >= OpeningStock[p] - SoldUnits(p)
    BY DEF ProductRows, Covers, Floor
  <1>2. Floor(p)' = OpeningStock[p] - SoldUnits(p)'
    BY DEF Floor
  <1> QED
    BY <1>1, <1>2

\* What every step of a session has to respect.
LEMMA StockKept ==
    ASSUME DeskTypeOK, DeskTypeOK', StockInv, IsFiniteSet(Order),
           NEW s \in Session, \A r \in Session \ {s} : Same(r),
           \A p \in Product : SoldUnits(p)' >= SoldUnits(p),
           \A p \in Product : products'[p] = products[p] \/ products'[p] >= Floor(p)',
           \A r \in Session :
              cache'[r]["products"] \in {cache[r]["products"], products, NotLoaded},
           pc'[s] \in {"form", "sell", "deduct"} =>
              \/ pc[s] \in {"form", "sell", "deduct"} /\ seen'[s] = seen[s]
              \/ seen'[s] \in {products, cache[s]["products"]} \ {NotLoaded},
           \A p \in Product : pc'[s] = "deduct" /\ selling'[s] = p =>
              seen'[s][p] - job'[s].units[p] >= Floor(p)'
    PROVE  StockInv'
  <1>1. \A p \in Product : SoldUnits(p) \in Nat /\ SoldUnits(p)' \in Nat
    <2>1. SheetsTypeOK /\ SheetsTypeOK'
      BY DEF DeskTypeOK
    <2> QED
      BY <2>1, SoldUnitsAre
  <1>2. \A rows \in ProductRows : Covers(rows) => \A p \in Product : rows[p] >= Floor(p)'
    BY <1>1, StillCovers
  <1>3. /\ products \in ProductRows
        /\ \A r \in Session : cache[r]["products"] \in ProductRows \cup {NotLoaded}
        /\ \A r \in Session : seen[r] \in ProductRows \cup {NotLoaded}
        /\ \A r \in Session : pc[r] \in {"form", "sell", "deduct"} => seen[r] # NotLoaded
    BY DEF DeskTypeOK, SheetsTypeOK, Ready
  <1>4. Covers(products)'
    BY <1>2, <1>3 DEF StockInv, Covers
  <1>5. \A r \in Session : cache'[r]["products"] # NotLoaded =>
            \A p \in Product : cache'[r]["products"][p] >= Floor(p)'
    BY <1>2, <1>3 DEF StockInv
  <1>6. \A r \in Session : pc'[r] \in {"form", "sell", "deduct"} =>
            \A p \in Product : seen'[r][p] >= Floor(p)'
    <2> TAKE r \in Session
    <2>1. CASE r = s
      BY <1>2, <1>3, <2>1 DEF StockInv
    <2>2. CASE r # s
      BY <1>2, <1>3, <2>2 DEF StockInv, Same
    <2> QED
      BY <2>1, <2>2
  <1>7. \A r \in Session, p \in Product : pc'[r] = "deduct" /\ selling'[r] = p =>
            seen'[r][p] - job'[r].units[p] >= Floor(p)'
    <2> TAKE r \in Session, p \in Product
    <2>1. CASE r # s /\ pc[r] = "deduct" /\ selling[r] = p
      <3>1. /\ seen[r][p] - job[r].units[p] >= OpeningStock[p] - SoldUnits(p)
            /\ seen[r][p] \in Nat /\ job[r].units[p] \in Nat /\ OpeningStock[p] \in Nat
        <4>1. seen[r] \in ProductRows /\ job[r] \in Requests
          BY <1>3, <2>1 DEF DeskTypeOK
        <4> QED
          BY <2>1, <4>1 DEF StockInv, Floor, ProductRows, Requests
      <3>2. Floor(p)' = OpeningStock[p] - SoldUnits(p)'
        BY DEF Floor
      <3>3. seen[r][p] - job[r].units[p] >= Floor(p)'
        BY <1>1, <3>1, <3>2
      <3> QED
        BY <2>1, <3>3 DEF Same
    <2>2. CASE ~(r # s /\ pc[r] = "deduct" /\ selling[r] = p)
      BY <2>2 DEF Same
    <2> QED
      BY <2>1, <2>2
  <1> QED
    BY <1>4, <1>5, <1>6, <1>7 DEF StockInv, Covers

\* The other writes change no stock, and only drop what is cached.
LEMMA CachedProducts ==
    ASSUME SheetsTypeOK, NEW s \in Session, NEW T,
           \/ UNCHANGED cache
           \/ cache' = Invalidated(s, T)
           \/ cache' = [cache EXCEPT ![s] = Nothing]
           \/ \E e : Remember(s, View(s, e), T)
    PROVE  \A r \in Session :
              cache'[r]["products"] \in {cache[r]["products"], products, NotLoaded}
  <1> TAKE r \in Session
  <1>1. "products" \in Tabs /\ AllRecords("products") = products
    BY DEF Tabs, AllRecords
  <1>2. cache = [q \in Session |-> [t \in Tabs |-> cache[q][t]]]
    BY CacheType
  <1>3. CASE UNCHANGED cache
    BY <1>3
  <1>4. CASE cache' = Invalidated(s, T)
    BY <1>1, <1>4, InvalidatedIs
  <1>5. CASE cache' = [cache EXCEPT ![s] = Nothing]
    <2>1. cache'[r] \in {cache[r], Nothing}
      BY <1>2, <1>5
    <2>2. Nothing["products"] = NotLoaded
      BY <1>1 DEF Nothing
    <2> QED
      BY <2>1, <2>2
  <1>6. CASE \E e : Remember(s, View(s, e), T)
    <2>1. PICK e : Remember(s, View(s, e), T)
      BY <1>6
    <2>2. /\ \A q \in Session \ {s} : cache'[q] = cache[q]
          /\ cache'[s]["products"] \in {View(s, e)["products"], cache[s]["products"]}
      BY <1>1, <2>1, Remembered
    <2>3. View(s, e)["products"] \in {products, cache[s]["products"]}
      BY <1>1, ViewIs
    <2> QED
      BY <2>2, <2>3
  <1> QED
    BY <1>3, <1>4, <1>5, <1>6

LEMMA StockStep ==
    ASSUME IsFiniteSet(Order), DeskInv, DeskTypeOK', StockInv,
           NEW s \in Session, Step(s), \A r \in Session \ {s} : Same(r)
    PROVE  StockInv'
  <1>1. /\ DeskTypeOK /\ SheetsTypeOK /\ LocalTypeOK /\ SheetsTypeOK'
        /\ Ready(s) /\ job[s] \in Requests
    BY SplitType DEF DeskInv, DeskTypeOK, LocalTypeOK
  <1>2. ASSUME UNCHANGED stock_movements
        PROVE \A p \in Product : SoldUnits(p)' >= SoldUnits(p)
    <2> TAKE p \in Product
    <2>1. SoldUnits(p)' = SoldUnits(p) /\ SoldUnits(p) \in Nat
      BY <1>1, <1>2, SoldUnitsAre DEF SoldUnits
    <2> QED
      BY <2>1
  <1>3. ASSUME End(s)
        PROVE pc'[s] = "idle"
    BY <1>1, <1>3 DEF End, Goto, LocalTypeOK
  <1>4. CASE OpenForm(s)
    <2>1. PICK e : /\ Remember(s, View(s, e), {"products"})
                   /\ seen' = [seen EXCEPT ![s] = View(s, e)["products"]]
      BY <1>4 DEF OpenForm
    <2>2. UNCHANGED <<products, stock_movements>> /\ pc'[s] = "form"
      BY <1>1, <1>4 DEF OpenForm, Goto, LocalTypeOK, tabs
    <2>3. seen'[s] \in {products, cache[s]["products"]} \ {NotLoaded}
      <3>1. View(s, e)["products"] \in {products, cache[s]["products"]} \ {NotLoaded}
        BY <1>1, ViewIs DEF Tabs, AllRecords
      <3> QED
        BY <1>1, <2>1, <3>1 DEF LocalTypeOK
    <2>4. \A r \in Session :
              cache'[r]["products"] \in {cache[r]["products"], products, NotLoaded}
      BY <1>1, <2>1, CachedProducts
    <2> QED
      BY <1>1, <1>2, <2>2, <2>3, <2>4, StockKept
  <1>5. CASE ShowOrders(s) \/ Restart(s)
    <2>1. UNCHANGED <<products, stock_movements>> /\ pc'[s] = "idle"
      BY <1>3, <1>5 DEF ShowOrders, Restart, tabs
    <2>2. \A r \in Session :
              cache'[r]["products"] \in {cache[r]["products"], products, NotLoaded}
      BY <1>1, <1>5, CachedProducts DEF ShowOrders, Restart
    <2> QED
      BY <1>1, <1>2, <2>1, <2>2, StockKept
  <1>6. CASE Confirm(s)
    <2>1. \E e : Remember(s, View(s, e), {"orders", "stock_movements"})
      BY <1>6 DEF Confirm
    <2>2. UNCHANGED <<products, stock_movements>> /\ pc[s] = "form"
      BY <1>6 DEF Confirm, tabs
    <2>3. pc'[s] = "idle" \/ (pc'[s] \in {"status", "sell"} /\ UNCHANGED seen)
      BY <1>1, <1>3, <1>6 DEF Confirm, Goto, LocalTypeOK
    <2>4. \A r \in Session :
              cache'[r]["products"] \in {cache[r]["products"], products, NotLoaded}
      BY <1>1, <2>1, CachedProducts
    <2> QED
      BY <1>1, <1>2, <2>2, <2>3, <2>4, StockKept
  <1>7. CASE \E o \in Order : Move(s, o)
    <2>1. \E e : Remember(s, View(s, e), {"orders"})
      BY <1>7 DEF Move
    <2>2. UNCHANGED <<products, stock_movements>> /\ pc'[s] = "status"
      BY <1>1, <1>7 DEF Move, Goto, LocalTypeOK, tabs
    <2>3. \A r \in Session :
              cache'[r]["products"] \in {cache[r]["products"], products, NotLoaded}
      BY <1>1, <2>1, CachedProducts
    <2> QED
      BY <1>1, <1>2, <2>2, <2>3, StockKept
  <1>8. CASE CreateOrderRow(s) \/ WriteStatus(s) \/ \E o \in Order : CreateDraft(s, o)
    <2>1. UNCHANGED <<products, stock_movements>>
      BY <1>8 DEF CreateOrderRow, WriteStatus, CreateDraft, AppendOrder, AppendItems,
                  UpdateOrderStatus
    <2>2. pc'[s] \in {"idle", "order_row"}
      BY <1>1, <1>3, <1>8 DEF CreateOrderRow, WriteStatus, CreateDraft, Goto, LocalTypeOK
    <2>3. UNCHANGED cache \/ cache' = Invalidated(s, {"orders"})
      BY <1>8 DEF CreateOrderRow, WriteStatus, CreateDraft, AppendOrder, AppendItems,
                  UpdateOrderStatus
    <2>4. \A r \in Session :
              cache'[r]["products"] \in {cache[r]["products"], products, NotLoaded}
      BY <1>1, <2>3, CachedProducts
    <2> QED
      BY <1>1, <1>2, <2>1, <2>2, <2>4, StockKept
  <1>9. CASE \E p \in Product : Sell(s, p)
    <2>1. PICK p \in Product : Sell(s, p)
      BY <1>9
    <2>2. PICK o \in Order : o = job[s].order
      BY <1>1, <2>1 DEF Sell, Ready
    <2>3. pc[s] = "sell" /\ p \in todo[s] /\ job[s].units[p] \in Nat
      BY <1>1, <2>1 DEF Sell, Requests
    <2>4. CASE stock_movements[o][p] # <<>>
      <3>1. End(s) /\ UNCHANGED <<products, stock_movements, cache>>
        BY <2>1, <2>2, <2>4 DEF Sell, sheetsVars, tabs
      <3> QED
        BY <1>1, <1>2, <1>3, <3>1, StockKept
    <2>5. CASE stock_movements[o][p] = <<>>
      <3>1. PICK n \in Copies, ok \in BOOLEAN :
               /\ Call(n, ok)
               /\ AppendMovement(s, o, p, job[s].units[p], n)
               /\ IF ok THEN /\ Goto(s, "deduct")
                             /\ selling' = [selling EXCEPT ![s] = p]
                             /\ UNCHANGED <<seen, job, todo>>
                  ELSE End(s)
        BY <2>1, <2>2, <2>5 DEF Sell
      <3>2. /\ \A q \in Product : SoldUnits(q)' >= SoldUnits(q)
            /\ n > 0 => SoldUnits(p)' >= SoldUnits(p) + job[s].units[p]
        BY <1>1, <2>3, <2>5, <3>1, MovementAdds
      <3>3. /\ UNCHANGED products
            /\ \A r \in Session :
                  cache'[r]["products"] \in {cache[r]["products"], products, NotLoaded}
        BY <1>1, <3>1, CachedProducts DEF AppendMovement
      <3>4. CASE ok
        <4>1. /\ pc'[s] = "deduct" /\ selling'[s] = p
              /\ seen'[s] = seen[s] /\ job'[s] = job[s]
          BY <1>1, <3>1, <3>4 DEF Goto, LocalTypeOK
        <4>2. seen[s][p] - job[s].units[p] >= Floor(p)'
          <5>1. /\ seen[s][p] >= OpeningStock[p] - SoldUnits(p)
                /\ seen[s][p] \in Nat /\ OpeningStock[p] \in Nat
            <6>1. seen[s] \in ProductRows
              BY <1>1, <2>3 DEF Ready, LocalTypeOK
            <6> QED
              BY <2>3, <6>1 DEF StockInv, Covers, Floor, ProductRows
          <5>2. SoldUnits(p)' >= SoldUnits(p) + job[s].units[p]
            BY <3>1, <3>2, <3>4, CallIs
          <5>3. SoldUnits(p) \in Nat /\ SoldUnits(p)' \in Nat
            BY <1>1, SoldUnitsAre
          <5>4. Floor(p)' = OpeningStock[p] - SoldUnits(p)'
            BY DEF Floor
          <5> QED
            BY <2>3, <5>1, <5>2, <5>3, <5>4
        <4> QED
          BY <1>1, <2>3, <3>2, <3>3, <4>1, <4>2, StockKept
      <3>5. CASE ~ok
        <4>1. pc'[s] = "idle"
          BY <1>3, <3>1, <3>5
        <4> QED
          BY <1>1, <3>2, <3>3, <4>1, StockKept
      <3> QED
        BY <3>4, <3>5
    <2> QED
      BY <2>4, <2>5
  <1>10. CASE Deduct(s)
    <2>1. PICK p \in Product : p = selling[s]
      BY <1>1, <1>10 DEF Deduct, Ready, LocalTypeOK
    <2> DEFINE left == todo[s] \ {p}
    <2>2. PICK n \in Copies, ok \in BOOLEAN :
             /\ UpsertProduct(s, p, seen[s][p] - job[s].units[p], n)
             /\ IF ok THEN /\ Goto(s, IF left = {} THEN "status" ELSE "sell")
                           /\ todo' = [todo EXCEPT ![s] = left]
                           /\ selling' = [selling EXCEPT ![s] = NoProduct]
                           /\ UNCHANGED <<seen, job>>
                ELSE End(s)
      BY <1>10, <2>1 DEF Deduct
    <2> HIDE DEF left
    <2>3. pc[s] = "deduct" /\ UNCHANGED stock_movements
      BY <1>10, <2>2 DEF Deduct, UpsertProduct
    <2>4. \A q \in Product : Floor(q)' = Floor(q)
      BY <2>3 DEF Floor, SoldUnits
    <2>5. \A q \in Product : products'[q] = products[q] \/ products'[q] >= Floor(q)'
      <3>1. seen[s][p] - job[s].units[p] >= Floor(p)
        BY <2>1, <2>3 DEF StockInv
      <3> QED
        BY <1>1, <2>2, <2>4, <3>1 DEF UpsertProduct, SheetsTypeOK, ProductRows
    <2>6. pc'[s] = "idle" \/ (pc'[s] \in {"status", "sell"} /\ UNCHANGED seen)
      BY <1>1, <1>3, <2>2 DEF Goto, LocalTypeOK
    <2>7. \A r \in Session :
              cache'[r]["products"] \in {cache[r]["products"], products, NotLoaded}
      BY <1>1, <2>2, CachedProducts DEF UpsertProduct
    <2> QED
      BY <1>1, <1>2, <2>3, <2>5, <2>6, <2>7, StockKept
  <1> QED
    BY <1>4, <1>5, <1>6, <1>7, <1>8, <1>9, <1>10 DEF Step

\* Without transactions, with writes that are lost, repeated or made of an old
\* reading, the stock in the sheet may miss sales, and never has less than the
\* sale movements explain: no failure takes a product twice or unbooked
\* (services/orders.py:302-316: the movement first, then the stock).
THEOREM StockCoversMovementsAlways ==
    ASSUME IsFiniteSet(Order)
    PROVE  Spec => []StockCoversMovements
  <1>1. DeskInit => StockInv
    <2> SUFFICES ASSUME DeskInit PROVE StockInv
      OBVIOUS
    <2>1. DeskTypeOK /\ DeskInit /\ SheetsInit
      BY DeskTypeInit DEF DeskInit
    <2>2. Covers(products)
      <3> SUFFICES ASSUME NEW p \in Product PROVE products[p] >= Floor(p)
        BY DEF Covers
      <3>1. SoldUnits(p) \in Nat
        BY <2>1, SoldUnitsAre DEF DeskTypeOK
      <3>2. products[p] = OpeningStock[p] /\ OpeningStock[p] \in Nat
        BY <2>1 DEF SheetsInit
      <3> QED
        BY <3>1, <3>2 DEF Floor
    <2>3. \A s \in Session : cache[s]["products"] = NotLoaded /\ pc[s] = "idle"
      <3>1. "products" \in Tabs
        BY DEF Tabs
      <3>2. \A s \in Session : cache[s] = Nothing /\ pc[s] = "idle"
        BY <2>1 DEF DeskInit, SheetsInit
      <3> QED
        BY <3>1, <3>2 DEF Nothing
    <2> QED
      BY <2>2, <2>3 DEF StockInv
  <1>2. DeskInv /\ DeskInv' /\ StockInv /\ [Next]_vars => StockInv'
    <2> SUFFICES ASSUME DeskInv, DeskInv', StockInv, [Next]_vars PROVE StockInv'
      OBVIOUS
    <2>1. CASE Next
      <3>1. PICK s \in Session : Step(s)
        BY <2>1 DEF Next
      <3>2. DeskTypeOK' /\ \A r \in Session \ {s} : Same(r)
        BY <3>1, DeskTypeStep DEF DeskInv
      <3> QED
        BY <3>1, <3>2, StockStep
    <2>2. CASE UNCHANGED vars
      BY <2>2 DEF StockInv, Covers, Floor, SoldUnits, vars, sheetsVars, deskVars, tabs
    <2> QED
      BY <2>1, <2>2
  <1>3. StockInv => StockCoversMovements
    BY DEF StockInv, Covers, Floor, StockCoversMovements
  <1> QED
    BY <1>1, <1>2, <1>3, DeskInvariant, PTL DEF Spec
==============================================================================
