----------------------------- MODULE OrderProofs -----------------------------
(***************************************************************************)
(* Theorems about OrderLifecycle and OutboundAck for any orders, products,   *)
(* stock, desks and limit of attempts.  LifecycleInv and AckInv are the       *)
(* inductive invariants: besides what a status says of its order, the first  *)
(* says what a request at work may still write; the second says what an        *)
(* acknowledgement and its holder know.  What AckInv needs to know of sales    *)
(* comes from the theorems about OrderLifecycle, whose steps are the only      *)
(* ones that touch the orders.                                              *)
(***************************************************************************)
EXTENDS OutboundAck, SumProofs

\* A stale request writes a status after the sale only for an order that was
\* sold, and never "confirmed"; only a draft or an approved order is on its
\* way to a sale.
Backed(d) ==
    /\ pc[d] = "write" => /\ job[d].to # "confirmed"
                          /\ job[d].to \in AfterSale => WasSold(job[d].order)
    /\ pc[d] \in {"check", "stock", "commit"} => job[d].from \in {"draft", "approved"}

RequestsAreBacked == \A d \in Desk : Backed(d)

\* Every confirmation in the log has its movements.
LogIsBacked ==
    \A o \in Order, from \in Status :
        <<o, from, "confirmed">> \in log => Movements(o) \subseteq sold

LifecycleInv ==
    /\ LifecycleTypeOK
    /\ PreparedIsSold
    /\ RequestsAreBacked
    /\ LogIsBacked

----------------------------------------------------------------------------
USE LifecycleAssumption

\* Rows are only ever added, so that an order once sold stays sold.
LEMMA RowsStay ==
    ASSUME sold \subseteq sold', log \subseteq log', NEW o \in Order, WasSold(o)
    PROVE  WasSold(o)'
  BY DEF WasSold, Movements, Items

LEMMA LifecycleTypeStep ==
    ASSUME LifecycleTypeOK, [LifecycleNext]_lifecycleVars
    PROVE  LifecycleTypeOK'
  <1> USE DEF LifecycleTypeOK
  <1>1. ASSUME NEW o \in Order, Place(o)
        PROVE LifecycleTypeOK'
    BY <1>1 DEF Place, Status, Prepared
  <1>2. ASSUME NEW d \in Desk, NEW o \in Order, NEW to \in Status, Ask(d, o, to)
        PROVE LifecycleTypeOK'
    <2> DEFINE new == [NoJob EXCEPT !.order = o, !.to = to, !.from = status[o]]
    <2>1. new \in Job /\ new.order = o
      BY DEF NoJob, Job, Status
    <2>2. job' = [job EXCEPT ![d] = new]
      BY <1>2 DEF Ask
    <2>3. \E stage \in {"write", "check"} : pc' = [pc EXCEPT ![d] = stage]
      BY <1>2 DEF Ask, Goto
    <2> HIDE DEF new
    <2>4. \A e \in Desk : Prepared(e)'
      BY <2>1, <2>2, <2>3 DEF Prepared
    <2> QED
      BY <1>2, <2>1, <2>2, <2>3, <2>4 DEF Ask, orderVars
  <1>3. ASSUME NEW d \in Desk, Return(d)
        PROVE /\ pc' \in [Desk -> {"idle", "write", "check", "stock", "commit"}]
              /\ job' \in [Desk -> Job]
              /\ \A e \in Desk : Prepared(e)'
    <2>1. NoJob \in Job
      BY DEF NoJob, Job, Status
    <2> QED
      BY <1>3, <2>1 DEF Return, Goto, Prepared
  <1>4. ASSUME NEW d \in Desk, Write(d)
        PROVE LifecycleTypeOK'
    <2>1. job[d].order \in Order /\ job[d] \in Job
      BY <1>4 DEF Write, Prepared
    <2> QED
      BY <1>3, <1>4, <2>1 DEF Write, Job
  <1>5. ASSUME NEW d \in Desk, CheckStatus(d)
        PROVE LifecycleTypeOK'
    <2>1. CASE Return(d)
      BY <1>3, <1>5, <2>1 DEF CheckStatus, orderVars
    <2>2. CASE Goto(d, "stock") /\ UNCHANGED job
      BY <1>5, <2>2 DEF CheckStatus, Goto, orderVars, Prepared
    <2> QED
      BY <1>5, <2>1, <2>2 DEF CheckStatus
  <1>6. ASSUME NEW d \in Desk, ReadStock(d)
        PROVE LifecycleTypeOK'
    <2>1. CASE Return(d)
      BY <1>3, <1>6, <2>1 DEF ReadStock, orderVars
    <2>2. CASE /\ \A p \in Items(job[d].order) : Quantity[job[d].order][p] <= stock[p]
               /\ Goto(d, "commit")
               /\ job' = [job EXCEPT ![d].seen = stock]
      <3> DEFINE new == [job[d] EXCEPT !.seen = stock]
      <3>1. job[d].order \in Order /\ job[d] \in Job
        BY <1>6 DEF ReadStock, Prepared
      <3>2. new \in Job /\ new.order = job[d].order /\ new.seen = stock
        BY <3>1 DEF Job
      <3>3. job' = [job EXCEPT ![d] = new]
        BY <2>2
      <3> HIDE DEF new
      <3>4. \A p \in Product : Quantity[job[d].order][p] <= stock[p]
        BY <2>2, <3>1 DEF Items
      <3>5. \A e \in Desk : Prepared(e)'
        BY <2>2, <3>1, <3>2, <3>3, <3>4 DEF Prepared, Goto
      <3>6. pc' \in [Desk -> {"idle", "write", "check", "stock", "commit"}]
        BY <2>2 DEF Goto
      <3>7. job' \in [Desk -> Job]
        BY <3>2, <3>3
      <3>8. UNCHANGED orderVars
        BY <1>6 DEF ReadStock
      <3> QED
        BY <3>5, <3>6, <3>7, <3>8 DEF orderVars
    <2> QED
      BY <1>6, <2>1, <2>2 DEF ReadStock
  <1>7. ASSUME NEW d \in Desk, CommitSale(d)
        PROVE LifecycleTypeOK'
    <2> DEFINE o == job[d].order
    <2>1. /\ o \in Order /\ job[d] \in Job
          /\ \A p \in Product : Quantity[o][p] <= job[d].seen[p]
      BY <1>7 DEF CommitSale, Prepared
    <2>2. \A p \in Product : job[d].seen[p] - Quantity[o][p] \in Nat
      BY <2>1 DEF Job
    <2>3. Movements(o) \subseteq Order \X Product
      BY <2>1 DEF Movements, Items
    <2>4. Return(d)
      BY <1>7 DEF CommitSale
    <2>5. CASE UNCHANGED orderVars
      BY <1>3, <2>4, <2>5 DEF orderVars
    <2>6. CASE /\ sold' = sold \cup Movements(o)
               /\ stock' = [p \in Product |-> IF p \in Items(o)
                                              THEN job[d].seen[p] - Quantity[o][p]
                                              ELSE stock[p]]
               /\ status' = [status EXCEPT ![o] = "confirmed"]
               /\ log' = log \cup {<<o, job[d].from, "confirmed">>}
      <3>1. stock' \in [Product -> Nat]
        BY <2>2, <2>6
      <3>2. status' \in [Order -> Status] /\ log' \subseteq Order \X Status \X Status
        BY <2>1, <2>6 DEF Status, Job
      <3> QED
        BY <1>3, <2>3, <2>4, <2>6, <3>1, <3>2
    <2> QED
      BY <1>7, <2>5, <2>6 DEF CommitSale
  <1>8. ASSUME NEW d \in Desk, Fail(d)
        PROVE LifecycleTypeOK'
    BY <1>3, <1>8 DEF Fail, orderVars
  <1>9. CASE UNCHANGED lifecycleVars
    BY <1>9 DEF lifecycleVars, orderVars, Prepared
  <1> QED
    BY <1>1, <1>2, <1>4, <1>5, <1>6, <1>7, <1>8, <1>9 DEF LifecycleNext, DeskStep

\* Every step adds at most one log row: of a placed order, of a stale request
\* or of a sale.  A sale adds the movements with it, and only where there were
\* none.
LEMMA LogGrows ==
    ASSUME LifecycleTypeOK, RequestsAreBacked, [LifecycleNext]_lifecycleVars
    PROVE  /\ sold \subseteq sold'
           /\ log \subseteq log'
           /\ \A o \in Order, from \in Status :
                 <<o, from, "confirmed">> \in log' \ log =>
                     Movements(o) \subseteq sold' /\ Movements(o) \cap sold = {}
           /\ \A o \in Order : status'[o] # status[o] =>
                 \/ status'[o] \notin AfterSale
                 \/ status'[o] # "confirmed" /\ WasSold(o)
                 \/ WasSold(o)' /\ Movements(o) \cap sold = {}
  <1> USE DEF LifecycleTypeOK
  <1>1. ASSUME NEW o \in Order, Place(o)
        PROVE /\ sold' = sold
              /\ log' = log \cup {<<o, "none", "draft">>}
              /\ status' = [status EXCEPT ![o] = "draft"]
    BY <1>1 DEF Place
  <1>2. ASSUME NEW d \in Desk, Write(d)
        PROVE /\ job[d].order \in Order
              /\ sold' = sold
              /\ log' = log \cup {<<job[d].order, job[d].from, job[d].to>>}
              /\ status' = [status EXCEPT ![job[d].order] = job[d].to]
              /\ job[d].to # "confirmed"
              /\ job[d].to \in AfterSale => WasSold(job[d].order)
    BY <1>2 DEF Write, Prepared, RequestsAreBacked, Backed
  <1>3. ASSUME NEW d \in Desk, CommitSale(d), ~UNCHANGED orderVars
        PROVE /\ job[d].order \in Order
              /\ Movements(job[d].order) \cap sold = {}
              /\ sold' = sold \cup Movements(job[d].order)
              /\ log' = log \cup {<<job[d].order, job[d].from, "confirmed">>}
              /\ status' = [status EXCEPT ![job[d].order] = "confirmed"]
              /\ job[d].from \in {"draft", "approved"}
    BY <1>3 DEF CommitSale, Prepared, RequestsAreBacked, Backed
  <1>4. CASE UNCHANGED orderVars
    BY <1>4 DEF orderVars
  <1>5. ASSUME NEW o \in Order, Place(o)
        PROVE /\ sold \subseteq sold' /\ log \subseteq log'
              /\ \A q \in Order, from \in Status :
                    <<q, from, "confirmed">> \in log' => <<q, from, "confirmed">> \in log
              /\ \A q \in Order : status'[q] # status[q] => status'[q] \notin AfterSale
    BY <1>1, <1>5 DEF AfterSale
  <1>6. ASSUME NEW d \in Desk, Write(d)
        PROVE /\ sold \subseteq sold' /\ log \subseteq log'
              /\ \A q \in Order, from \in Status :
                    <<q, from, "confirmed">> \in log' => <<q, from, "confirmed">> \in log
              /\ \A q \in Order : status'[q] # status[q] =>
                    \/ status'[q] \notin AfterSale
                    \/ status'[q] # "confirmed" /\ WasSold(q)
    BY <1>2, <1>6
  <1>7. ASSUME NEW d \in Desk, CommitSale(d), ~UNCHANGED orderVars
        PROVE /\ sold \subseteq sold' /\ log \subseteq log'
              /\ \A q \in Order, from \in Status :
                    <<q, from, "confirmed">> \in log' \ log =>
                        Movements(q) \subseteq sold' /\ Movements(q) \cap sold = {}
              /\ \A q \in Order : status'[q] # status[q] =>
                    WasSold(q)' /\ Movements(q) \cap sold = {}
    <2>1. PICK o \in Order : o = job[d].order
      BY <1>3, <1>7
    <2>2. WasSold(o)'
      BY <1>3, <1>7, <2>1 DEF WasSold, Movements, Items
    <2> QED
      BY <1>3, <1>7, <2>1, <2>2
  <1> QED
    BY <1>4, <1>5, <1>6, <1>7
       DEF LifecycleNext, DeskStep, Ask, CheckStatus, ReadStock, Fail, lifecycleVars

----------------------------------------------------------------------------
\* What a request is about to write is backed when it is asked for, and rows
\* do not go away before it is written.
LEMMA RequestsStep ==
    ASSUME LifecycleInv, [LifecycleNext]_lifecycleVars
    PROVE  RequestsAreBacked'
  <1> USE DEF LifecycleInv
  <1>1. sold \subseteq sold' /\ log \subseteq log'
    BY LogGrows
  <1>2. ASSUME NEW e \in Desk, pc'[e] = pc[e], job'[e] = job[e]
        PROVE Backed(e)'
    <2>1. CASE pc[e] = "write"
      <3>1. PICK o \in Order : o = job[e].order
        BY <2>1 DEF LifecycleTypeOK, Prepared
      <3>2. WasSold(o) => WasSold(o)'
        BY <1>1, RowsStay
      <3> QED
        BY <1>2, <2>1, <3>1, <3>2 DEF RequestsAreBacked, Backed
    <2>2. CASE pc[e] # "write"
      BY <1>2, <2>2 DEF RequestsAreBacked, Backed
    <2> QED
      BY <2>1, <2>2
  <1>3. ASSUME NEW d \in Desk, NEW o \in Order, NEW to \in Status, Ask(d, o, to)
        PROVE RequestsAreBacked'
    <2> DEFINE new == [NoJob EXCEPT !.order = o, !.to = to, !.from = status[o]]
    <2>1. new.order = o /\ new.to = to /\ new.from = status[o]
      BY DEF NoJob
    <2>2. job' = [job EXCEPT ![d] = new]
      BY <1>3 DEF Ask
    <2> HIDE DEF new
    <2>3. /\ job'[d] = new
          /\ \A e \in Desk \ {d} : job'[e] = job[e] /\ pc'[e] = pc[e]
      BY <1>3, <2>2 DEF Ask, Goto, LifecycleTypeOK
    <2>4. CASE to \in AllowedNext(o) /\ pc' = [pc EXCEPT ![d] = "write"]
      <3>1. to # "confirmed"
        BY <2>4 DEF AllowedNext
      <3>2. to \in AfterSale => status[o] \in AfterSale
        BY <2>4 DEF AllowedNext, AfterSale
      <3>3. to \in AfterSale => WasSold(o)'
        BY <1>1, <3>2, RowsStay DEF PreparedIsSold
      <3>4. pc'[d] = "write"
        BY <2>4 DEF LifecycleTypeOK
      <3>5. Backed(d)'
        BY <2>1, <2>3, <3>1, <3>3, <3>4 DEF Backed
      <3> QED
        BY <1>2, <2>3, <3>5 DEF RequestsAreBacked
    <2>5. CASE status[o] \in {"draft", "approved"} /\ pc' = [pc EXCEPT ![d] = "check"]
      <3>1. pc'[d] = "check"
        BY <2>5 DEF LifecycleTypeOK
      <3>2. Backed(d)'
        BY <2>1, <2>3, <2>5, <3>1 DEF Backed
      <3> QED
        BY <1>2, <2>3, <3>2 DEF RequestsAreBacked
    <2> QED
      BY <1>3, <2>4, <2>5 DEF Ask, Goto
  <1>4. ASSUME NEW d \in Desk, Return(d)
        PROVE RequestsAreBacked'
    <2>1. /\ pc'[d] = "idle"
          /\ \A e \in Desk \ {d} : job'[e] = job[e] /\ pc'[e] = pc[e]
      BY <1>4 DEF Return, Goto, LifecycleTypeOK
    <2>2. Backed(d)'
      BY <2>1 DEF Backed
    <2> QED
      BY <1>2, <2>1, <2>2 DEF RequestsAreBacked
  <1>5. ASSUME NEW d \in Desk, pc[d] \in {"check", "stock"},
               CheckStatus(d) \/ ReadStock(d)
        PROVE RequestsAreBacked'
    <2>1. CASE Return(d)
      BY <1>4, <2>1
    <2>2. CASE ~Return(d)
      <3>1. /\ pc'[d] \in {"stock", "commit"}
            /\ job'[d].from = job[d].from
            /\ \A e \in Desk \ {d} : job'[e] = job[e] /\ pc'[e] = pc[e]
        BY <1>5, <2>2 DEF CheckStatus, ReadStock, Goto, LifecycleTypeOK, Job
      <3>2. job[d].from \in {"draft", "approved"}
        BY <1>5 DEF RequestsAreBacked, Backed
      <3>3. Backed(d)'
        BY <3>1, <3>2 DEF Backed
      <3> QED
        BY <1>2, <3>1, <3>3 DEF RequestsAreBacked
    <2> QED
      BY <2>1, <2>2
  <1>6. CASE UNCHANGED <<pc, job>>
    BY <1>2, <1>6 DEF RequestsAreBacked
  <1> QED
    BY <1>3, <1>4, <1>5, <1>6
       DEF LifecycleNext, DeskStep, Place, Write, CheckStatus, ReadStock,
           CommitSale, Fail, lifecycleVars

LEMMA LifecycleInvariant == LifecycleSpec => []LifecycleInv
  <1>1. LifecycleInit => LifecycleInv
    <2>1. NoJob \in Job
      BY DEF NoJob, Job, Status
    <2> QED
      BY <2>1 DEF LifecycleInit, LifecycleInv, LifecycleTypeOK, Prepared, Status,
                  PreparedIsSold, AfterSale, RequestsAreBacked, Backed, LogIsBacked
  <1>2. LifecycleInv /\ [LifecycleNext]_lifecycleVars => LifecycleInv'
    <2> SUFFICES ASSUME LifecycleInv, [LifecycleNext]_lifecycleVars
                 PROVE  LifecycleInv'
      OBVIOUS
    <2> USE DEF LifecycleInv
    <2>1. LifecycleTypeOK'
      BY LifecycleTypeStep
    <2>2. RequestsAreBacked'
      BY RequestsStep
    <2>3. PreparedIsSold'
      <3> SUFFICES ASSUME NEW o \in Order, status'[o] \in AfterSale
                   PROVE  WasSold(o)'
        BY DEF PreparedIsSold, WasSold, Movements, Items, AfterSale
      <3>1. CASE status'[o] = status[o]
        BY <3>1, LogGrows, RowsStay DEF PreparedIsSold
      <3>2. CASE status'[o] # status[o]
        BY <3>2, LogGrows, RowsStay
      <3> QED
        BY <3>1, <3>2
    <2>4. LogIsBacked'
      BY LogGrows DEF LogIsBacked, Movements, Items
    <2> QED
      BY <2>1, <2>2, <2>3, <2>4
  <1> QED
    BY <1>1, <1>2, PTL DEF LifecycleSpec

----------------------------------------------------------------------------
(* The theorems                                                            *)

\* The lifecycle is well typed: in particular no stock becomes negative, and
\* a sale is committed only by a request that saw enough of every product.
THEOREM LifecycleTypeCorrect == LifecycleSpec => []LifecycleTypeOK
  BY LifecycleInvariant, PTL DEF LifecycleInv

\* An order that is confirmed, in preparation or handed over was sold,
\* whatever stale requests have written.
THEOREM PreparedIsSoldAlways == LifecycleSpec => []PreparedIsSold
  BY LifecycleInvariant, PTL DEF LifecycleInv

\* No order becomes confirmed a second time.
THEOREM ConfirmedOnceAlways == LifecycleSpec => ConfirmedOnce
  <1>1. ASSUME LifecycleInv, [LifecycleNext]_lifecycleVars
        PROVE [\A o \in Order :
                  status[o] # "confirmed" /\ status'[o] = "confirmed" =>
                      \A from \in Status :
                          <<o, from, "confirmed">> \notin log]_lifecycleVars
    <2> SUFFICES ASSUME NEW o \in Order, status[o] # "confirmed",
                        status'[o] = "confirmed",
                        NEW from \in Status, <<o, from, "confirmed">> \in log
                 PROVE  FALSE
      OBVIOUS
    <2>1. Movements(o) \cap sold = {}
      BY <1>1, LogGrows DEF LifecycleInv, AfterSale
    <2>2. Movements(o) \subseteq sold
      BY <1>1 DEF LifecycleInv, LogIsBacked
    <2>3. PICK p \in Product : Quantity[o][p] > 0
      OBVIOUS
    <2>4. <<o, p>> \in Movements(o)
      BY <2>3 DEF Movements, Items
    <2> QED
      BY <2>1, <2>2, <2>4
  <1> QED
    BY <1>1, LifecycleInvariant, PTL DEF LifecycleSpec, ConfirmedOnce

----------------------------------------------------------------------------
(* Stock and sales                                                         *)

Units(p) == [o \in Order |-> Quantity[o][p]]
OrdersOf(p) == {o \in Order : <<o, p>> \in sold}

\* A request that is about to commit computes the stock from one that the
\* movements of its time accounted for.
SeenCoversSales ==
    \A d \in Desk : pc[d] = "commit" =>
        \A p \in Product : job[d].seen[p] >= OpeningStock[p] - SoldUnits(p)

\* Sales are made one by one, so there are never infinitely many.
StockInv ==
    /\ \A p \in Product : IsFiniteSet(OrdersOf(p))
    /\ StockCoversSales
    /\ SeenCoversSales

LEMMA SoldUnitsAre ==
    ASSUME NEW p \in Product, IsFiniteSet(OrdersOf(p))
    PROVE  SoldUnits(p) = Sum(Units(p), OrdersOf(p)) /\ SoldUnits(p) \in Nat
  <1>1. SoldUnits(p) = Sum(Units(p), OrdersOf(p))
    BY DEF SoldUnits, Sum, Units, OrdersOf
  <1>2. \A o \in OrdersOf(p) : Units(p)[o] \in Nat
    BY DEF Units, OrdersOf
  <1>3. Sum(Units(p), OrdersOf(p)) \in Nat
    BY <1>2, SumIsNumber
  <1> QED
    BY <1>1, <1>3

\* A sale adds its units, of the products it has and of the others none.
LEMMA SaleAdds ==
    ASSUME StockInv, NEW o \in Order, NEW p \in Product,
           Movements(o) \cap sold = {}, sold' = sold \cup Movements(o)
    PROVE  /\ IsFiniteSet(OrdersOf(p)')
           /\ SoldUnits(p) \in Nat
           /\ SoldUnits(p)' = SoldUnits(p) + Quantity[o][p]
  <1>1. IsFiniteSet(OrdersOf(p)) /\ SoldUnits(p) \in Nat
        /\ SoldUnits(p) = Sum(Units(p), OrdersOf(p))
    BY SoldUnitsAre DEF StockInv
  <1>2. SoldUnits(p)' = Sum(Units(p), OrdersOf(p)')
    BY DEF SoldUnits, Sum, Units, OrdersOf
  <1>3. \A q \in Order : <<q, p>> \in Movements(o) <=> q = o /\ p \in Items(o)
    BY DEF Movements
  <1>4. CASE p \in Items(o)
    <2>1. o \notin OrdersOf(p) /\ OrdersOf(p)' = OrdersOf(p) \cup {o}
      BY <1>3, <1>4 DEF OrdersOf
    <2>2. /\ \A q \in OrdersOf(p) \cup {o} : Units(p)[q] \in Int
          /\ Units(p)[o] = Quantity[o][p]
      BY DEF Units, OrdersOf
    <2>3. /\ IsFiniteSet(OrdersOf(p) \cup {o})
          /\ Sum(Units(p), OrdersOf(p) \cup {o}) = Sum(Units(p), OrdersOf(p)) + Units(p)[o]
      BY <1>1, <2>1, <2>2, SumAdded
    <2>4. SoldUnits(p)' = Sum(Units(p), OrdersOf(p) \cup {o})
      BY <1>2, <2>1, Zenon
    <2> QED
      BY <1>1, <2>1, <2>2, <2>3, <2>4
  <1>5. CASE p \notin Items(o)
    <2>1. OrdersOf(p)' = OrdersOf(p)
      BY <1>3, <1>5 DEF OrdersOf
    <2>2. SoldUnits(p)' = SoldUnits(p)
      BY <1>1, <1>2, <2>1, Zenon
    <2>3. Quantity[o][p] = 0
      BY <1>5 DEF Items
    <2> QED
      BY <1>1, <2>1, <2>2, <2>3
  <1> QED
    BY <1>4, <1>5

\* Without a sale nothing that the sums are of changes.
LEMMA NoSale ==
    ASSUME UNCHANGED sold, NEW p \in Product
    PROVE  OrdersOf(p)' = OrdersOf(p) /\ SoldUnits(p)' = SoldUnits(p)
  BY DEF OrdersOf, SoldUnits

LEMMA StockStep ==
    ASSUME LifecycleTypeOK, StockInv, [LifecycleNext]_lifecycleVars
    PROVE  StockInv'
  <1> USE DEF LifecycleTypeOK
  <1>1. \A p \in Product : SoldUnits(p) \in Nat
    BY SoldUnitsAre DEF StockInv
  <1>2. ASSUME UNCHANGED <<sold, stock>>,
               \A d \in Desk : pc'[d] = "commit" =>
                   \/ pc[d] = "commit" /\ job'[d] = job[d]
                   \/ job'[d].seen = stock
        PROVE StockInv'
    <2>1. \A p \in Product : OrdersOf(p)' = OrdersOf(p) /\ SoldUnits(p)' = SoldUnits(p)
      BY <1>2, NoSale
    <2>2. StockCoversSales'
      BY <1>2, <2>1 DEF StockInv, StockCoversSales
    <2>3. SeenCoversSales'
      BY <1>2, <2>1 DEF StockInv, SeenCoversSales, StockCoversSales
    <2> QED
      BY <2>1, <2>2, <2>3 DEF StockInv
  <1>3. ASSUME NEW d \in Desk, CommitSale(d), ~UNCHANGED orderVars
        PROVE StockInv'
    <2>1. PICK o \in Order : o = job[d].order
      BY <1>3 DEF CommitSale, Prepared
    <2>2. /\ Movements(o) \cap sold = {} /\ sold' = sold \cup Movements(o)
          /\ stock' = [p \in Product |-> IF p \in Items(o)
                                         THEN job[d].seen[p] - Quantity[o][p]
                                         ELSE stock[p]]
          /\ pc[d] = "commit" /\ Return(d)
      BY <1>3, <2>1 DEF CommitSale
    <2>3. \A p \in Product : /\ IsFiniteSet(OrdersOf(p)')
                             /\ SoldUnits(p)' = SoldUnits(p) + Quantity[o][p]
                             /\ Quantity[o][p] \in Nat
      BY <2>2, SaleAdds
    <2>4. \A p \in Product : stock'[p] >= OpeningStock[p] - SoldUnits(p)'
      <3> TAKE p \in Product
      <3>1. /\ stock[p] >= OpeningStock[p] - SoldUnits(p)
            /\ job[d].seen[p] >= OpeningStock[p] - SoldUnits(p)
        BY <2>2 DEF StockInv, StockCoversSales, SeenCoversSales
      <3>2. /\ stock'[p] = job[d].seen[p] - Quantity[o][p]
               \/ stock'[p] = stock[p]
            /\ job[d].seen[p] \in Nat /\ stock[p] \in Nat /\ OpeningStock[p] \in Nat
        BY <2>2 DEF Job
      <3> QED
        BY <1>1, <2>3, <3>1, <3>2
    <2>5. \A e \in Desk : pc'[e] = "commit" => pc[e] = "commit" /\ job'[e] = job[e]
      BY <2>2 DEF Return, Goto
    <2>6. \A e \in Desk : pc'[e] = "commit" =>
              \A p \in Product : job'[e].seen[p] >= OpeningStock[p] - SoldUnits(p)'
      <3> SUFFICES ASSUME NEW e \in Desk, pc'[e] = "commit", NEW p \in Product
                   PROVE  job'[e].seen[p] >= OpeningStock[p] - SoldUnits(p)'
        OBVIOUS
      <3>1. job'[e] = job[e] /\ job[e].seen[p] >= OpeningStock[p] - SoldUnits(p)
        BY <2>5 DEF StockInv, SeenCoversSales
      <3>2. job[e].seen[p] \in Nat /\ OpeningStock[p] \in Nat
        BY DEF Job
      <3> QED
        BY <1>1, <2>3, <3>1, <3>2
    <2> QED
      BY <2>3, <2>4, <2>6 DEF StockInv, StockCoversSales, SeenCoversSales
  <1>4. ASSUME NEW d \in Desk, Return(d)
        PROVE \A e \in Desk : pc'[e] = "commit" => pc[e] = "commit" /\ job'[e] = job[e]
    BY <1>4 DEF Return, Goto
  <1>5. ASSUME NEW d \in Desk, ReadStock(d)
        PROVE StockInv'
    <2>1. CASE Return(d)
      BY <1>2, <1>4, <1>5, <2>1 DEF ReadStock, orderVars
    <2>2. CASE Goto(d, "commit") /\ job' = [job EXCEPT ![d].seen = stock]
      <3>1. \A e \in Desk \ {d} : pc'[e] = pc[e] /\ job'[e] = job[e]
        BY <2>2 DEF Goto
      <3>2. job'[d].seen = stock
        BY <2>2 DEF Job
      <3> QED
        BY <1>2, <1>5, <3>1, <3>2 DEF ReadStock, orderVars
    <2> QED
      BY <1>5, <2>1, <2>2 DEF ReadStock
  <1>6. ASSUME NEW d \in Desk, \/ \E o \in Order, to \in Status : Ask(d, o, to)
                               \/ CheckStatus(d)
        PROVE StockInv'
    <2>1. UNCHANGED orderVars /\ pc'[d] # "commit"
          /\ \A e \in Desk \ {d} : pc'[e] = pc[e] /\ job'[e] = job[e]
      BY <1>6 DEF Ask, CheckStatus, Goto, Return
    <2> QED
      BY <1>2, <2>1 DEF orderVars
  <1>7. ASSUME NEW d \in Desk,
               \/ Write(d) \/ Fail(d)
               \/ CommitSale(d) /\ UNCHANGED orderVars
        PROVE StockInv'
    BY <1>2, <1>4, <1>7 DEF Write, Fail, CommitSale, orderVars
  <1>8. CASE UNCHANGED lifecycleVars \/ \E o \in Order : Place(o)
    BY <1>2, <1>8 DEF lifecycleVars, orderVars, Place
  <1> QED
    BY <1>3, <1>5, <1>6, <1>7, <1>8 DEF LifecycleNext, DeskStep

\* Of no product more is missing from the stock than its sale movements
\* explain: a confirmation that fails, is refused or comes again takes nothing,
\* and one that computes the stock from what it read earlier can only lose the
\* deduction of a sale in between (confirm_order_atomically,
\* storage/order_confirmation.py).
THEOREM StockCoversSalesAlways == LifecycleSpec => []StockCoversSales
  <1>1. LifecycleInit => StockInv
    <2> SUFFICES ASSUME LifecycleInit PROVE StockInv
      OBVIOUS
    <2>1. \A p \in Product : OrdersOf(p) = {} /\ IsFiniteSet(OrdersOf(p))
      <3> TAKE p \in Product
      <3>1. OrdersOf(p) = {}
        BY DEF LifecycleInit, OrdersOf
      <3> QED
        BY <3>1, FS_EmptySet
    <2>2. \A p \in Product : SoldUnits(p) \in Nat
      BY <2>1, SoldUnitsAre
    <2> QED
      BY <2>1, <2>2 DEF LifecycleInit, StockInv, StockCoversSales, SeenCoversSales
  <1>2. LifecycleTypeOK /\ StockInv /\ [LifecycleNext]_lifecycleVars => StockInv'
    BY StockStep
  <1>3. StockInv => StockCoversSales
    BY DEF StockInv
  <1> QED
    BY <1>1, <1>2, <1>3, LifecycleTypeCorrect, PTL DEF LifecycleSpec

----------------------------------------------------------------------------
(* Acknowledgements *)

HIDE LifecycleAssumption

\* A row's verdict is true, and its attempts bound the calls made for it.
RowIsTrue(o) ==
    /\ provider[o].accepted \in {0, 1}
    /\ ack[o].status = "none" => ack[o].attempts = 0
    /\ ack[o].status \in {"none", "failed"} => provider[o].accepted = 0
    /\ ack[o].status = "sent" => provider[o].accepted = 1
    /\ provider[o].calls <= ack[o].attempts
    /\ ack[o].attempts <= MaxAttempts

\* What the holder of a claim knows of its order.
HolderKnows(d) ==
    LET o == task[d].order IN
    /\ ackPc[d] = "send" => /\ provider[o].accepted = 0
                            /\ provider[o].calls < ack[o].attempts
    /\ ackPc[d] = "mark" => /\ task[d].result = "sent" => provider[o].accepted = 1
                            /\ task[d].result = "failed" => provider[o].accepted = 0

RowsAreTrue == \A o \in Order : RowIsTrue(o)
HoldersKnow == \A d \in Desk : HolderKnows(d)

\* A request that got past the check of its order has a sold one.
ChecksLast ==
    \A d \in Desk : ackPc[d] \in {"claim", "lookup", "reclaim", "send", "mark"} =>
                        Movements(task[d].order) \subseteq sold

LedgerIsTrue == RowsAreTrue /\ HoldersKnow /\ SoleSender

AckInv ==
    /\ AckTypeOK
    /\ LedgerIsTrue
    /\ ChecksLast
    /\ OnlySoldIsAcknowledged

----------------------------------------------------------------------------
(* What a step of a page does to rows, calls and claims: nothing, or one of *)
(* three things to the order it works on.                                   *)

OthersStay(d) ==
    \A e \in Desk \ {d} : ackPc'[e] = ackPc[e] /\ task'[e] = task[e]

Quiet(d) == UNCHANGED <<ack, provider>> /\ ackPc'[d] \notin Claimed

Opens(d, o) ==
    /\ ack[o].status \in {"none", "failed"}
    /\ ack[o].attempts < MaxAttempts
    /\ ack' = [ack EXCEPT ![o] = [status |-> "sending", attempts |-> ack[o].attempts + 1]]
    /\ UNCHANGED provider
    /\ ackPc'[d] = "send"
    /\ task'[d].order = o

Sends(d, o, accepted) ==
    /\ ackPc[d] = "send"
    /\ provider' = [provider EXCEPT ![o] = [calls |-> provider[o].calls + 1,
                                            accepted |-> provider[o].accepted + accepted]]
    /\ UNCHANGED ack
    /\ ackPc'[d] = "mark"
    /\ task'[d].order = o
    /\ task'[d].result = "sent" => accepted = 1
    /\ task'[d].result = "failed" => accepted = 0

Marks(d, o) ==
    /\ ackPc[d] = "mark"
    /\ task[d].result \in {"sent", "failed", "unknown"}
    /\ ack' = [ack EXCEPT ![o] = [status |-> task[d].result, attempts |-> ack[o].attempts]]
    /\ UNCHANGED provider
    /\ ackPc'[d] = "idle"

Acts(d, o) ==
    \/ Opens(d, o)
    \/ \E accepted \in {0, 1} : Sends(d, o, accepted)
    \/ Marks(d, o)

----------------------------------------------------------------------------
USE AckAssumption

LEMMA CountUp ==
    ASSUME NEW c \in Count, NEW n \in Nat
    PROVE  [c EXCEPT !.calls = @ + 1, !.accepted = @ + n]
              = [calls |-> c.calls + 1, accepted |-> c.accepted + n]
  <1> DEFINE once == [c EXCEPT !.calls = c.calls + 1]
             twice == [once EXCEPT !.accepted = c.accepted + n]
  <1>1. once \in Count /\ once.calls = c.calls + 1
    BY DEF Count
  <1>2. once.accepted = c.accepted
    BY DEF Count
  <1> HIDE DEF once
  <1>3. twice = [calls |-> once.calls, accepted |-> c.accepted + n]
    BY <1>1 DEF Count
  <1> QED
    BY <1>1, <1>2, <1>3 DEF once

LEMMA AckEffects ==
    ASSUME AckTypeOK, RowsAreTrue, SoleSender, NEW d \in Desk, AckStep(d)
    PROVE  /\ OthersStay(d)
           /\ Quiet(d) \/ \E o \in Order : o = task[d].order /\ Acts(d, o)
  <1> USE DEF AckTypeOK
  <1>1. OthersStay(d)
    BY DEF OthersStay, AckStep, ShowOrder, ShowAcknowledgement, CheckOrder, Claim,
           Lookup, Reclaim, Send, Mark, AckFail, GoOn, Done
  <1>2. ASSUME Done(d), UNCHANGED <<ack, provider>>
        PROVE Quiet(d)
    BY <1>2 DEF Done, GoOn, Quiet, Claimed, Stage
  <1>3. ASSUME \/ \E o \in Order : ShowOrder(d, o)
               \/ ShowAcknowledgement(d) \/ CheckOrder(d) \/ Lookup(d) \/ AckFail(d)
        PROVE Quiet(d)
    BY <1>2, <1>3 DEF ShowOrder, ShowAcknowledgement, CheckOrder, Lookup, AckFail,
                      GoOn, Quiet, Claimed, Stage
  <1>4. ackPc[d] # "idle" => \E o \in Order : o = task[d].order
    BY DEF Busy
  <1>5. CASE Claim(d)
    <2>1. PICK o \in Order : o = task[d].order
      BY <1>4, <1>5 DEF Claim, At
    <2>2. CASE ack[o].status = "none"
      <3>1. ack[o].attempts = 0
        BY <2>2 DEF RowsAreTrue, RowIsTrue
      <3> QED
        BY <1>1, <1>5, <2>1, <2>2, <3>1 DEF Claim, GoOn, Acts, Opens, Stage, Claimed
    <2>3. CASE ack[o].status # "none"
      BY <1>1, <1>5, <2>1, <2>3 DEF Claim, GoOn, Quiet, Stage, Claimed
    <2> QED
      BY <2>2, <2>3
  <1>6. CASE Reclaim(d)
    <2>1. PICK o \in Order : o = task[d].order
      BY <1>4, <1>6 DEF Reclaim, At
    <2>2. CASE Retryable(ack[o])
      BY <1>1, <1>6, <2>1, <2>2 DEF Reclaim, Retryable, GoOn, Acts, Opens, Stage, Claimed
    <2>3. CASE ~Retryable(ack[o])
      BY <1>1, <1>2, <1>6, <2>1, <2>3 DEF Reclaim
    <2> QED
      BY <2>2, <2>3
  <1>7. CASE Send(d)
    <2>1. PICK o \in Order : o = task[d].order
      BY <1>4, <1>7 DEF Send, At
    <2>2. PICK accepted \in {0, 1}, result \in {"sent", "failed", "unknown"} :
             /\ result = "sent" => accepted = 1
             /\ result = "failed" => accepted = 0
             /\ task' = [task EXCEPT ![d].result = result]
             /\ provider' = [provider EXCEPT ![o].calls = @ + 1,
                                             ![o].accepted = @ + accepted]
      BY <1>7, <2>1 DEF Send
    <2>3. provider' = [provider EXCEPT ![o] = [calls |-> provider[o].calls + 1,
                                              accepted |-> provider[o].accepted + accepted]]
      <3> DEFINE count == provider[o]
      <3>1. count \in Count
        OBVIOUS
      <3>2. [count EXCEPT !.calls = @ + 1, !.accepted = @ + accepted]
               = [calls |-> count.calls + 1, accepted |-> count.accepted + accepted]
        BY <3>1, CountUp
      <3> QED
        BY <2>2, <3>2
    <2>4. task'[d].order = o /\ task'[d].result = result
      BY <2>1, <2>2 DEF Task
    <2>5. ackPc[d] = "send" /\ ackPc'[d] = "mark" /\ UNCHANGED ack
      BY <1>7 DEF Send, At, GoOn, Stage, Claimed
    <2>6. Sends(d, o, accepted)
      BY <2>2, <2>3, <2>4, <2>5 DEF Sends
    <2> QED
      BY <1>1, <2>1, <2>6 DEF Acts
  <1>8. CASE Mark(d)
    <2>1. PICK o \in Order : o = task[d].order
      BY <1>4, <1>8 DEF Mark, At
    <2>2. ack[o].status = "sending"
      BY <1>8, <2>1 DEF Mark, At, SoleSender, Claimed
    <2>3. ack' = [ack EXCEPT ![o] = [status |-> task[d].result, attempts |-> ack[o].attempts]]
      <3> DEFINE row == ack[o]
      <3>1. row \in Row
        OBVIOUS
      <3>2. [row EXCEPT !.status = task[d].result]
               = [status |-> task[d].result, attempts |-> row.attempts]
        BY <3>1 DEF Row
      <3> QED
        BY <1>8, <2>1, <2>2, <3>2 DEF Mark
    <2>4. task[d].result \in {"sent", "failed", "unknown"}
      BY <1>8 DEF Mark, At, Busy, Task
    <2>5. ackPc[d] = "mark" /\ ackPc'[d] = "idle" /\ UNCHANGED provider
      BY <1>8 DEF Mark, At, Done, GoOn, Stage
    <2> QED
      BY <1>1, <2>1, <2>3, <2>4, <2>5 DEF Acts, Marks
  <1> QED
    BY <1>1, <1>3, <1>5, <1>6, <1>7, <1>8 DEF AckStep

LEMMA LedgerStep ==
    ASSUME AckTypeOK, LedgerIsTrue, NEW d \in Desk, AckStep(d)
    PROVE  LedgerIsTrue'
  <1> USE DEF LedgerIsTrue
  <1>1. OthersStay(d)
    BY AckEffects
  <1>2. CASE Quiet(d)
    <2>1. RowsAreTrue'
      BY <1>2 DEF Quiet, RowsAreTrue, RowIsTrue
    <2>2. \A e \in Desk : HolderKnows(e)'
      BY <1>1, <1>2 DEF Quiet, OthersStay, HoldersKnow, HolderKnows, Claimed
    <2>3. SoleSender'
      BY <1>1, <1>2 DEF Quiet, OthersStay, SoleSender
    <2> QED
      BY <2>1, <2>2, <2>3 DEF HoldersKnow
  <1>3. ASSUME NEW o \in Order, o = task[d].order, Acts(d, o)
        PROVE LedgerIsTrue'
    <2> USE DEF AckTypeOK, Row, Count
    \* No other desk holds a claim of this order.
    <2>1. ASSUME NEW e \in Desk \ {d}, ackPc[e] \in Claimed
          PROVE task[e].order \in Order /\ task[e].order # o
      BY <1>3, <2>1 DEF Acts, Opens, Sends, Marks, SoleSender, Busy, Claimed
    <2>2. \A q \in Order \ {o} : ack'[q] = ack[q] /\ provider'[q] = provider[q]
      BY <1>3 DEF Acts, Opens, Sends, Marks
    <2>3. RowIsTrue(o) /\ HolderKnows(d)
      BY DEF RowsAreTrue, HoldersKnow
    <2>4. RowIsTrue(o)' /\ HolderKnows(d)'
      <3>1. CASE Opens(d, o)
        BY <1>3, <2>3, <3>1 DEF Opens, RowIsTrue, HolderKnows
      <3>2. ASSUME NEW accepted \in {0, 1}, Sends(d, o, accepted)
            PROVE RowIsTrue(o)' /\ HolderKnows(d)'
        <4>1. provider'[o].calls = provider[o].calls + 1 /\ provider'[o].accepted = accepted
          BY <1>3, <2>3, <3>2 DEF Sends, HolderKnows
        <4>2. ack[o].status = "sending" /\ provider[o].calls < ack[o].attempts
          BY <1>3, <2>3, <3>2 DEF Sends, HolderKnows, SoleSender, Claimed
        <4> QED
          BY <1>3, <2>3, <3>2, <4>1, <4>2 DEF Sends, RowIsTrue, HolderKnows
      <3>3. CASE Marks(d, o)
        BY <1>3, <2>3, <3>3 DEF Marks, RowIsTrue, HolderKnows
      <3> QED
        BY <1>3, <3>1, <3>2, <3>3 DEF Acts
    <2>5. RowsAreTrue'
      BY <2>2, <2>4 DEF RowsAreTrue, RowIsTrue
    <2>6. HoldersKnow'
      BY <1>1, <2>1, <2>2, <2>4 DEF OthersStay, HoldersKnow, HolderKnows, Claimed
    <2>7. SoleSender'
      <3>1. ackPc'[d] \in Claimed => ack'[o].status = "sending" /\ task'[d].order = o
        BY <1>3 DEF Acts, Opens, Sends, Marks, SoleSender, Claimed
      <3> QED
        BY <1>1, <2>1, <2>2, <3>1 DEF OthersStay, SoleSender
    <2> QED
      BY <2>5, <2>6, <2>7
  <1> QED
    BY <1>2, <1>3, AckEffects

LEMMA AckTypeStep ==
    ASSUME AckTypeOK, NEW d \in Desk, AckStep(d)
    PROVE  AckTypeOK'
  <1> USE DEF AckTypeOK
  <1>1. NoTask \in Task
    BY DEF NoTask, Task
  <1>2. ASSUME Done(d)
        PROVE ackPc' \in [Desk -> Stage] /\ task' \in [Desk -> Task] /\ \A e \in Desk : Busy(e)'
    BY <1>1, <1>2 DEF Done, GoOn, Stage, Busy
  <1>3. ASSUME NEW stage \in Stage \ {"mark"}, GoOn(d, stage), UNCHANGED task,
               ackPc[d] # "idle"
        PROVE ackPc' \in [Desk -> Stage] /\ \A e \in Desk : Busy(e)'
    BY <1>3 DEF GoOn, Busy
  <1>4. ASSUME NEW new \in Task, NEW stage \in Stage, GoOn(d, stage),
               task' = [task EXCEPT ![d] = new],
               new.order \in Order, stage = "mark" => new.result # "none"
        PROVE ackPc' \in [Desk -> Stage] /\ task' \in [Desk -> Task] /\ \A e \in Desk : Busy(e)'
    BY <1>4 DEF GoOn, Busy
  <1>5. ASSUME NEW o \in Order, ShowOrder(d, o)
        PROVE AckTypeOK'
    <2> DEFINE new == [task[d] EXCEPT !.order = o]
    <2>1. new \in Task /\ new.order = o
      BY DEF Task
    <2>2. task' = [task EXCEPT ![d] = new] /\ GoOn(d, "row") /\ "row" \in Stage
      BY <1>5 DEF ShowOrder, Stage
    <2> HIDE DEF new
    <2> QED
      BY <1>4, <1>5, <2>1, <2>2 DEF ShowOrder
  <1>6. ASSUME ShowAcknowledgement(d)
        PROVE AckTypeOK'
    <2> DEFINE new == [task[d] EXCEPT !.retry = TRUE]
    <2>1. task[d].order \in Order
      BY <1>6 DEF ShowAcknowledgement, At, Busy
    <2>2. new \in Task /\ new.order = task[d].order
      BY DEF Task
    <2> HIDE DEF new
    <2>3. asked' \subseteq Desk \X Order
      BY <1>6, <2>1 DEF ShowAcknowledgement
    <2>4. \/ GoOn(d, "order") /\ UNCHANGED task
          \/ Done(d)
          \/ GoOn(d, "order") /\ task' = [task EXCEPT ![d] = new]
      BY <1>6 DEF ShowAcknowledgement, new
    <2>5. "order" \in Stage \ {"mark"} /\ ackPc[d] # "idle"
      BY <1>6 DEF ShowAcknowledgement, At, Stage
    <2> QED
      BY <1>2, <1>3, <1>4, <1>6, <2>1, <2>2, <2>3, <2>4, <2>5 DEF ShowAcknowledgement
  <1>7. ASSUME CheckOrder(d) \/ Lookup(d) \/ AckFail(d)
        PROVE AckTypeOK'
    BY <1>2, <1>3, <1>7 DEF CheckOrder, Lookup, AckFail, At, Stage
  <1>8. ASSUME Claim(d)
        PROVE AckTypeOK'
    <2>1. ack' \in [Order -> Row]
      BY <1>8 DEF Claim, Row
    <2>2. \E stage \in Stage \ {"mark"} : GoOn(d, stage)
      BY <1>8 DEF Claim, Stage, Claimed
    <2> QED
      BY <1>3, <1>8, <2>1, <2>2 DEF Claim, At
  <1>9. ASSUME Reclaim(d)
        PROVE AckTypeOK'
    <2>1. task[d].order \in Order
      BY <1>9 DEF Reclaim, At, Busy
    <2>2. ack' \in [Order -> Row]
      BY <1>9, <2>1 DEF Reclaim, Row
    <2>3. Done(d) \/ (GoOn(d, "send") /\ UNCHANGED task)
      BY <1>9 DEF Reclaim
    <2>4. "send" \in Stage \ {"mark"} /\ ackPc[d] # "idle"
      BY <1>9 DEF Reclaim, At, Stage, Claimed
    <2> QED
      BY <1>2, <1>3, <1>9, <2>2, <2>3, <2>4 DEF Reclaim
  <1>10. ASSUME Send(d)
         PROVE AckTypeOK'
    <2>1. task[d].order \in Order
      BY <1>10 DEF Send, At, Busy
    <2>2. PICK accepted \in {0, 1}, result \in {"sent", "failed", "unknown"} :
             /\ task' = [task EXCEPT ![d].result = result]
             /\ provider' = [provider EXCEPT ![task[d].order].calls = @ + 1,
                                             ![task[d].order].accepted = @ + accepted]
      BY <1>10 DEF Send
    <2> DEFINE new == [task[d] EXCEPT !.result = result]
               count == provider[task[d].order]
    <2>3. new \in Task /\ new.order = task[d].order /\ new.result = result
      BY DEF Task
    <2>4. task' = [task EXCEPT ![d] = new]
      BY <2>2
    <2> HIDE DEF new
    <2>5. provider' \in [Order -> Count]
      <3>1. count \in Count
        BY <2>1
      <3>2. [count EXCEPT !.calls = @ + 1, !.accepted = @ + accepted]
               = [calls |-> count.calls + 1, accepted |-> count.accepted + accepted]
        BY <3>1, CountUp
      <3>3. [calls |-> count.calls + 1, accepted |-> count.accepted + accepted] \in Count
        BY <3>1 DEF Count
      <3> QED
        BY <2>1, <2>2, <3>2, <3>3
    <2>6. GoOn(d, "mark") /\ "mark" \in Stage /\ UNCHANGED <<ack, asked>>
      BY <1>10 DEF Send, Stage, Claimed
    <2> QED
      BY <1>4, <2>1, <2>3, <2>4, <2>5, <2>6
  <1>11. ASSUME Mark(d)
         PROVE AckTypeOK'
    <2>1. /\ task[d].order \in Order
          /\ task[d].result \in {"sent", "failed", "unknown"}
      BY <1>11 DEF Mark, At, Busy, Task
    <2>2. ack' \in [Order -> Row]
      BY <1>11, <2>1 DEF Mark, Row
    <2> QED
      BY <1>2, <1>11, <2>2 DEF Mark
  <1> QED
    BY <1>5, <1>6, <1>7, <1>8, <1>9, <1>10, <1>11 DEF AckStep

----------------------------------------------------------------------------
\* Acknowledging takes no step on orders, and an order's request none on
\* acknowledgements.
LEMMA OrdersMoveAlone ==
    ASSUME [Next]_vars
    PROVE  /\ [LifecycleNext]_lifecycleVars
           /\ UNCHANGED ackVars \/ \E d \in Desk : AckStep(d) /\ UNCHANGED lifecycleVars
  BY DEF Next, LifecycleNext, vars

LEMMA OrdersAreKept == Spec => []LifecycleInv
  <1>1. AckInit => LifecycleInit
    BY DEF AckInit
  <1>2. [Next]_vars => [LifecycleNext]_lifecycleVars
    BY OrdersMoveAlone
  <1>3. Spec => LifecycleSpec
    BY <1>1, <1>2, PTL DEF Spec, LifecycleSpec
  <1> QED
    BY <1>3, LifecycleInvariant, PTL

\* A request learns that its order was sold when it checks the order, and
\* writes a row only after.
LEMMA SoldStep ==
    ASSUME AckInv, LifecycleInv, [Next]_vars
    PROVE  ChecksLast' /\ OnlySoldIsAcknowledged'
  <1> USE DEF AckInv
  <1>1. sold \subseteq sold'
    BY OrdersMoveAlone, LogGrows DEF LifecycleInv
  <1>2. \A o \in Order : (Movements(o) \subseteq sold)' <=> Movements(o) \subseteq sold'
    BY DEF Movements, Items
  <1>3. CASE UNCHANGED ackVars
    BY <1>1, <1>3 DEF ackVars, ChecksLast, OnlySoldIsAcknowledged, Movements, Items
  <1>4. ASSUME NEW d \in Desk, AckStep(d), UNCHANGED lifecycleVars
        PROVE ChecksLast' /\ OnlySoldIsAcknowledged'
    <2>1. OthersStay(d)
      BY <1>4, AckEffects DEF LedgerIsTrue
    <2>2. sold' = sold
      BY <1>4 DEF lifecycleVars, orderVars
    <2>3. ASSUME ackPc'[d] \in {"claim", "lookup", "reclaim", "send", "mark"}
          PROVE Movements(task'[d].order) \subseteq sold
      <3>1. CASE CheckOrder(d)
        <4>1. PICK o \in Order : o = task[d].order
          BY <3>1 DEF CheckOrder, At, AckTypeOK, Busy
        <4>2. status[o] = "confirmed" /\ task'[d].order = o
          BY <2>3, <3>1, <4>1 DEF CheckOrder, Done, GoOn, AckTypeOK, Stage
        <4> QED
          BY <4>1, <4>2 DEF LifecycleInv, PreparedIsSold, AfterSale, WasSold
      <3>2. CASE ~CheckOrder(d)
        <4>1. /\ ackPc[d] \in {"claim", "lookup", "reclaim", "send", "mark"}
              /\ task'[d].order = task[d].order
          BY <1>4, <2>3, <3>2
             DEF AckStep, ShowOrder, ShowAcknowledgement, Claim, Lookup, Reclaim, Send,
                 Mark, AckFail, Done, GoOn, At, AckTypeOK, Stage, Task
        <4> QED
          BY <4>1 DEF ChecksLast
      <3> QED
        BY <3>1, <3>2
    <2>4. ChecksLast'
      BY <2>1, <2>2, <2>3 DEF OthersStay, ChecksLast, Movements, Items
    <2>5. ASSUME NEW o \in Order, ack'[o].status # ack[o].status
          PROVE Movements(o) \subseteq sold
      <3>1. o = task[d].order /\ Acts(d, o)
        BY <1>4, <2>5, AckEffects
           DEF LedgerIsTrue, Quiet, Acts, Opens, Sends, Marks, AckTypeOK
      <3>2. CASE Opens(d, o)
        BY <2>3, <3>2 DEF Opens
      <3>3. CASE ackPc[d] \in {"send", "mark"}
        BY <3>1, <3>3 DEF ChecksLast
      <3> QED
        BY <3>1, <3>2, <3>3 DEF Acts, Sends, Marks
    <2>6. OnlySoldIsAcknowledged'
      BY <2>2, <2>5 DEF OnlySoldIsAcknowledged, Movements, Items
    <2> QED
      BY <2>4, <2>6
  <1> QED
    BY <1>3, <1>4, OrdersMoveAlone

LEMMA AckInvariant == Spec => []AckInv
  <1>1. AckInit => AckInv
    BY DEF AckInit, NoRow, NoTask, Row, Task, Count, Stage, Claimed, Busy,
           AckInv, AckTypeOK, LedgerIsTrue, RowsAreTrue, RowIsTrue, HoldersKnow,
           HolderKnows, SoleSender, ChecksLast, OnlySoldIsAcknowledged
  <1>2. AckInv /\ LifecycleInv /\ [Next]_vars => AckInv'
    <2> SUFFICES ASSUME AckInv, LifecycleInv, [Next]_vars
                 PROVE  AckInv'
      OBVIOUS
    <2>1. CASE UNCHANGED ackVars
      <3>1. AckTypeOK' /\ LedgerIsTrue'
        BY <2>1
           DEF AckInv, ackVars, AckTypeOK, Busy, LedgerIsTrue, RowsAreTrue, RowIsTrue,
               HoldersKnow, HolderKnows, SoleSender
      <3> QED
        BY <3>1, SoldStep DEF AckInv
    <2>2. ASSUME NEW d \in Desk, AckStep(d)
          PROVE AckInv'
      BY <2>2, AckTypeStep, LedgerStep, SoldStep DEF AckInv
    <2> QED
      BY <2>1, <2>2, OrdersMoveAlone
  <1> QED
    BY <1>1, <1>2, OrdersAreKept, PTL DEF Spec

----------------------------------------------------------------------------
(* The theorems                                                            *)

\* The acknowledgement rows, pages and Twilio's counts are well typed.
THEOREM AckTypeCorrect == Spec => []AckTypeOK
  BY AckInvariant, PTL DEF AckInv

\* Twilio is called for an order at most as often as the limit allows,
\* whatever number of operators, stale pages and crashes there are.
THEOREM CallsAreLimitedAlways == Spec => []CallsAreLimited
  <1>1. AckInv => CallsAreLimited
    BY DEF AckInv, AckTypeOK, Row, Count, LedgerIsTrue, RowsAreTrue, RowIsTrue,
           CallsAreLimited
  <1> QED
    BY <1>1, AckInvariant, PTL

\* No two requests hold the claim of one order.
THEOREM SoleSenderAlways == Spec => []SoleSender
  BY AckInvariant, PTL DEF AckInv, LedgerIsTrue

\* A row of outbound_messages exists only for an order sold from stock.
THEOREM OnlySoldIsAcknowledgedAlways == Spec => []OnlySoldIsAcknowledged
  BY AckInvariant, PTL DEF AckInv

\* Acknowledging implements AtMostOnce: claims open, the call arrives, marks
\* close with a true verdict, and every other step is a stutter.
THEOREM AckImplementsAtMostOnce == Spec => ImplementsAtMostOnce
  <1> DEFINE verdict == [o \in Order |-> ack[o].status]
             arrived == [o \in Order |-> provider[o].accepted]
  <1>1. AckInit => Promise!Init
    BY DEF AckInit, NoRow, Promise!Init
  <1>2. AckInv /\ [Next]_vars => [Promise!Next]_<<verdict, arrived>>
    <2> SUFFICES ASSUME AckInv, [Next]_vars
                 PROVE  [Promise!Next]_<<verdict, arrived>>
      OBVIOUS
    <2> USE DEF AckInv, AckTypeOK, Row, Count
    <2>1. CASE UNCHANGED <<ack, provider>>
      BY <2>1
    <2>2. ASSUME NEW d \in Desk, NEW o \in Order, o = task[d].order, Acts(d, o)
          PROVE [Promise!Next]_<<verdict, arrived>>
      <3>1. CASE Opens(d, o)
        <4>1. verdict' = [verdict EXCEPT ![o] = "sending"] /\ arrived' = arrived
          BY <3>1 DEF Opens
        <4>2. Promise!Open(o)
          BY <3>1, <4>1 DEF Opens, Promise!Open
        <4> QED
          BY <4>2 DEF Promise!Next
      <3>2. ASSUME NEW accepted \in {0, 1}, Sends(d, o, accepted)
            PROVE [Promise!Next]_<<verdict, arrived>>
        <4>1. ack[o].status = "sending" /\ provider[o].accepted = 0
          BY <2>2, <3>2 DEF Sends, LedgerIsTrue, SoleSender, Claimed, HoldersKnow, HolderKnows
        <4>2. verdict' = verdict /\ arrived' = [arrived EXCEPT ![o] = accepted]
          <5>1. provider'[o].accepted = accepted
            BY <3>2, <4>1 DEF Sends
          <5>2. \A q \in Order \ {o} : provider'[q] = provider[q]
            BY <3>2 DEF Sends
          <5> QED
            BY <3>2, <5>1, <5>2 DEF Sends
        <4>3. CASE accepted = 1
          BY <4>1, <4>2, <4>3 DEF Promise!Next, Promise!Arrive
        <4>4. CASE accepted = 0
          BY <4>1, <4>2, <4>4
        <4> QED
          BY <4>3, <4>4
      <3>3. CASE Marks(d, o)
        <4>1. /\ ack[o].status = "sending"
              /\ task[d].result = "sent" => provider[o].accepted = 1
              /\ task[d].result = "failed" => provider[o].accepted = 0
          BY <2>2, <3>3 DEF Marks, LedgerIsTrue, SoleSender, Claimed, HoldersKnow, HolderKnows
        <4>2. PICK v \in {"sent", "failed", "unknown"} : v = task[d].result
          BY <3>3 DEF Marks
        <4>3. verdict' = [verdict EXCEPT ![o] = v] /\ arrived' = arrived
          BY <3>3, <4>2 DEF Marks
        <4>4. Promise!Close(o, v)
          BY <4>1, <4>2, <4>3 DEF Promise!Close
        <4> QED
          BY <4>4 DEF Promise!Next
      <3> QED
        BY <2>2, <3>1, <3>2, <3>3 DEF Acts
    <2>3. ASSUME NEW d \in Desk, AckStep(d)
          PROVE [Promise!Next]_<<verdict, arrived>>
      <3>1. Quiet(d) \/ \E o \in Order : o = task[d].order /\ Acts(d, o)
        BY <2>3, AckEffects DEF LedgerIsTrue
      <3> QED
        BY <2>1, <2>2, <3>1 DEF Quiet
    <2>4. UNCHANGED ackVars \/ \E d \in Desk : AckStep(d)
      BY OrdersMoveAlone
    <2>5. ASSUME UNCHANGED ackVars
          PROVE UNCHANGED <<ack, provider>>
      BY <2>5 DEF ackVars
    <2> QED
      BY <2>1, <2>3, <2>4, <2>5
  <1> QED
    BY <1>1, <1>2, AckInvariant, PTL DEF Spec, ImplementsAtMostOnce, Promise!Spec
==============================================================================
