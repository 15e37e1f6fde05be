------------------------------ MODULE OrderBook ------------------------------
(***************************************************************************)
(* From what customers say and operators type to what the dashboard shows:    *)
(* conversations whose turns are merged until they are an order, the New       *)
(* order page, OrderService.create_draft for both, and the figures of          *)
(* pages/2_Orders_Today.py and pages/3_Dashboard.py.                          *)
(*                                                                         *)
(* A turn of a conversation is one step up to the customer lookup: the claim   *)
(* keeps other turns out (InboundPipeline, which also has the failures in      *)
(* between).  create_draft looks the customer up in one transaction, creates   *)
(* it in a second and the order in a third; other conversations and pages may  *)
(* come in between.  The stages of an order are those of OrderLifecycle; here   *)
(* it moves on to any of them that Moves lists.                              *)
(***************************************************************************)
EXTENDS DraftMerge, Dashboard

CONSTANTS Conversation, NoConversation, Page,
          SessionPhone,   \* of each conversation
          Canonical,      \* Phone -> Phone: without spaces and dashes, once for all
                          \* (phones hold no other blanks)
          Active,         \* the products that are for sale
          Price,
          Parses,         \* bound: the snapshots the parser answers with
          Forms,          \* bound: what is filled in on the New order page
          TypedPhones,    \* bound: the phones with a parsed message there
          Moves,          \* bound: <<from, to>> statuses, however many moves apart
          Instants,       \* bound: the hours at which something happens
          MaxTurns, MaxOrders

Writer == Conversation \cup Page
OrderStatus == {"draft", "approved", "confirmed", "in_preparation", "ready",
                "delivered", "picked_up", "cancelled"}

ASSUME BookAssumption ==
    /\ IsFiniteSet(Writer) /\ Conversation \cap Page = {}
    /\ NoConversation \notin Conversation
    /\ SessionPhone \in [Conversation -> Phone]
    /\ Canonical \in [Phone -> Phone]
    /\ \A p \in Phone : Canonical[Canonical[p]] = Canonical[p]
    /\ IsFiniteSet(Product) /\ Active \subseteq Product
    /\ Price \in [Product -> Nat]
    /\ Moves \subseteq OrderStatus \X OrderStatus
    /\ Instants # {} /\ Instants \subseteq Nat
    /\ \A t \in Instants : LocalDate(t) >= 0  \* the Monday of day 0 is before all
    /\ MaxTurns \in Nat /\ MaxOrders \in Nat

\* What the parser and the forms may hold.
ASSUME InputAssumption ==
    /\ \A parse \in Parses :
          /\ parse.items \in Seq(RawItem)
          /\ parse.phone \in Phone \cup {NoPhone}
          /\ parse.packaging_fee \in Int
    /\ \A form \in Forms :
          /\ form.items \in [DOMAIN form.items -> Int]
          /\ DOMAIN form.items \subseteq ItemKey /\ IsFiniteSet(DOMAIN form.items)
          /\ form.phone \in Phone \cup {NoPhone}
          /\ form.packaging_fee \in Int
    /\ TypedPhones \subseteq Phone \cup {NoPhone}

VARIABLES now,        \* the hour
          draft,      \* accumulated draft of each conversation
          said,       \* the snapshots of its turns; forgotten with its order
          customers,  \* the phone of each customer record, in order of creation
          orders,     \* the orders, in order of creation
          placing     \* the create_draft call of a conversation or page

vars == <<now, draft, said, customers, orders, placing>>

NoRequest == ToRequest(NoDraft, NoPhone)
NoPlacing == [request |-> NoRequest, customer |-> 0]

IsOrder(order) ==
    /\ order.created_at \in Instants
    /\ order.status \in OrderStatus
    /\ order.conversation \in Conversation \cup {NoConversation}
    /\ order.customer \in 0..Len(customers)
    /\ (order.customer = 0) <=> (order.phone = NoPhone)
    /\ DOMAIN order.items \in (SUBSET ItemKey) \ {{}}
    /\ \A k \in DOMAIN order.items :
          order.items[k] \in [quantity : Nat \ {0}, line_total : Nat]

BookTypeOK ==
    /\ now \in Instants
    /\ \A c \in Conversation :
          /\ draft[c].conflicts \subseteq DOMAIN draft[c].items
          /\ DOMAIN draft[c].items \subseteq ItemKey
          /\ Len(said[c]) <= MaxTurns
    /\ \A i \in DOMAIN customers : customers[i] \in Phone
    /\ \A i \in DOMAIN orders : IsOrder(orders[i])
    /\ \A w \in Writer : placing[w].customer \in 0..Len(customers)

BookInit ==
    /\ now = Min(Instants)
    /\ draft = [c \in Conversation |-> NoDraft]
    /\ said = [c \in Conversation |-> <<>>]
    /\ customers = <<>>
    /\ orders = <<>>
    /\ placing = [w \in Writer |-> NoPlacing]

----------------------------------------------------------------------------
(* create_draft *)

\* Seeded fault: items without a quantity are ordered too.
AllItems(request) == DOMAIN request.items

PositiveItems(request) == {k \in DOMAIN request.items : request.items[k] > 0}

\* EmptyDraftError, ProductNotFoundError, InactiveProductError
IsRefused(request) ==
    \/ PositiveItems(request) = {}
    \/ \E k \in PositiveItems(request) : k[1] \notin Active

\* Seeded fault: phones are compared as they are typed.
FoundAsTyped(phone) == {i \in DOMAIN customers : customers[i] = phone}

\* get_customer_by_phone: any customer with that phone, as numbers are compared
\* after normalize_customer_phone.
Found(phone) ==
    IF phone = NoPhone THEN {}
    ELSE {i \in DOMAIN customers : Canonical[customers[i]] = Canonical[phone]}

Placing == {w \in Writer : placing[w] # NoPlacing}

\* The checks and the lookup; customer 0 is none yet.
BeginDraft(w, request) ==
    IF IsRefused(request)
      THEN UNCHANGED placing
      ELSE /\ Len(orders) + Cardinality(Placing) < MaxOrders
           /\ \E c \in IF Found(request.phone) = {} THEN {0} ELSE Found(request.phone) :
                 placing' = [placing EXCEPT ![w] = [request |-> request, customer |-> c]]

OrderLines(request) ==
    [k \in PositiveItems(request) |->
        [quantity |-> request.items[k], line_total |-> request.items[k] * Price[k[1]]]]

Subtotal(lines) == SumFunction([k \in DOMAIN lines |-> lines[k].line_total])

\* Seeded fault: the packaging fee is left out.
TotalWithoutFee(request) == Subtotal(OrderLines(request))

OrderTotal(request) == Subtotal(OrderLines(request)) + request.packaging_fee

NeedsCustomer(w) == placing[w].request.phone # NoPhone /\ placing[w].customer = 0

WithCustomer(w) ==
    IF NeedsCustomer(w) THEN Append(customers, Canonical[placing[w].request.phone])
    ELSE customers

NewOrder(w) ==
    LET request == placing[w].request
    IN [created_at |-> now, status |-> "draft",
        conversation |-> IF w \in Conversation THEN w ELSE NoConversation,
        customer |-> IF NeedsCustomer(w) THEN Len(customers) + 1 ELSE placing[w].customer,
        phone |-> IF request.phone = NoPhone THEN NoPhone ELSE Canonical[request.phone],
        items |-> OrderLines(request),
        packaging_fee |-> request.packaging_fee,
        total |-> OrderTotal(request)]

----------------------------------------------------------------------------
(* Conversations and pages *)

HasOrder(c) == \E i \in DOMAIN orders : orders[i].conversation = c

\* _advance_open_session, of a conversation that has no order yet.
Turn(c, parse) ==
    /\ c \notin Placing
    /\ ~HasOrder(c)
    /\ Len(said[c]) < MaxTurns
    /\ LET merged == Merged(draft[c], parse)
       IN /\ draft' = [draft EXCEPT ![c] = merged]
          /\ said' = [said EXCEPT ![c] = Append(@, parse)]
          /\ IF IsReady(merged, Active)
               THEN BeginDraft(c, ToRequest(merged, SessionPhone[c]))
               ELSE UNCHANGED placing
    /\ UNCHANGED <<now, customers, orders>>

\* "Crear borrador": the products and quantities of the form.
FillForm(p, form) ==
    /\ p \notin Placing
    /\ BeginDraft(p, form)
    /\ UNCHANGED <<now, draft, said, customers, orders>>

\* parsed_result_to_draft_candidate: without what the catalog does not have.
Candidate(raw_items) ==
    LET items == Snapshot(raw_items)
    IN [k \in {k \in DOMAIN items : k[1] # Unknown} |-> items[k]]

\* "Crear borrador con estos datos": a parsed message, with no packaging fee.
ReviewParse(p, parse, phone) ==
    /\ p \notin Placing
    /\ BeginDraft(p, [items |-> Candidate(parse.items), phone |-> phone, packaging_fee |-> 0])
    /\ UNCHANGED <<now, draft, said, customers, orders>>

\* The order is written, and before it the customer where there was none.
CreateOrder(w) ==
    /\ w \in Placing
    /\ customers' = WithCustomer(w)
    /\ orders' = Append(orders, NewOrder(w))
    /\ placing' = [placing EXCEPT ![w] = NoPlacing]
    /\ said' = IF w \in Conversation THEN [said EXCEPT ![w] = <<>>] ELSE said
    /\ UNCHANGED <<now, draft>>

\* The call ends before the order is written, with the customer or without.
FailToCreate(w) ==
    /\ w \in Placing
    /\ customers' \in {customers, WithCustomer(w)}
    /\ placing' = [placing EXCEPT ![w] = NoPlacing]
    /\ UNCHANGED <<now, draft, said, orders>>

\* An order goes on, by requests of OrderLifecycle.
Progress(i, to) ==
    /\ <<orders[i].status, to>> \in Moves
    /\ orders' = [orders EXCEPT ![i].status = to]
    /\ UNCHANGED <<now, draft, said, customers, placing>>

Advance ==
    /\ \E t \in Instants : t > now /\ now' = t
    /\ UNCHANGED <<draft, said, customers, orders, placing>>

Next ==
    \/ \E c \in Conversation, parse \in Parses : Turn(c, parse)
    \/ \E p \in Page, form \in Forms : FillForm(p, form)
    \/ \E p \in Page, parse \in Parses, phone \in TypedPhones : ReviewParse(p, parse, phone)
    \/ \E w \in Writer : CreateOrder(w) \/ FailToCreate(w)
    \/ \E i \in DOMAIN orders, to \in OrderStatus : Progress(i, to)
    \/ Advance

Spec == BookInit /\ [][Next]_vars

\* The week that _render_dashboard_body shows customers and products of.
WeekStart(today) == today - 6

----------------------------------------------------------------------------
(* Properties *)

LastSaying(c, k) == Max({n \in DOMAIN said[c] : k \in KeysOf(said[c][n].items)})

\* The draft of a conversation holds everything the parser ever found in it, as
\* it was found last; it becomes an order only as the latest reading of the
\* whole transcript has it, with nothing left out of it, unknown, or without a
\* quantity (services/accumulated_draft_merge.py:52, "full-transcript
\* snapshot").
DraftIsWhatWasSaid ==
    \A c \in Conversation : ~HasOrder(c) =>
        /\ DOMAIN draft[c].items = UNION {KeysOf(said[c][n].items) : n \in DOMAIN said[c]}
        /\ \A k \in DOMAIN draft[c].items :
              draft[c].items[k] = Snapshot(said[c][LastSaying(c, k)].items)[k]
        /\ c \in Placing =>
              LET latest == Snapshot(said[c][Len(said[c])].items)
              IN /\ placing[c].request.items = latest
                 /\ \A k \in DOMAIN latest : k[1] \in Active /\ latest[k] > 0

\* An order goes to a customer with its phone, however that was typed.  Two
\* first orders at once may each create a customer (services/orders.py:137), but
\* a phone never has more records than there are conversations and pages: a call
\* of theirs that starts later finds one.  This is Postgres, where a lookup sees
\* every commit; a page on Sheets may look in a customers tab of 30 seconds ago.
DuplicatesAreRaces ==
    /\ \A i \in DOMAIN orders : orders[i].customer # 0 =>
          customers[orders[i].customer] = orders[i].phone
    /\ \A phone \in Phone :
          Cardinality({i \in DOMAIN customers : customers[i] = Canonical[phone]})
              <= Cardinality(Writer)

\* The figures that operators see side by side agree over the edges of the local
\* day and week.  The list of pages/2_Orders_Today.py, which is today's in every
\* mode (line 282), has the orders that the pulse and the strip of a dashboard in
\* runtime mode count.  And within the dashboard, in both modes: the pulse and the
\* strip; the trend and the weeks that are compared, now and a week on; the
\* heatmap and four weeks; every customer is new in exactly one week.
FiguresAgree ==
    /\ LET today == ReferenceDate(orders, "runtime", PageDate(now))
       IN /\ Cardinality(TodayOrders(orders, PageDate(now), TRUE)) =
                 TodaysPulse(orders, today).orders_count
          /\ Cardinality(TodayOrders(orders, PageDate(now), FALSE)) =
                 TodaysStatusStrip(orders, today).pending
    /\ \A today \in {ReferenceDate(orders, mode, PageDate(now)) : mode \in {"runtime", "demo"}} :
        LET pulse == TodaysPulse(orders, today)
            strip == TodaysStatusStrip(orders, today)
            trend == WeekTrend(orders, today)
            wow == WeekOverWeek(orders, today)
            breakdown == StatusBreakdown(orders)
            heatmap == TimeOfDayHeatmap(orders, today)
            sinceMonday == (today - Weekday(today))..today
        IN /\ strip.completed + strip.pending + strip.cancelled = pulse.orders_count
           /\ trend[today] = [orders_count |-> pulse.orders_count, revenue |-> pulse.revenue]
           /\ wow.current.orders_count = SumFunction([d \in sinceMonday |-> trend[d].orders_count])
           /\ wow.current.revenue = SumFunction([d \in sinceMonday |-> trend[d].revenue])
           /\ WeekOverWeek(orders, today + 7).previous = wow.current
           /\ (wow.has_comparison /\ wow.current.non_cancelled = wow.previous.non_cancelled)
                 => wow.aov = wow.revenue
           /\ SumFunction(breakdown) = Len(orders)
           /\ SumFunction([wd \in 0..6 |-> SumFunction([h \in 0..23 |-> heatmap[wd, h]])]) =
                 SumFunction([w \in 0..3 |->
                     PeriodKpi(orders, today - 7 * w - 6, today - 7 * w).orders_count])
           /\ SumFunction([w \in 0..(today \div 7) |->
                     CustomerMix(orders, WeekStart(today - 7 * w)).new_customers]) =
                 Cardinality({orders[i].customer : i \in DOMAIN orders} \ {0})

\* What the lines of the orders say is what the week's figures say: with the
\* packaging fees, product revenue is what customers and passers-by spent, the
\* revenue plus what was cancelled; every order with n products makes its
\* n(n-1)/2 pairs; the best product is the best of its category.
MoneyAddsUp ==
    LET today == PageDate(now)
        start == WeekStart(today)
        week == WeekOf(orders, start)
        items == TopItems(orders, start, Cardinality(Product))
        spent == TopCustomers(orders, DOMAIN customers, start, Len(customers))
        pairs == ProductPairs(orders, start, Cardinality(Product \X Product))
        trend == WeekTrend(orders, today)
        all == SumFunction([e \in items |-> e.revenue])
               + SumFunction([i \in week |-> orders[i].packaging_fee])
    IN /\ all = SumFunction([d \in start..today |-> trend[d].revenue])
                + TotalOf(orders, InBucket(orders, week, "cancelled"))
       /\ all = SumFunction([e \in spent |-> e.total_spend])
                + TotalOf(orders, {i \in week : orders[i].customer = 0})
       /\ 2 * SumFunction([e \in pairs |-> e.count]) =
             SumFunction([i \in week |-> LET n == Cardinality(ProductsOf(orders[i]))
                                         IN n * (n - 1)])
       /\ TopItems(orders, start, 1) \subseteq TopItemsByCategory(orders, start, 1)
==============================================================================
