------------------------------ MODULE Dashboard ------------------------------
(***************************************************************************)
(* The figures of services/dashboard.py and the list of                      *)
(* services/order_visibility.py, as functions of the orders that were read,   *)
(* by number, and of a local date.                                          *)
(*                                                                         *)
(* Times are hours since a Monday at 00:00 UTC, dates are days since that      *)
(* Monday in Bogota, which is five hours behind and has no summer time.       *)
(* Money is counted in whole units, a ratio is the pair of its terms.         *)
(***************************************************************************)
EXTENDS Integers, FiniteSetsExt, Functions

CONSTANT Category   \* the category of each product

DashboardOffset == -5  \* DASHBOARD_TIMEZONE
SettingsOffset == -5   \* settings.default_timezone, which says the same

\* Seeded fault: the date in UTC.
UtcDate(t) == t \div 24

\* _local_datetime and its parts.
LocalDate(t) == (t + DashboardOffset) \div 24
Hour(t) == (t + DashboardOffset) % 24
Weekday(date) == date % 7

\* resolve_reference_date
ReferenceDate(orders, mode, today) ==
    LET dates == {LocalDate(orders[i].created_at) : i \in DOMAIN orders}
    IN IF mode = "demo" /\ dates # {} THEN Max(dates) ELSE today

StatusBucket(status) ==
    CASE status \in {"draft", "cancelled"} -> status
      [] status \in {"delivered", "picked_up"} -> "completed"
      [] OTHER -> "confirmed"

\* datetime.now(settings.default_timezone) and order_created_on_local_date.
PageDate(t) == (t + SettingsOffset) \div 24

\* filter_today_orders
COMPLETED_ORDER_STATUSES == {"delivered", "picked_up", "cancelled"}

TodayOrders(orders, today, include_completed) ==
    {i \in DOMAIN orders :
        /\ PageDate(orders[i].created_at) = today
        /\ include_completed \/ orders[i].status \notin COMPLETED_ORDER_STATUSES}

----------------------------------------------------------------------------
(* Periods *)

\* _period_orders
PeriodOrders(orders, start, end) ==
    {i \in DOMAIN orders : LocalDate(orders[i].created_at) \in start..end}

InBucket(orders, ids, bucket) == {i \in ids : StatusBucket(orders[i].status) = bucket}

TotalOf(orders, ids) == SumFunction([i \in ids |-> orders[i].total])

\* _period_kpi; the average order value and the cancellation rate are 0 where
\* there is nothing to divide by.
Ratio(n, d) == IF d = 0 THEN <<0, 1>> ELSE <<n, d>>

PeriodKpi(orders, start, end) ==
    LET all == PeriodOrders(orders, start, end)
        cancelled == InBucket(orders, all, "cancelled")
        kept == all \ cancelled
        revenue == TotalOf(orders, kept)
    IN [orders_count |-> Cardinality(all),
        non_cancelled |-> Cardinality(kept),
        cancelled |-> Cardinality(cancelled),
        revenue |-> revenue,
        aov |-> Ratio(revenue, Cardinality(kept)),
        cancellation_rate |-> Ratio(Cardinality(cancelled), Cardinality(all))]

\* compute_todays_pulse
TodaysPulse(orders, today) == PeriodKpi(orders, today, today)

\* compute_todays_status_strip
TodaysStatusStrip(orders, today) ==
    LET todays == {i \in DOMAIN orders : LocalDate(orders[i].created_at) = today}
        Count(bucket) == Cardinality(InBucket(orders, todays, bucket))
    IN [completed |-> Count("completed"),
        pending |-> Count("draft") + Count("confirmed"),
        cancelled |-> Count("cancelled")]

\* compute_week_trend
WeekTrend(orders, today) ==
    [day \in (today - 6)..today |->
        LET kpi == PeriodKpi(orders, day, day)
        IN [orders_count |-> kpi.orders_count, revenue |-> kpi.revenue]]

\* compute_status_breakdown
StatusBreakdown(orders) ==
    [bucket \in {"draft", "confirmed", "completed", "cancelled"} |->
        Cardinality(InBucket(orders, DOMAIN orders, bucket))]

----------------------------------------------------------------------------
(* This week against the last *)

Sign(n) == IF n > 0 THEN 1 ELSE IF n < 0 THEN -1 ELSE 0

\* _metric_arrow and _metric_color of a delta with that sign.
Arrow(delta) == CASE delta = 1 -> "up" [] delta = -1 -> "down" [] OTHER -> "flat"

Color(delta, higher_is_better) ==
    IF delta = 0 THEN "neutral"
    ELSE IF higher_is_better = (delta = 1) THEN "green" ELSE "red"

\* _week_over_week_metric of two ratios; a count is a ratio to 1.
Metric(value, previous, has_comparison, higher_is_better) ==
    LET delta == Sign(value[1] * previous[2] - previous[1] * value[2])
    IN IF has_comparison
         THEN [arrow |-> Arrow(delta), color |-> Color(delta, higher_is_better)]
         ELSE [arrow |-> "none", color |-> "neutral"]

\* compute_week_over_week: from Monday to the reference date, and the same days
\* of the week before.
WeekOverWeek(orders, reference) ==
    LET start == reference - Weekday(reference)
        current == PeriodKpi(orders, start, reference)
        previous == PeriodKpi(orders, start - 7, reference - 7)
        compared == previous.orders_count > 0
    IN [current |-> current,
        previous |-> previous,
        has_comparison |-> compared,
        orders |-> Metric(<<current.orders_count, 1>>, <<previous.orders_count, 1>>,
                          compared, TRUE),
        revenue |-> Metric(<<current.revenue, 1>>, <<previous.revenue, 1>>, compared, TRUE),
        aov |-> Metric(current.aov, previous.aov, compared, TRUE),
        cancellation_rate |-> Metric(current.cancellation_rate,
                                     previous.cancellation_rate, compared, FALSE)]

----------------------------------------------------------------------------
(* Customers; 0 stands for an order without one *)

WeekOf(orders, week_start) == PeriodOrders(orders, week_start, week_start + 6)

\* The first order's date, of the customers that have one.
FirstOrderDate(orders, customer) ==
    Min({LocalDate(orders[i].created_at) :
            i \in {j \in DOMAIN orders : orders[j].customer = customer}})

\* compute_customer_mix
CustomerMix(orders, week_start) ==
    LET here == {orders[i].customer : i \in WeekOf(orders, week_start)} \ {0}
        new == {c \in here : FirstOrderDate(orders, c) >= week_start}
    IN [new_customers |-> Cardinality(new),
        repeat_customers |-> Cardinality(here \ new)]

\* The entries that fewer than limit others come before.
Ranked(entries, Before(_, _), limit) ==
    {e \in entries : Cardinality({f \in entries : Before(f, e)}) < limit}

\* compute_top_customers, of the customers that were read with the orders; names
\* are ordered like the numbers of customers.
TopCustomers(orders, known, week_start, limit) ==
    LET here == WeekOf(orders, week_start)
        Of(c) == {i \in here : orders[i].customer = c}
        entries == {[customer |-> c, order_count |-> Cardinality(Of(c)),
                     total_spend |-> TotalOf(orders, Of(c))] :
                       c \in {orders[i].customer : i \in here} \cap known}
        Before(e, f) == \/ e.total_spend > f.total_spend
                        \/ e.total_spend = f.total_spend /\ e.customer < f.customer
    IN Ranked(entries, Before, limit)

----------------------------------------------------------------------------
(* Products *)

Lines(orders, ids) == UNION {{i} \X DOMAIN orders[i].items : i \in ids}

ProductsOf(order) == {k[1] : k \in DOMAIN order.items}

\* What the loops of compute_top_items and compute_top_items_by_category add
\* up: quantity and revenue of each product in a week's orders.
ItemEntries(orders, week_start) ==
    LET lines == Lines(orders, WeekOf(orders, week_start))
        Of(p) == {l \in lines : l[2][1] = p}
        Item(l) == orders[l[1]].items[l[2]]
    IN {[product |-> p,
         quantity |-> SumFunction([l \in Of(p) |-> Item(l).quantity]),
         revenue |-> SumFunction([l \in Of(p) |-> Item(l).line_total])] :
            p \in {l[2][1] : l \in lines}}

\* By name where the quantity is the same, see TopCustomers.
SellsBetter(e, f) == \/ e.quantity > f.quantity
                     \/ e.quantity = f.quantity /\ e.product < f.product

\* compute_top_items
TopItems(orders, week_start, limit) ==
    Ranked(ItemEntries(orders, week_start), SellsBetter, limit)

\* compute_top_items_by_category
TopItemsByCategory(orders, week_start, limit) ==
    LET entries == ItemEntries(orders, week_start)
    IN UNION {Ranked({e \in entries : Category[e.product] = c}, SellsBetter, limit) :
                 c \in {Category[e.product] : e \in entries}}

\* compute_product_pairs.  Where the count is the same the first pair goes first;
\* the code compares the two ids written one after the other, which differs in
\* the order of the list alone.
ProductPairs(orders, week_start, limit) ==
    LET here == WeekOf(orders, week_start)
        pairs == UNION {{pr \in ProductsOf(orders[i]) \X ProductsOf(orders[i]) :
                            pr[1] < pr[2]} : i \in here}
        entries == {[pair |-> pr,
                     count |-> Cardinality({i \in here : {pr[1], pr[2]} \subseteq
                                               ProductsOf(orders[i])})] : pr \in pairs}
        Before(e, f) == \/ e.count > f.count
                        \/ /\ e.count = f.count
                           /\ \/ e.pair[1] < f.pair[1]
                              \/ e.pair[1] = f.pair[1] /\ e.pair[2] < f.pair[2]
    IN Ranked(entries, Before, limit)

\* compute_time_of_day_heatmap, over 28 days.
TimeOfDayHeatmap(orders, today) ==
    LET window == PeriodOrders(orders, today - 27, today)
    IN [cell \in (0..6) \X (0..23) |->
           Cardinality({i \in window :
                           /\ Weekday(LocalDate(orders[i].created_at)) = cell[1]
                           /\ Hour(orders[i].created_at) = cell[2]})]
==============================================================================
