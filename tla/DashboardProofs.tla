--------------------------- MODULE DashboardProofs ---------------------------
(***************************************************************************)
(* The figures of the dashboard, for any list of orders: they count the same  *)
(* orders and the same money, sliced differently.  Everything is cut into     *)
(* parts by a function of the orders (day, week, hour, bucket, product,       *)
(* customer) and added up again, see SumByParts and CountByParts.            *)
(***************************************************************************)
EXTENDS Dashboard, SumProofs

Dated(orders) ==
    /\ IsFiniteSet(DOMAIN orders)
    /\ \A i \in DOMAIN orders :
          orders[i].created_at \in Int /\ orders[i].total \in Int

DateOf(orders) == [i \in DOMAIN orders |-> LocalDate(orders[i].created_at)]
TotalsOf(orders) == [i \in DOMAIN orders |-> orders[i].total]

\* The orders of a period that count as revenue.
Kept(orders, start, end) ==
    PeriodOrders(orders, start, end)
        \ InBucket(orders, PeriodOrders(orders, start, end), "cancelled")

Buckets == {"draft", "confirmed", "completed", "cancelled"}

LEMMA DatesAre ==
    \A t \in Int : LocalDate(t) \in Int /\ Hour(t) \in 0..23 /\ PageDate(t) = LocalDate(t)
  BY DEF LocalDate, Hour, PageDate, DashboardOffset, SettingsOffset

LEMMA BucketsAre == \A status : StatusBucket(status) \in Buckets
  BY DEF StatusBucket, Buckets

LEMMA PeriodIs ==
    ASSUME NEW orders, Dated(orders), NEW start \in Int, NEW end \in Int
    PROVE  /\ PeriodOrders(orders, start, end) =
                 {i \in DOMAIN orders : DateOf(orders)[i] \in start..end}
           /\ PeriodOrders(orders, start, end) \in SUBSET DOMAIN orders
           /\ IsFiniteSet(PeriodOrders(orders, start, end))
           /\ Kept(orders, start, end) \in SUBSET PeriodOrders(orders, start, end)
           /\ IsFiniteSet(Kept(orders, start, end))
           /\ \A i \in DOMAIN orders : DateOf(orders)[i] \in Int
  <1>1. PeriodOrders(orders, start, end) =
           {i \in DOMAIN orders : DateOf(orders)[i] \in start..end}
    BY DEF PeriodOrders, DateOf
  <1>2. PeriodOrders(orders, start, end) \in SUBSET DOMAIN orders
    BY DEF PeriodOrders
  <1>3. Kept(orders, start, end) \in SUBSET PeriodOrders(orders, start, end)
    BY DEF Kept
  <1>4. /\ IsFiniteSet(PeriodOrders(orders, start, end))
        /\ IsFiniteSet(Kept(orders, start, end))
    BY <1>2, <1>3, FS_Subset DEF Dated
  <1>5. \A i \in DOMAIN orders : DateOf(orders)[i] \in Int
    BY DatesAre DEF DateOf, Dated
  <1> QED
    BY <1>1, <1>2, <1>3, <1>4, <1>5

LEMMA TotalIs ==
    ASSUME NEW orders, Dated(orders), NEW ids \in SUBSET DOMAIN orders
    PROVE  /\ TotalOf(orders, ids) = Sum(TotalsOf(orders), ids)
           /\ Sum(TotalsOf(orders), ids) \in Int
           /\ IsFiniteSet(ids)
           /\ \A i \in DOMAIN orders : TotalsOf(orders)[i] \in Int
  <1> DEFINE f == [i \in ids |-> orders[i].total]
  <1>1. IsFiniteSet(ids)
    BY FS_Subset DEF Dated
  <1>2. TotalOf(orders, ids) = SumFunction(f)
    BY DEF TotalOf
  <1>3. DOMAIN f = ids /\ \A i \in ids : f[i] = TotalsOf(orders)[i]
    BY DEF TotalsOf
  <1>4. \A i \in DOMAIN orders : TotalsOf(orders)[i] \in Int
    BY DEF TotalsOf, Dated
  <1> HIDE DEF f
  <1>5. SumFunction(f) = Sum(f, ids)
    BY <1>3, SumOfFunction
  <1>6. Sum(f, ids) = Sum(TotalsOf(orders), ids)
    BY <1>1, <1>3, SumAgrees
  <1>7. Sum(TotalsOf(orders), ids) \in Int
    BY <1>1, <1>4, SumIsNumber
  <1> QED
    BY <1>1, <1>2, <1>4, <1>5, <1>6, <1>7

LEMMA KpiIs ==
    ASSUME NEW orders, Dated(orders), NEW start \in Int, NEW end \in Int
    PROVE  LET kpi == PeriodKpi(orders, start, end)
           IN /\ kpi.orders_count = Cardinality(PeriodOrders(orders, start, end))
              /\ kpi.non_cancelled = Cardinality(Kept(orders, start, end))
              /\ kpi.revenue = Sum(TotalsOf(orders), Kept(orders, start, end))
              /\ kpi.aov = Ratio(kpi.revenue, kpi.non_cancelled)
              /\ kpi.revenue \in Int /\ kpi.non_cancelled \in Nat
  <1> DEFINE kpi == PeriodKpi(orders, start, end)
  <1>1. /\ kpi.orders_count = Cardinality(PeriodOrders(orders, start, end))
        /\ kpi.non_cancelled = Cardinality(Kept(orders, start, end))
        /\ kpi.revenue = TotalOf(orders, Kept(orders, start, end))
        /\ kpi.aov = Ratio(kpi.revenue, kpi.non_cancelled)
    BY DEF PeriodKpi, Kept
  <1>2. Kept(orders, start, end) \in SUBSET DOMAIN orders /\ IsFiniteSet(Kept(orders, start, end))
    BY PeriodIs
  <1>3. /\ TotalOf(orders, Kept(orders, start, end)) =
              Sum(TotalsOf(orders), Kept(orders, start, end))
        /\ Sum(TotalsOf(orders), Kept(orders, start, end)) \in Int
    BY <1>2, TotalIs
  <1>4. Cardinality(Kept(orders, start, end)) \in Nat
    BY <1>2, FS_CardinalityType
  <1> HIDE DEF kpi
  <1>5. /\ kpi.revenue = Sum(TotalsOf(orders), Kept(orders, start, end))
        /\ kpi.revenue \in Int /\ kpi.non_cancelled \in Nat
    BY <1>1, <1>3, <1>4
  <1> QED
    BY <1>1, <1>5 DEF kpi

\* A period is its days.
LEMMA PeriodByDays ==
    ASSUME NEW orders, Dated(orders), NEW start \in Int, NEW end \in Int
    PROVE  /\ PeriodKpi(orders, start, end).orders_count =
                 Sum([d \in start..end |-> PeriodKpi(orders, d, d).orders_count], start..end)
           /\ PeriodKpi(orders, start, end).revenue =
                 Sum([d \in start..end |-> PeriodKpi(orders, d, d).revenue], start..end)
  <1> DEFINE all == PeriodOrders(orders, start, end)
             kept == Kept(orders, start, end)
             m == DateOf(orders)
             totals == TotalsOf(orders)
             D == start..end
             counts == [d \in D |-> Cardinality({i \in all : m[i] = d})]
             sums == [d \in D |-> Sum(totals, {i \in kept : m[i] = d})]
             dayCounts == [d \in D |-> PeriodKpi(orders, d, d).orders_count]
             daySums == [d \in D |-> PeriodKpi(orders, d, d).revenue]
  <1>1. /\ IsFiniteSet(all) /\ IsFiniteSet(kept) /\ kept \in SUBSET all
        /\ all = {i \in DOMAIN orders : m[i] \in D}
        /\ \A i \in DOMAIN orders : m[i] \in Int
    BY PeriodIs
  <1>2. IsFiniteSet(D)
    BY FS_Interval
  <1>3. \A i \in kept : totals[i] \in Int
    BY <1>1 DEF TotalsOf, Dated
  <1>4. \A d \in D : /\ {i \in all : m[i] = d} = PeriodOrders(orders, d, d)
                     /\ {i \in kept : m[i] = d} = Kept(orders, d, d)
    <2> TAKE d \in D
    <2>1. d \in Int /\ \A e \in Int : e \in d..d <=> e = d
      OBVIOUS
    <2>2. PeriodOrders(orders, d, d) = {i \in DOMAIN orders : m[i] \in d..d}
      BY <2>1, PeriodIs
    <2>3. {i \in all : m[i] = d} = PeriodOrders(orders, d, d)
      <3> HIDE DEF all, D, m
      <3> QED
        BY <1>1, <2>1, <2>2
    <2>4. kept = {i \in all : StatusBucket(orders[i].status) # "cancelled"}
      BY DEF Kept, InBucket
    <2>5. Kept(orders, d, d) =
             {i \in PeriodOrders(orders, d, d) : StatusBucket(orders[i].status) # "cancelled"}
      BY DEF Kept, InBucket
    <2> HIDE DEF all, kept, D, m
    <2>6. {i \in kept : m[i] = d} = Kept(orders, d, d)
      BY <2>3, <2>4, <2>5
    <2> QED
      BY <2>3, <2>6
  <1>5. \A d \in D : counts[d] = dayCounts[d] /\ sums[d] = daySums[d]
    <2> TAKE d \in D
    <2>1. d \in Int
      OBVIOUS
    <2>2. /\ PeriodKpi(orders, d, d).orders_count = Cardinality(PeriodOrders(orders, d, d))
          /\ PeriodKpi(orders, d, d).revenue = Sum(totals, Kept(orders, d, d))
      BY <2>1, KpiIs
    <2>3. /\ Cardinality({i \in all : m[i] = d}) = Cardinality(PeriodOrders(orders, d, d))
          /\ Sum(totals, {i \in kept : m[i] = d}) = Sum(totals, Kept(orders, d, d))
      <3>1. /\ {i \in all : m[i] = d} = PeriodOrders(orders, d, d)
            /\ {i \in kept : m[i] = d} = Kept(orders, d, d)
        BY <1>4
      <3> QED
        BY <3>1, Zenon
    <2>4. counts[d] = Cardinality({i \in all : m[i] = d})
          /\ sums[d] = Sum(totals, {i \in kept : m[i] = d})
          /\ dayCounts[d] = PeriodKpi(orders, d, d).orders_count
          /\ daySums[d] = PeriodKpi(orders, d, d).revenue
      OBVIOUS
    <2> HIDE DEF counts, sums, dayCounts, daySums, all, kept, totals, m
    <2> QED
      BY <2>2, <2>3, <2>4
  <1>6. /\ PeriodKpi(orders, start, end).orders_count = Cardinality(all)
        /\ PeriodKpi(orders, start, end).revenue = Sum(totals, kept)
    BY KpiIs
  <1> HIDE DEF all, kept, m, totals, D
  <1>7. \A i \in all : m[i] \in D
    BY <1>1
  <1>8. Cardinality(all) = Sum(counts, D)
    BY <1>1, <1>2, <1>7, CountByParts
  <1>9. Sum(totals, kept) = Sum(sums, D)
    <2>1. \A i \in kept : m[i] \in D
      BY <1>1, <1>7
    <2> QED
      BY <1>1, <1>2, <1>3, <2>1, SumByParts
  <1> HIDE DEF counts, sums, dayCounts, daySums
  <1>10. Sum(counts, D) = Sum(dayCounts, D) /\ Sum(sums, D) = Sum(daySums, D)
    BY <1>2, <1>5, SumAgrees
  <1>11. /\ PeriodKpi(orders, start, end).orders_count = Sum(dayCounts, D)
         /\ PeriodKpi(orders, start, end).revenue = Sum(daySums, D)
    BY <1>6, <1>8, <1>9, <1>10
  <1> QED
    BY <1>11 DEF dayCounts, daySums, D

\* The days of the trend make up the period that ends today.
LEMMA TrendAddsUp ==
    ASSUME NEW orders, Dated(orders), NEW today \in Int, NEW start \in Int,
           start >= today - 6
    PROVE  /\ SumFunction([d \in start..today |-> WeekTrend(orders, today)[d].orders_count]) =
                 PeriodKpi(orders, start, today).orders_count
           /\ SumFunction([d \in start..today |-> WeekTrend(orders, today)[d].revenue]) =
                 PeriodKpi(orders, start, today).revenue
  <1>1. /\ PeriodKpi(orders, start, today).orders_count =
              Sum([d \in start..today |-> PeriodKpi(orders, d, d).orders_count], start..today)
        /\ PeriodKpi(orders, start, today).revenue =
              Sum([d \in start..today |-> PeriodKpi(orders, d, d).revenue], start..today)
    BY PeriodByDays
  <1> DEFINE D == start..today
             trend == WeekTrend(orders, today)
             counts == [d \in D |-> PeriodKpi(orders, d, d).orders_count]
             sums == [d \in D |-> PeriodKpi(orders, d, d).revenue]
             trendCounts == [d \in D |-> trend[d].orders_count]
             trendSums == [d \in D |-> trend[d].revenue]
  <1>2. \A d \in D : /\ trend[d].orders_count = PeriodKpi(orders, d, d).orders_count
                     /\ trend[d].revenue = PeriodKpi(orders, d, d).revenue
    <2> TAKE d \in D
    <2>1. d \in (today - 6)..today
      OBVIOUS
    <2> QED
      BY <2>1 DEF WeekTrend
  <1> HIDE DEF D, trend
  <1>3. trendCounts = counts /\ trendSums = sums
    BY <1>2
  <1>4. SumFunction(trendCounts) = Sum(counts, D) /\ SumFunction(trendSums) = Sum(sums, D)
    <2>1. DOMAIN counts = D /\ DOMAIN sums = D
      OBVIOUS
    <2> HIDE DEF counts, sums, trendCounts, trendSums
    <2>2. SumFunction(counts) = Sum(counts, D) /\ SumFunction(sums) = Sum(sums, D)
      BY <2>1, SumOfFunction
    <2> QED
      BY <1>3, <2>2
  <1>5. /\ Sum(counts, D) = PeriodKpi(orders, start, today).orders_count
        /\ Sum(sums, D) = PeriodKpi(orders, start, today).revenue
    BY <1>1, Zenon DEF D
  <1> HIDE DEF counts, sums, trendCounts, trendSums
  <1>6. /\ SumFunction(trendCounts) = PeriodKpi(orders, start, today).orders_count
        /\ SumFunction(trendSums) = PeriodKpi(orders, start, today).revenue
    BY <1>4, <1>5
  <1> QED
    BY <1>6 DEF trendCounts, trendSums, D, trend

\* The strip is the day's orders, and so is the list of pages/2_Orders_Today.py.
LEMMA StripAddsUp ==
    ASSUME NEW orders, Dated(orders), NEW today \in Int
    PROVE  LET strip == TodaysStatusStrip(orders, today)
               pulse == TodaysPulse(orders, today)
           IN /\ strip.completed + strip.pending + strip.cancelled = pulse.orders_count
              /\ Cardinality(TodayOrders(orders, today, TRUE)) = pulse.orders_count
              /\ Cardinality(TodayOrders(orders, today, FALSE)) = strip.pending
  <1> DEFINE S == {i \in DOMAIN orders : LocalDate(orders[i].created_at) = today}
             Of(bucket) == InBucket(orders, S, bucket)
             open == TodayOrders(orders, today, FALSE)
             strip == TodaysStatusStrip(orders, today)
  <1>1. S = PeriodOrders(orders, today, today)
    <2>1. \A e \in Int : e \in today..today <=> e = today
      OBVIOUS
    <2>2. \A i \in DOMAIN orders : LocalDate(orders[i].created_at) \in Int
      BY DatesAre DEF Dated
    <2> QED
      BY <2>1, <2>2 DEF PeriodOrders
  <1>2. IsFiniteSet(S)
    BY <1>1, PeriodIs
  <1>3. TodayOrders(orders, today, TRUE) = S
    BY DatesAre DEF TodayOrders, Dated
  <1>4. /\ open = {i \in S : StatusBucket(orders[i].status) \in {"draft", "confirmed"}}
        /\ open \in SUBSET S
    <2>1. \A status : status \notin COMPLETED_ORDER_STATUSES <=>
                          StatusBucket(status) \in {"draft", "confirmed"}
      BY DEF COMPLETED_ORDER_STATUSES, StatusBucket
    <2> QED
      BY <2>1, DatesAre DEF TodayOrders, Dated
  <1>5. /\ Of("draft") \in SUBSET open /\ open \ Of("draft") = Of("confirmed")
        /\ Of("completed") \in SUBSET (S \ open)
        /\ (S \ open) \ Of("completed") = Of("cancelled")
    <2>1. \A i \in S : StatusBucket(orders[i].status) \in Buckets
      BY BucketsAre
    <2> HIDE DEF S, open
    <2> QED
      BY <1>4, <2>1 DEF Buckets, InBucket
  <1>6. /\ strip.completed = Cardinality(Of("completed"))
        /\ strip.pending = Cardinality(Of("draft")) + Cardinality(Of("confirmed"))
        /\ strip.cancelled = Cardinality(Of("cancelled"))
    BY DEF TodaysStatusStrip
  <1>7. TodaysPulse(orders, today).orders_count = Cardinality(S)
    BY <1>1, KpiIs DEF TodaysPulse
  <1> HIDE DEF S, open, Of, strip
  <1>8. /\ Cardinality(S) = Cardinality(open) + Cardinality(S \ open)
        /\ IsFiniteSet(open) /\ IsFiniteSet(S \ open)
    BY <1>2, <1>4, CountSplit
  <1>9. /\ Cardinality(open) = Cardinality(Of("draft")) + Cardinality(open \ Of("draft"))
        /\ Cardinality(Of("draft")) \in Nat /\ Cardinality(open \ Of("draft")) \in Nat
    BY <1>5, <1>8, CountSplit
  <1>10. /\ Cardinality(S \ open) =
               Cardinality(Of("completed")) + Cardinality((S \ open) \ Of("completed"))
         /\ Cardinality(Of("completed")) \in Nat
         /\ Cardinality((S \ open) \ Of("completed")) \in Nat
    BY <1>5, <1>8, CountSplit
  <1>11. /\ Cardinality(open \ Of("draft")) = Cardinality(Of("confirmed"))
         /\ Cardinality((S \ open) \ Of("completed")) = Cardinality(Of("cancelled"))
    BY <1>5
  <1>12. strip.completed + strip.pending + strip.cancelled = Cardinality(S)
    BY <1>6, <1>8, <1>9, <1>10, <1>11
  <1>13. Cardinality(open) = strip.pending
    BY <1>6, <1>9, <1>11
  <1> QED
    BY <1>3, <1>7, <1>12, <1>13 DEF strip, open

\* Every order is in one bucket.
LEMMA BreakdownAddsUp ==
    ASSUME NEW orders, Dated(orders)
    PROVE  SumFunction(StatusBreakdown(orders)) = Cardinality(DOMAIN orders)
  <1> DEFINE S == DOMAIN orders
             m == [i \in S |-> StatusBucket(orders[i].status)]
             parts == [d \in Buckets |-> Cardinality({i \in S : m[i] = d})]
  <1>1. \A i \in S : m[i] \in Buckets
    BY BucketsAre
  <1>2. IsFiniteSet(S) /\ IsFiniteSet(Buckets)
    <2>1. IsFiniteSet({"draft", "confirmed", "completed"} \cup {"cancelled"})
      <3>1. IsFiniteSet({"draft"}) 
        BY FS_Singleton
      <3>2. IsFiniteSet({"draft"} \cup {"confirmed"})
        BY <3>1, FS_AddElement
      <3>3. IsFiniteSet(({"draft"} \cup {"confirmed"}) \cup {"completed"})
        BY <3>2, FS_AddElement
      <3>4. IsFiniteSet((({"draft"} \cup {"confirmed"}) \cup {"completed"}) \cup {"cancelled"})
        BY <3>3, FS_AddElement
      <3>5. (({"draft"} \cup {"confirmed"}) \cup {"completed"}) \cup {"cancelled"} =
               {"draft", "confirmed", "completed"} \cup {"cancelled"}
        OBVIOUS
      <3> QED
        BY <3>4, <3>5
    <2>2. Buckets = {"draft", "confirmed", "completed"} \cup {"cancelled"}
      BY DEF Buckets
    <2> QED
      BY <2>1, <2>2 DEF Dated
  <1>3. StatusBreakdown(orders) = parts
    <2>1. \A d \in Buckets : InBucket(orders, S, d) = {i \in S : m[i] = d}
      BY DEF InBucket
    <2>2. StatusBreakdown(orders) = [d \in Buckets |-> Cardinality(InBucket(orders, S, d))]
      BY DEF StatusBreakdown, Buckets
    <2> HIDE DEF m, S
    <2> QED
      BY <2>1, <2>2
  <1> HIDE DEF S, m
  <1>4. Cardinality(S) = Sum(parts, Buckets)
    BY <1>1, <1>2, CountByParts
  <1>5. DOMAIN parts = Buckets
    OBVIOUS
  <1> HIDE DEF parts
  <1>6. SumFunction(parts) = Sum(parts, Buckets)
    BY <1>5, SumOfFunction
  <1> QED
    BY <1>3, <1>4, <1>6 DEF S

\* What was this week's is last week's a week later.
LEMMA WeekLater ==
    ASSUME NEW orders, NEW today \in Int
    PROVE  WeekOverWeek(orders, today + 7).previous = WeekOverWeek(orders, today).current
  <1>1. /\ (today + 7) - Weekday(today + 7) - 7 = today - Weekday(today)
        /\ (today + 7) - 7 = today
    BY DEF Weekday
  <1>2. /\ WeekOverWeek(orders, today + 7).previous =
              PeriodKpi(orders, (today + 7) - Weekday(today + 7) - 7, (today + 7) - 7)
        /\ WeekOverWeek(orders, today).current =
              PeriodKpi(orders, today - Weekday(today), today)
    BY DEF WeekOverWeek
  <1> QED
    BY <1>1, <1>2

\* With as many orders that count, the average goes the way of the revenue.
LEMMA AverageFollowsRevenue ==
    ASSUME NEW orders, Dated(orders), NEW today \in Int,
           WeekOverWeek(orders, today).current.non_cancelled =
               WeekOverWeek(orders, today).previous.non_cancelled
    PROVE  WeekOverWeek(orders, today).aov = WeekOverWeek(orders, today).revenue
  <1> DEFINE wow == WeekOverWeek(orders, today)
             start == today - Weekday(today)
             current == PeriodKpi(orders, start, today)
             previous == PeriodKpi(orders, start - 7, today - 7)
             a == current.revenue
             b == previous.revenue
             n == current.non_cancelled
  <1>1. start \in Int /\ start - 7 \in Int /\ today - 7 \in Int
    BY DEF Weekday
  <1>2. /\ wow.current = current /\ wow.previous = previous
        /\ wow.aov = Metric(current.aov, previous.aov, wow.has_comparison, TRUE)
        /\ wow.revenue = Metric(<<a, 1>>, <<b, 1>>, wow.has_comparison, TRUE)
    BY DEF WeekOverWeek
  <1>3. /\ current.aov = Ratio(a, n) /\ previous.aov = Ratio(b, previous.non_cancelled)
        /\ a \in Int /\ b \in Int /\ n \in Nat
        /\ a = Sum(TotalsOf(orders), Kept(orders, start, today))
        /\ b = Sum(TotalsOf(orders), Kept(orders, start - 7, today - 7))
        /\ n = Cardinality(Kept(orders, start, today))
        /\ previous.non_cancelled = Cardinality(Kept(orders, start - 7, today - 7))
    <2> HIDE DEF start
    <2> QED
      BY <1>1, KpiIs
  <1>4. IsFiniteSet(Kept(orders, start, today)) /\ IsFiniteSet(Kept(orders, start - 7, today - 7))
    <2> HIDE DEF start
    <2> QED
      BY <1>1, PeriodIs
  <1>5. previous.non_cancelled = n
    BY <1>2
  <1> HIDE DEF a, b, n, current, previous, start, wow
  <1>6. CASE n = 0
    <2>1. /\ Kept(orders, start, today) = {}
          /\ Kept(orders, start - 7, today - 7) = {}
      BY <1>3, <1>4, <1>5, <1>6, FS_EmptySet
    <2>2. Sum(TotalsOf(orders), {}) = 0
      BY FS_EmptySet, SumTakes
    <2>3. a = 0 /\ b = 0
      BY <1>3, <2>1, <2>2
    <2>4. /\ current.aov = <<0, 1>> /\ previous.aov = <<0, 1>>
      BY <1>3, <1>5, <1>6 DEF Ratio
    <2> QED
      BY <1>2, <2>3, <2>4 DEF wow
  <1>7. CASE n > 0
    <2>1. current.aov = <<a, n>> /\ previous.aov = <<b, n>>
      BY <1>3, <1>5, <1>7 DEF Ratio
    <2>2. Sign(a * n - b * n) = Sign(a * 1 - b * 1)
      <3>1. ASSUME NEW x \in Int, x > 0 PROVE x * n > 0
        BY <1>3, <1>7, <3>1
      <3>2. a * n - b * n = (a - b) * n /\ a * n - b * n = -((b - a) * n)
        BY <1>3
      <3>3. a * 1 - b * 1 = a - b
        BY <1>3
      <3>4. CASE a > b
        <4>1. (a - b) * n > 0
          BY <1>3, <3>1, <3>4
        <4> QED
          BY <1>3, <3>2, <3>3, <3>4, <4>1 DEF Sign
      <3>5. CASE b > a
        <4>1. (b - a) * n > 0
          BY <1>3, <3>1, <3>5
        <4>2. a * n - b * n < 0
          BY <1>3, <3>2, <4>1
        <4> QED
          BY <1>3, <3>3, <3>5, <4>2 DEF Sign
      <3>6. CASE a = b
        BY <1>3, <3>6 DEF Sign
      <3> QED
        BY <1>3, <3>4, <3>5, <3>6
    <2>3. wow.aov = Metric(<<a, n>>, <<b, n>>, wow.has_comparison, TRUE)
      BY <1>2, <2>1
    <2>4. Metric(<<a, n>>, <<b, n>>, wow.has_comparison, TRUE) =
             Metric(<<a, 1>>, <<b, 1>>, wow.has_comparison, TRUE)
      BY <2>2 DEF Metric
    <2> QED
      BY <1>2, <2>3, <2>4 DEF wow
  <1> QED
    BY <1>3, <1>6, <1>7
\* The heatmap holds the orders of four weeks, each in one cell.
LEMMA HeatmapAddsUp ==
    ASSUME NEW orders, Dated(orders), NEW today \in Int
    PROVE  SumFunction([wd \in 0..6 |->
                SumFunction([h \in 0..23 |-> TimeOfDayHeatmap(orders, today)[wd, h]])]) =
           SumFunction([w \in 0..3 |->
                PeriodKpi(orders, today - 7 * w - 6, today - 7 * w).orders_count])
  <1> DEFINE W == PeriodOrders(orders, today - 27, today)
             dates == DateOf(orders)
             day == [i \in DOMAIN orders |-> Weekday(dates[i])]
             hour == [i \in DOMAIN orders |-> Hour(orders[i].created_at)]
             week == [i \in DOMAIN orders |-> (today - dates[i]) \div 7]
             D == 0..6
             H == 0..23
             V == 0..3
             OfDay(wd) == {i \in W : day[i] = wd}
             cells(wd) == [h \in H |-> TimeOfDayHeatmap(orders, today)[wd, h]]
             perDay == [wd \in D |-> SumFunction(cells(wd))]
             perWeek == [w \in V |-> PeriodKpi(orders, today - 7 * w - 6, today - 7 * w).orders_count]
             dayCounts == [wd \in D |-> Cardinality({i \in W : day[i] = wd})]
             weekCounts == [w \in V |-> Cardinality({i \in W : week[i] = w})]
  <1>1. /\ W = {i \in DOMAIN orders : dates[i] \in (today - 27)..today}
        /\ W \in SUBSET DOMAIN orders /\ IsFiniteSet(W)
        /\ \A i \in DOMAIN orders : dates[i] \in Int
    BY PeriodIs
  <1>2. IsFiniteSet(D) /\ IsFiniteSet(H) /\ IsFiniteSet(V)
    <2>0. 0 \in Int /\ 6 \in Int /\ 23 \in Int /\ 3 \in Int
      OBVIOUS
    <2>1. IsFiniteSet(0..6)
      BY <2>0, FS_Interval, Zenon
    <2>2. IsFiniteSet(0..23)
      BY <2>0, FS_Interval, Zenon
    <2>3. IsFiniteSet(0..3)
      BY <2>0, FS_Interval, Zenon
    <2> QED
      BY <2>1, <2>2, <2>3
  <1>3. \A i \in W : day[i] \in D /\ hour[i] \in H
    <2>1. \A i \in W : hour[i] \in 0..23
      BY DatesAre, <1>1 DEF Dated
    <2>2. \A i \in W : Weekday(dates[i]) \in 0..6
      <3> HIDE DEF W, dates
      <3> QED
        BY <1>1 DEF Weekday
    <2> QED
      BY <1>1, <2>1, <2>2
  <1>4. \A i \in W : week[i] \in V
    <2> HIDE DEF W, dates
    <2> QED
      BY <1>1
  <1>5. \A wd \in D : \A h \in H :
           TimeOfDayHeatmap(orders, today)[wd, h] = Cardinality({i \in OfDay(wd) : hour[i] = h})
    <2> TAKE wd \in D
    <2> TAKE h \in H
    <2>1. TimeOfDayHeatmap(orders, today)[wd, h] =
             Cardinality({i \in W : /\ Weekday(LocalDate(orders[i].created_at)) = wd
                                    /\ Hour(orders[i].created_at) = h})
      BY DEF TimeOfDayHeatmap
    <2>2. {i \in W : /\ Weekday(LocalDate(orders[i].created_at)) = wd
                     /\ Hour(orders[i].created_at) = h} = {i \in OfDay(wd) : hour[i] = h}
      <3>1. \A i \in W : /\ day[i] = Weekday(LocalDate(orders[i].created_at))
                         /\ hour[i] = Hour(orders[i].created_at)
        BY <1>1 DEF DateOf
      <3> HIDE DEF W, day, hour
      <3> QED
        BY <3>1
    <2> QED
      BY <2>1, <2>2
  <1>6. \A wd \in D : perDay[wd] = dayCounts[wd]
    <2> TAKE wd \in D
    <2> DEFINE S == OfDay(wd)
               counts == [h \in H |-> Cardinality({i \in S : hour[i] = h})]
               row == cells(wd)
    <2>1. IsFiniteSet(S) /\ \A i \in S : hour[i] \in H
      BY <1>1, <1>3, FS_Subset
    <2>2. row = counts
      BY <1>5
    <2>3. perDay[wd] = SumFunction(row) /\ dayCounts[wd] = Cardinality(S) /\ DOMAIN counts = H
      OBVIOUS
    <2> HIDE DEF S, row, hour, H, perDay, dayCounts
    <2>4. Cardinality(S) = Sum(counts, H)
      BY <1>2, <2>1, CountByParts
    <2> HIDE DEF counts
    <2>5. SumFunction(counts) = Sum(counts, H)
      BY <2>3, SumOfFunction
    <2> QED
      BY <2>2, <2>3, <2>4, <2>5
  <1>7. \A w \in V : perWeek[w] = weekCounts[w]
    <2> TAKE w \in V
    <2> DEFINE s == today - 7 * w - 6
               e == today - 7 * w
    <2>1. w \in Int /\ s \in Int /\ e \in Int
      OBVIOUS
    <2>2. /\ PeriodKpi(orders, s, e).orders_count = Cardinality(PeriodOrders(orders, s, e))
          /\ PeriodOrders(orders, s, e) = {i \in DOMAIN orders : dates[i] \in s..e}
      <3> HIDE DEF s, e
      <3> QED
        BY <2>1, KpiIs, PeriodIs
    <2>3. \A d \in Int : d \in s..e <=> (d \in (today - 27)..today /\ (today - d) \div 7 = w)
      OBVIOUS
    <2>4. {i \in DOMAIN orders : dates[i] \in s..e} = {i \in W : week[i] = w}
      <3>1. \A i \in W : week[i] = (today - dates[i]) \div 7
        BY <1>1
      <3> HIDE DEF s, e, W, week, dates
      <3> QED
        BY <1>1, <2>3, <3>1
    <2>5. /\ perWeek[w] = PeriodKpi(orders, s, e).orders_count
          /\ weekCounts[w] = Cardinality({i \in W : week[i] = w})
      OBVIOUS
    <2> HIDE DEF s, e, perWeek, weekCounts, W, week
    <2> QED
      BY <2>2, <2>4, <2>5
  <1> HIDE DEF W, day, week
  <1>8. Cardinality(W) = Sum(dayCounts, D) /\ Cardinality(W) = Sum(weekCounts, V)
    <2> HIDE DEF D, V
    <2> QED
      BY <1>1, <1>2, <1>3, <1>4, CountByParts
  <1>9. DOMAIN perDay = D /\ DOMAIN perWeek = V
    OBVIOUS
  <1> HIDE DEF perDay, perWeek, dayCounts, weekCounts, D, V
  <1>10. /\ Sum(perDay, D) = Sum(dayCounts, D) /\ Sum(perWeek, V) = Sum(weekCounts, V)
    BY <1>2, <1>6, <1>7, SumAgrees
  <1>11. SumFunction(perDay) = Sum(perDay, D) /\ SumFunction(perWeek) = Sum(perWeek, V)
    BY <1>9, SumOfFunction
  <1>12. SumFunction(perDay) = SumFunction(perWeek)
    BY <1>8, <1>10, <1>11
  <1> QED
    BY <1>12, Zenon DEF perDay, perWeek, cells, D, H, V

CustomersOf(orders) == {orders[i].customer : i \in DOMAIN orders} \ {0}

\* A customer's first order is one of its orders, on the earliest date.
LEMMA FirstIsLeast ==
    ASSUME NEW orders, Dated(orders), NEW customer \in CustomersOf(orders),
           \A i \in DOMAIN orders : DateOf(orders)[i] >= 0
    PROVE  /\ \E i \in DOMAIN orders : /\ orders[i].customer = customer
                                       /\ DateOf(orders)[i] = FirstOrderDate(orders, customer)
           /\ \A i \in DOMAIN orders : orders[i].customer = customer =>
                 FirstOrderDate(orders, customer) <= DateOf(orders)[i]
  <1> DEFINE mine == {j \in DOMAIN orders : orders[j].customer = customer}
             T == {LocalDate(orders[i].created_at) : i \in mine}
  <1>1. \A i \in DOMAIN orders : /\ DateOf(orders)[i] = LocalDate(orders[i].created_at)
                                 /\ DateOf(orders)[i] \in Int
    BY DatesAre DEF DateOf, Dated
  <1>2. T \in SUBSET Nat
    BY <1>1
  <1>3. T # {}
    BY DEF CustomersOf
  <1>4. FirstOrderDate(orders, customer) = Min(T)
    BY DEF FirstOrderDate
  <1>5. \A d \in T : \E i \in DOMAIN orders : orders[i].customer = customer /\ DateOf(orders)[i] = d
    BY <1>1
  <1>6. \A i \in DOMAIN orders : orders[i].customer = customer => DateOf(orders)[i] \in T
    BY <1>1
  <1> HIDE DEF T
  <1>7. \E n \in T : \A m \in T : n <= m
    BY <1>2, <1>3, LeastExists
  <1>8. Min(T) \in T /\ \A m \in T : Min(T) <= m
    BY <1>7 DEF Min
  <1> QED
    BY <1>4, <1>5, <1>6, <1>8

\* Every customer is new in one week, the one of its first order.
LEMMA NewOnce ==
    ASSUME NEW orders, Dated(orders), NEW today \in Nat,
           \A i \in DOMAIN orders : DateOf(orders)[i] \in 0..today
    PROVE  SumFunction([w \in 0..(today \div 7) |->
               CustomerMix(orders, today - 7 * w - 6).new_customers]) =
           Cardinality(CustomersOf(orders))
  <1> DEFINE C == CustomersOf(orders)
             V == 0..(today \div 7)
             dates == DateOf(orders)
             First(c) == FirstOrderDate(orders, c)
             m == [c \in C |-> (today - First(c)) \div 7]
             perWeek == [w \in V |-> CustomerMix(orders, today - 7 * w - 6).new_customers]
             counts == [w \in V |-> Cardinality({c \in C : m[c] = w})]
  <1>1. IsFiniteSet(C) /\ IsFiniteSet(V)
    <2> DEFINE named == [i \in DOMAIN orders |-> orders[i].customer]
               all == {orders[i].customer : i \in DOMAIN orders}
    <2>1. IsFiniteSet(all)
      <3>1. named \in Surjection(DOMAIN orders, all)
        BY DEF Surjection
      <3> QED
        BY <3>1, FS_Surjection DEF Dated
    <2>2. C \in SUBSET all
      BY DEF CustomersOf
    <2>3. IsFiniteSet(C)
      <3> HIDE DEF all, C
      <3> QED
        BY <2>1, <2>2, FS_Subset
    <2>4. IsFiniteSet(V)
      BY FS_Interval
    <2> QED
      BY <2>3, <2>4
  <1>2. \A c \in C : /\ First(c) \in 0..today
                     /\ \E i \in DOMAIN orders : orders[i].customer = c /\ dates[i] = First(c)
                     /\ \A i \in DOMAIN orders : orders[i].customer = c => First(c) <= dates[i]
    <2> TAKE c \in C
    <2>1. \A i \in DOMAIN orders : dates[i] >= 0
      OBVIOUS
    <2>2. /\ \E i \in DOMAIN orders : orders[i].customer = c /\ dates[i] = First(c)
          /\ \A i \in DOMAIN orders : orders[i].customer = c => First(c) <= dates[i]
      BY <2>1, FirstIsLeast
    <2> QED
      BY <2>2
  <1>3. \A c \in C : m[c] \in V
    <2> TAKE c \in C
    <2> HIDE DEF First, C
    <2> QED
      BY <1>2
  <1>4. \A w \in V : perWeek[w] = counts[w]
    <2> TAKE w \in V
    <2> DEFINE s == today - 7 * w - 6
               here == {orders[i].customer : i \in WeekOf(orders, s)} \ {0}
               new == {c \in here : First(c) >= s}
    <2>1. w \in Int /\ s \in Int /\ s + 6 \in Int
      OBVIOUS
    <2>2. WeekOf(orders, s) = {i \in DOMAIN orders : dates[i] \in s..(s + 6)}
      <3> HIDE DEF s
      <3> QED
        BY <2>1, PeriodIs DEF WeekOf
    <2>3. CustomerMix(orders, s).new_customers = Cardinality(new)
      BY DEF CustomerMix
    <2>4. \A c \in here : c \in C /\ (First(c) >= s => m[c] = w)
      <3> TAKE c \in here
      <3>1. PICK i \in DOMAIN orders : orders[i].customer = c /\ dates[i] \in s..(s + 6)
        BY <2>2
      <3>2. c \in C
        BY <3>1 DEF CustomersOf
      <3>3. First(c) \in Int /\ First(c) <= dates[i] /\ dates[i] <= s + 6
        <4> HIDE DEF First, C, dates, here
        <4> QED
          BY <1>2, <3>1, <3>2
      <3>4. ASSUME First(c) >= s PROVE (today - First(c)) \div 7 = w
        <4> HIDE DEF First
        <4> QED
          BY <2>1, <3>1, <3>3, <3>4
      <3>5. m[c] = (today - First(c)) \div 7
        BY <3>2
      <3> QED
        BY <3>2, <3>4, <3>5
    <2>5. \A c \in C : m[c] = w => c \in here /\ First(c) >= s
      <3> SUFFICES ASSUME NEW c \in C, m[c] = w PROVE c \in here /\ First(c) >= s
        OBVIOUS
      <3>1. (today - First(c)) \div 7 = w
        OBVIOUS
      <3>2. First(c) \in Int
        BY <1>2
      <3>3. First(c) \in s..(s + 6)
        <4> HIDE DEF First, C
        <4> QED
          BY <2>1, <3>1, <3>2
      <3>4. PICK i \in DOMAIN orders : orders[i].customer = c /\ dates[i] = First(c)
        BY <1>2
      <3>5. i \in WeekOf(orders, s)
        <4> HIDE DEF First, s, dates
        <4> QED
          BY <2>2, <3>3, <3>4
      <3>6. c # 0
        BY DEF CustomersOf
      <3>7. c \in here
        BY <3>4, <3>5, <3>6
      <3>8. First(c) >= s
        <4> HIDE DEF First, C
        <4> QED
          BY <2>1, <3>2, <3>3
      <3> QED
        BY <3>7, <3>8
    <2>6. new = {c \in C : m[c] = w}
      <3> HIDE DEF here, C, m, First, s
      <3> QED
        BY <2>4, <2>5
    <2>7. perWeek[w] = CustomerMix(orders, s).new_customers
          /\ counts[w] = Cardinality({c \in C : m[c] = w})
      OBVIOUS
    <2> HIDE DEF perWeek, counts, new, C, m, s
    <2> QED
      BY <2>3, <2>6, <2>7
  <1>5. DOMAIN perWeek = V
    OBVIOUS
  <1> HIDE DEF C, V, m
  <1>6. Cardinality(C) = Sum(counts, V)
    BY <1>1, <1>3, CountByParts
  <1> HIDE DEF perWeek, counts
  <1>7. Sum(perWeek, V) = Sum(counts, V)
    BY <1>1, <1>4, SumAgrees
  <1>8. SumFunction(perWeek) = Sum(perWeek, V)
    BY <1>5, SumOfFunction
  <1>9. SumFunction(perWeek) = Cardinality(C)
    BY <1>6, <1>7, <1>8
  <1> QED
    BY <1>9, Zenon DEF perWeek, V, C
----------------------------------------------------------------------------
(* Money *)

LinesTotal(order) == SumFunction([k \in DOMAIN order.items |-> order.items[k].line_total])

Priced(orders) ==
    /\ Dated(orders)
    /\ \A i \in DOMAIN orders :
          /\ IsFiniteSet(DOMAIN orders[i].items)
          /\ \A k \in DOMAIN orders[i].items :
                orders[i].items[k].quantity \in Int /\ orders[i].items[k].line_total \in Int
          /\ orders[i].packaging_fee \in Int
          /\ orders[i].total = LinesTotal(orders[i]) + orders[i].packaging_fee

AmountOf(orders, ids) ==
    [l \in Lines(orders, ids) |-> orders[l[1]].items[l[2]].line_total]

\* Of a list with one entry for each of P: no more entries than that, and
\* their sum is the sum over P.
LEMMA EntriesAre ==
    ASSUME NEW P, IsFiniteSet(P), NEW name, NEW number, NEW value, NEW E,
           E = {name[p] : p \in P},
           \A p \in P : number[name[p]] = p,
           \A e \in E : value[e] \in Int
    PROVE  /\ IsFiniteSet(E) /\ Cardinality(E) <= Cardinality(P)
           /\ Sum(value, E) = Sum([p \in P |-> value[name[p]]], P)
  <1>1. [p \in P |-> name[p]] \in Surjection(P, E)
    BY DEF Surjection
  <1>2. IsFiniteSet(E) /\ Cardinality(E) <= Cardinality(P)
    BY <1>1, FS_Surjection
  <1>3. /\ \A p \in P : name[p] \in E /\ number[name[p]] = p
        /\ \A e \in E : number[e] \in P /\ name[number[e]] = e
    OBVIOUS
  <1>4. Sum(value, E) = Sum([p \in P |-> value[name[p]]], P)
    BY <1>2, <1>3, SumOfImage
  <1> QED
    BY <1>2, <1>4

\* Every entry is among the first of a list that is no longer than the limit.
LEMMA FewAhead ==
    ASSUME NEW E, IsFiniteSet(E), NEW limit \in Nat, Cardinality(E) <= limit,
           NEW e \in E, NEW ahead \in SUBSET (E \ {e})
    PROVE  Cardinality(ahead) < limit
  <1>1. /\ IsFiniteSet(E \ {e}) /\ Cardinality(E \ {e}) = Cardinality(E) - 1
        /\ Cardinality(E) \in Nat
    BY FS_RemoveElement, FS_CardinalityType
  <1>2. Cardinality(ahead) <= Cardinality(E \ {e}) /\ Cardinality(ahead) \in Nat
    BY <1>1, FS_Subset, FS_CardinalityType
  <1> QED
    BY <1>1, <1>2

LEMMA LinesAre ==
    ASSUME NEW orders, Priced(orders), NEW ids \in SUBSET DOMAIN orders
    PROVE  /\ IsFiniteSet(Lines(orders, ids)) /\ IsFiniteSet(ids)
           /\ \A l \in Lines(orders, ids) :
                 /\ l = <<l[1], l[2]>> /\ l[1] \in ids
                 /\ l[2] \in DOMAIN orders[l[1]].items
                 /\ AmountOf(orders, ids)[l] \in Int
           /\ \A i \in ids : \A k \in DOMAIN orders[i].items :
                 /\ <<i, k>> \in Lines(orders, ids)
                 /\ AmountOf(orders, ids)[<<i, k>>] = orders[i].items[k].line_total
  <1> DEFINE of == [i \in ids |-> {i} \X DOMAIN orders[i].items]
             parts == {of[i] : i \in ids}
  <1>1. IsFiniteSet(ids)
    BY FS_Subset DEF Priced, Dated
  <1>2. IsFiniteSet(parts)
    <2>1. of \in Surjection(ids, parts)
      BY DEF Surjection
    <2> QED
      BY <1>1, <2>1, FS_Surjection
  <1>3. \A p \in parts : IsFiniteSet(p)
    <2> SUFFICES ASSUME NEW i \in ids PROVE IsFiniteSet({i} \X DOMAIN orders[i].items)
      OBVIOUS
    <2>1. IsFiniteSet({i}) /\ IsFiniteSet(DOMAIN orders[i].items)
      BY FS_Singleton DEF Priced
    <2> QED
      BY <2>1, FS_Product
  <1>4. Lines(orders, ids) = UNION parts
    BY DEF Lines
  <1>5. IsFiniteSet(Lines(orders, ids))
    <2> HIDE DEF parts
    <2> QED
      BY <1>2, <1>3, <1>4, FS_UNION
  <1>6. \A l \in Lines(orders, ids) :
           l = <<l[1], l[2]>> /\ l[1] \in ids /\ l[2] \in DOMAIN orders[l[1]].items
    BY DEF Lines
  <1>7. \A i \in ids : \A k \in DOMAIN orders[i].items : <<i, k>> \in Lines(orders, ids)
    BY DEF Lines
  <1>8. \A l \in Lines(orders, ids) : AmountOf(orders, ids)[l] \in Int
    BY <1>6 DEF AmountOf, Priced
  <1>9. \A i \in ids : \A k \in DOMAIN orders[i].items :
           AmountOf(orders, ids)[<<i, k>>] = orders[i].items[k].line_total
    BY <1>7 DEF AmountOf
  <1> QED
    BY <1>1, <1>5, <1>6, <1>7, <1>8, <1>9

\* The lines of one order.
LEMMA LinesOfOne ==
    ASSUME NEW orders, Priced(orders), NEW ids \in SUBSET DOMAIN orders, NEW i \in ids
    PROVE  Sum(AmountOf(orders, ids), {l \in Lines(orders, ids) : l[1] = i}) =
              LinesTotal(orders[i])
  <1> DEFINE amount == AmountOf(orders, ids)
             part == {l \in Lines(orders, ids) : l[1] = i}
             K == DOMAIN orders[i].items
             name == [k \in K |-> <<i, k>>]
             number == [l \in part |-> l[2]]
             f == [k \in K |-> orders[i].items[k].line_total]
             g == [k \in K |-> amount[name[k]]]
  <1>1. /\ part \in SUBSET Lines(orders, ids) /\ IsFiniteSet(Lines(orders, ids))
        /\ \A l \in part : l = <<i, l[2]>> /\ l[2] \in K /\ amount[l] \in Int
        /\ \A k \in K : <<i, k>> \in part /\ amount[<<i, k>>] = f[k]
    <2>1. \A l \in part : l[1] = i
      OBVIOUS
    <2> QED
      BY <2>1, LinesAre
  <1>2. IsFiniteSet(part) /\ IsFiniteSet(K)
    BY <1>1, FS_Subset DEF Priced
  <1> HIDE DEF part, amount, K
  <1>3. /\ \A k \in K : name[k] \in part /\ number[name[k]] = k
        /\ \A l \in part : number[l] \in K /\ name[number[l]] = l
    BY <1>1
  <1>4. \A k \in K : g[k] = f[k]
    BY <1>1
  <1> HIDE DEF name, number
  <1>5. Sum(amount, part) = Sum(g, K)
    <2>1. \A l \in part : amount[l] \in Int
      BY <1>1
    <2> QED
      BY <1>2, <1>3, <2>1, SumOfImage
  <1>6. DOMAIN f = K /\ LinesTotal(orders[i]) = SumFunction(f)
    BY DEF LinesTotal, K
  <1> HIDE DEF f, g
  <1>7. Sum(g, K) = Sum(f, K) /\ SumFunction(f) = Sum(f, K)
    BY <1>2, <1>4, <1>6, SumAgrees, SumOfFunction
  <1>8. Sum(amount, part) = LinesTotal(orders[i])
    BY <1>5, <1>6, <1>7
  <1> QED
    BY <1>8 DEF amount, part

\* All lines and the packaging fees make up what the orders come to.
LEMMA LinesAddUp ==
    ASSUME NEW orders, Priced(orders), NEW ids \in SUBSET DOMAIN orders
    PROVE  /\ Sum(AmountOf(orders, ids), Lines(orders, ids))
                + SumFunction([i \in ids |-> orders[i].packaging_fee]) = TotalOf(orders, ids)
           /\ Sum(AmountOf(orders, ids), Lines(orders, ids)) \in Int
  <1> DEFINE amount == AmountOf(orders, ids)
             lines == Lines(orders, ids)
             m == [l \in lines |-> l[1]]
             parts == [i \in ids |-> Sum(amount, {l \in lines : m[l] = i})]
             totals == [i \in ids |-> LinesTotal(orders[i])]
             fees == [i \in ids |-> orders[i].packaging_fee]
             all == TotalsOf(orders)
  <1>1. /\ IsFiniteSet(lines) /\ IsFiniteSet(ids)
        /\ \A l \in lines : m[l] \in ids /\ amount[l] \in Int
    BY LinesAre
  <1>2. \A i \in ids : parts[i] = totals[i]
    <2> TAKE i \in ids
    <2>1. {l \in lines : m[l] = i} = {l \in lines : l[1] = i}
      OBVIOUS
    <2>2. Sum(amount, {l \in lines : l[1] = i}) = LinesTotal(orders[i])
      BY LinesOfOne
    <2>3. parts[i] = Sum(amount, {l \in lines : m[l] = i}) /\ totals[i] = LinesTotal(orders[i])
      OBVIOUS
    <2> HIDE DEF parts, totals, lines, amount, m
    <2> QED
      BY <2>1, <2>2, <2>3
  <1>3. \A i \in ids : \A part \in SUBSET lines : Sum(amount, part) \in Int
    BY <1>1, SumIsNumber, FS_Subset
  <1>4. \A i \in ids : totals[i] \in Int
    <2> TAKE i \in ids
    <2>1. {l \in lines : m[l] = i} \in SUBSET lines
      OBVIOUS
    <2>2. parts[i] \in Int
      BY <1>3, <2>1
    <2> HIDE DEF parts, totals
    <2> QED
      BY <1>2, <2>2
  <1>5. \A i \in ids : fees[i] \in Int /\ all[i] = totals[i] + fees[i]
    BY DEF Priced, TotalsOf
  <1>6. SumFunction(fees) = Sum(fees, ids)
    <2>1. DOMAIN fees = ids
      OBVIOUS
    <2> HIDE DEF fees
    <2> QED
      BY <2>1, SumOfFunction
  <1>7. TotalOf(orders, ids) = Sum(all, ids)
    BY TotalIs DEF Priced
  <1> HIDE DEF amount, lines, m
  <1>8. Sum(amount, lines) = Sum(parts, ids) /\ Sum(amount, lines) \in Int
    BY <1>1, SumByParts, SumIsNumber
  <1> HIDE DEF parts, totals, fees, all
  <1>9. Sum(parts, ids) = Sum(totals, ids)
    BY <1>1, <1>2, SumAgrees
  <1>10. Sum(all, ids) = Sum(totals, ids) + Sum(fees, ids)
    BY <1>1, <1>4, <1>5, SumPlus
  <1>11. Sum(amount, lines) + SumFunction(fees) = TotalOf(orders, ids)
    BY <1>6, <1>7, <1>8, <1>9, <1>10
  <1> QED
    BY <1>8, <1>11 DEF amount, lines, fees
LEMMA WeekIs == \A orders, start : WeekOf(orders, start) \in SUBSET DOMAIN orders
  BY DEF WeekOf, PeriodOrders

\* The entries of a week's products come to what its lines come to.
LEMMA ItemsAddUp ==
    ASSUME NEW orders, Priced(orders), NEW start,
           NEW Sold, IsFiniteSet(Sold),
           \A i \in DOMAIN orders : \A k \in DOMAIN orders[i].items : k[1] \in Sold
    PROVE  LET week == WeekOf(orders, start)
               entries == ItemEntries(orders, start)
           IN /\ IsFiniteSet(entries) /\ Cardinality(entries) <= Cardinality(Sold)
              /\ \A e \in entries : e.quantity \in Int /\ e.product \in Sold
              /\ SumFunction([e \in entries |-> e.revenue]) =
                    Sum(AmountOf(orders, week), Lines(orders, week))
  <1> DEFINE week == WeekOf(orders, start)
             lines == Lines(orders, week)
             amount == AmountOf(orders, week)
             P == {l[2][1] : l \in lines}
             Of(p) == {l \in lines : l[2][1] = p}
             Item(l) == orders[l[1]].items[l[2]]
             Quantity(p) == SumFunction([l \in Of(p) |-> Item(l).quantity])
             Revenue(p) == SumFunction([l \in Of(p) |-> Item(l).line_total])
             name == [p \in P |-> [product |-> p, quantity |-> Quantity(p), revenue |-> Revenue(p)]]
             E == {name[p] : p \in P}
             number == [e \in E |-> e.product]
             value == [e \in E |-> e.revenue]
             m == [l \in lines |-> l[2][1]]
             parts == [p \in P |-> Sum(amount, {l \in lines : m[l] = p})]
             values == [p \in P |-> value[name[p]]]
  <1>1. /\ week \in SUBSET DOMAIN orders
        /\ IsFiniteSet(lines)
        /\ \A l \in lines : /\ l[1] \in week /\ l[2] \in DOMAIN orders[l[1]].items
                            /\ amount[l] \in Int
                            /\ m[l] \in P
    <2>1. week \in SUBSET DOMAIN orders
      BY WeekIs
    <2> HIDE DEF week
    <2>2. /\ IsFiniteSet(lines)
          /\ \A l \in lines : /\ l[1] \in week /\ l[2] \in DOMAIN orders[l[1]].items
                              /\ amount[l] \in Int
      BY <2>1, LinesAre
    <2> HIDE DEF lines, amount
    <2>3. \A l \in lines : m[l] \in P
      OBVIOUS
    <2> QED
      BY <2>1, <2>2, <2>3
  <1>2. ItemEntries(orders, start) = E
    <2>1. ItemEntries(orders, start) =
             {[product |-> p, quantity |-> Quantity(p), revenue |-> Revenue(p)] : p \in P}
      BY DEF ItemEntries
    <2> HIDE DEF Quantity, Revenue, P
    <2> QED
      BY <2>1
  <1>3. P \in SUBSET Sold
    <2> HIDE DEF lines, week, amount
    <2> QED
      BY <1>1
  <1>4. IsFiniteSet(P) /\ Cardinality(P) <= Cardinality(Sold) /\ Cardinality(P) \in Nat
    <2> HIDE DEF P
    <2> QED
      BY <1>3, FS_Subset, FS_CardinalityType
  <1>5. \A p \in P : /\ name[p].revenue = Revenue(p) /\ name[p].product = p
                     /\ name[p].quantity = Quantity(p)
                     /\ number[name[p]] = p
                     /\ values[p] = Revenue(p)
    <2> HIDE DEF P, Revenue, Quantity
    <2> QED
      OBVIOUS
  <1>6. \A p \in P : Revenue(p) = parts[p] /\ Revenue(p) \in Int
    <2> TAKE p \in P
    <2> DEFINE S == Of(p)
               f == [l \in S |-> Item(l).line_total]
    <2>1. S = {l \in lines : m[l] = p} /\ S \in SUBSET lines
      <3> HIDE DEF lines
      <3> QED
        OBVIOUS
    <2>2. IsFiniteSet(S)
      <3> HIDE DEF S, lines
      <3> QED
        BY <1>1, <2>1, FS_Subset
    <2>3. DOMAIN f = S /\ Revenue(p) = SumFunction(f)
      OBVIOUS
    <2>4. \A l \in S : f[l] = amount[l] /\ amount[l] \in Int
      <3>1. \A l \in lines : amount[l] = Item(l).line_total
        BY DEF AmountOf
      <3> HIDE DEF lines, amount
      <3> QED
        BY <1>1, <2>1, <3>1
    <2>5. parts[p] = Sum(amount, {l \in lines : m[l] = p})
      <3> HIDE DEF lines, amount, m
      <3> QED
        OBVIOUS
    <2> HIDE DEF S, f, amount, lines, parts, m, Revenue
    <2>6. SumFunction(f) = Sum(f, S) /\ Sum(f, S) = Sum(amount, S) /\ Sum(amount, S) \in Int
      BY <2>2, <2>3, <2>4, SumOfFunction, SumAgrees, SumIsNumber
    <2>7. parts[p] = Sum(amount, S)
      BY <2>1, <2>5
    <2> QED
      BY <2>3, <2>6, <2>7
  <1>0. \A p \in P : Quantity(p) \in Int
    <2> TAKE p \in P
    <2> DEFINE S == Of(p)
               f == [l \in S |-> Item(l).quantity]
    <2>1. IsFiniteSet(S)
      <3>1. S \in SUBSET lines
        OBVIOUS
      <3> HIDE DEF S, lines
      <3> QED
        BY <1>1, <3>1, FS_Subset
    <2>2. DOMAIN f = S /\ Quantity(p) = SumFunction(f)
      OBVIOUS
    <2>3. \A l \in S : f[l] \in Int
      <3>1. \A l \in S : l \in lines /\ f[l] = orders[l[1]].items[l[2]].quantity
        OBVIOUS
      <3> HIDE DEF S, f, lines, amount, week
      <3> QED
        BY <1>1, <3>1 DEF Priced
    <2> HIDE DEF S, f, Quantity
    <2> QED
      BY <2>1, <2>2, <2>3, SumOfFunction, SumIsNumber
  <1>15. \A e \in E : e.quantity \in Int /\ e.product \in Sold
    <2> SUFFICES ASSUME NEW p \in P PROVE name[p].quantity \in Int /\ name[p].product \in Sold
      BY Zenon
    <2> HIDE DEF P, Quantity, Revenue, name
    <2> QED
      BY <1>0, <1>3, <1>5
  <1>7. \A e \in E : value[e] \in Int
    <2> SUFFICES ASSUME NEW p \in P PROVE value[name[p]] \in Int
      BY Zenon
    <2>1. values[p] = value[name[p]]
      OBVIOUS
    <2> HIDE DEF values, value, name, P
    <2> QED
      BY <1>5, <1>6, <2>1
  <1>8. DOMAIN value = E
    OBVIOUS
  <1> HIDE DEF P, name, number, value, m, lines, amount, Revenue, Quantity
  <1>9. /\ IsFiniteSet(E) /\ Cardinality(E) <= Cardinality(P) /\ Cardinality(E) \in Nat
        /\ Sum(value, E) = Sum(values, P)
    <2>1. \A p \in P : number[name[p]] = p
      BY <1>5
    <2> HIDE DEF E
    <2>2. /\ IsFiniteSet(E) /\ Cardinality(E) <= Cardinality(P)
          /\ Sum(value, E) = Sum(values, P)
      BY <1>4, <1>7, <2>1, EntriesAre DEF E
    <2> QED
      BY <2>2, FS_CardinalityType
  <1>10. Sum(amount, lines) = Sum(parts, P)
    BY <1>1, <1>4, SumByParts
  <1> HIDE DEF E, parts, values
  <1>11. Sum(values, P) = Sum(parts, P)
    BY <1>4, <1>5, <1>6, SumAgrees
  <1>12. SumFunction(value) = Sum(value, E)
    BY <1>8, SumOfFunction
  <1>13. /\ SumFunction(value) = Sum(amount, lines)
         /\ Cardinality(E) <= Cardinality(Sold)
    <2>1. Cardinality(Sold) \in Nat
      BY FS_CardinalityType
    <2> QED
      BY <1>4, <1>9, <1>10, <1>11, <1>12, <2>1
  <1>14. value = [e \in E |-> e.revenue]
    BY DEF value
  <1> QED
    BY <1>2, <1>9, <1>13, <1>14, <1>15 DEF amount, lines, week

\* With room for all products, TopItems has them all, and the first of all is
\* the first of its category.
LEMMA TopIsAll ==
    ASSUME NEW orders, NEW start, IsFiniteSet(ItemEntries(orders, start)), NEW limit \in Nat,
           \A e \in ItemEntries(orders, start) : e.quantity \in Int /\ e.product \in Int
    PROVE  /\ Cardinality(ItemEntries(orders, start)) <= limit =>
                 TopItems(orders, start, limit) = ItemEntries(orders, start)
           /\ TopItems(orders, start, limit) \subseteq TopItemsByCategory(orders, start, limit)
  <1> DEFINE E == ItemEntries(orders, start)
             Ahead(S, e) == {f \in S : SellsBetter(f, e)}
             Among(c) == {e \in E : Category[e.product] = c}
  <1>1. TopItems(orders, start, limit) = {e \in E : Cardinality(Ahead(E, e)) < limit}
    BY DEF TopItems, Ranked
  <1>2. TopItemsByCategory(orders, start, limit) =
           UNION {{e \in Among(c) : Cardinality(Ahead(Among(c), e)) < limit} :
                     c \in {Category[e.product] : e \in E}}
    BY DEF TopItemsByCategory, Ranked
  <1> HIDE DEF E
  <1>3. ASSUME Cardinality(E) <= limit, NEW e \in E PROVE Cardinality(Ahead(E, e)) < limit
    <2> DEFINE ahead == Ahead(E, e)
    <2>1. ~SellsBetter(e, e)
      BY DEF SellsBetter, E
    <2>2. ahead \in SUBSET (E \ {e})
      BY <2>1
    <2>3. IsFiniteSet(E)
      BY DEF E
    <2> HIDE DEF ahead
    <2>4. Cardinality(ahead) < limit
      BY <1>3, <2>2, <2>3, FewAhead
    <2> QED
      BY <2>4 DEF ahead
  <1>4. ASSUME NEW e \in E, Cardinality(Ahead(E, e)) < limit
        PROVE  e \in TopItemsByCategory(orders, start, limit)
    <2> DEFINE c == Category[e.product]
               few == Ahead(Among(c), e)
               many == Ahead(E, e)
    <2>1. few \in SUBSET many /\ many \in SUBSET E
      OBVIOUS
    <2>2. IsFiniteSet(E)
      BY DEF E
    <2> HIDE DEF few, many
    <2>3. /\ Cardinality(few) <= Cardinality(many)
          /\ Cardinality(few) \in Nat /\ Cardinality(many) \in Nat
      BY <2>1, <2>2, FS_Subset, FS_CardinalityType
    <2>4. Cardinality(few) < limit
      BY <1>4, <2>3 DEF many
    <2>5. e \in Among(c) /\ c \in {Category[f.product] : f \in E}
      OBVIOUS
    <2>6. e \in {x \in Among(c) : Cardinality(Ahead(Among(c), x)) < limit}
      BY <2>4, <2>5 DEF few
    <2> HIDE DEF c, Ahead, Among
    <2> QED
      BY <1>2, <2>5, <2>6
  <1>5. Cardinality(E) <= limit => TopItems(orders, start, limit) = E
    BY <1>1, <1>3
  <1>6. TopItems(orders, start, limit) \subseteq TopItemsByCategory(orders, start, limit)
    BY <1>1, <1>4
  <1> QED
    BY <1>5, <1>6 DEF E
\* What customers spent in a week, with what passers-by spent, is what its orders
\* come to, if there is room for all customers.
LEMMA CustomersSpend ==
    ASSUME NEW orders, Dated(orders), NEW start, NEW n \in Nat,
           \A i \in DOMAIN orders : orders[i].customer \in 0..n
    PROVE  LET week == WeekOf(orders, start)
               spent == TopCustomers(orders, 1..n, start, n)
           IN SumFunction([e \in spent |-> e.total_spend])
                  + TotalOf(orders, {i \in week : orders[i].customer = 0})
                 = TotalOf(orders, week)
  <1> DEFINE week == WeekOf(orders, start)
             totals == TotalsOf(orders)
             P == {orders[i].customer : i \in week} \ {0}
             Of(c) == {i \in week : orders[i].customer = c}
             Count(c) == Cardinality(Of(c))
             Spend(c) == TotalOf(orders, Of(c))
             name == [c \in P |-> [customer |-> c, order_count |-> Count(c),
                                   total_spend |-> Spend(c)]]
             E == {name[c] : c \in P}
             Before(e, f) == \/ e.total_spend > f.total_spend
                             \/ e.total_spend = f.total_spend /\ e.customer < f.customer
             Ahead(e) == {f \in E : Before(f, e)}
             number == [e \in E |-> e.customer]
             value == [e \in E |-> e.total_spend]
             known == {i \in week : orders[i].customer # 0}
             rest == {i \in week : orders[i].customer = 0}
             m == [i \in known |-> orders[i].customer]
             parts == [c \in P |-> Sum(totals, {i \in known : m[i] = c})]
             values == [c \in P |-> value[name[c]]]
             spent == TopCustomers(orders, 1..n, start, n)
  <1>1. /\ week \in SUBSET DOMAIN orders
        /\ IsFiniteSet(week)
    BY WeekIs, FS_Subset DEF Dated
  <1>2. spent = {e \in E : Cardinality(Ahead(e)) < n}
    <2>1. P = {orders[i].customer : i \in week} \cap 1..n
      <3>1. \A i \in week : orders[i].customer \in 0..n
        BY <1>1
      <3> HIDE DEF week
      <3> QED
        BY <3>1
    <2>2. E = {[customer |-> c, order_count |-> Count(c), total_spend |-> Spend(c)] : c \in P}
      <3> HIDE DEF P, Count, Spend
      <3> QED
        OBVIOUS
    <2> HIDE DEF E, P
    <2> QED
      BY <2>1, <2>2 DEF TopCustomers, Ranked
  <1> HIDE DEF week
  <1>3. P \in SUBSET (1..n) /\ IsFiniteSet(1..n) /\ Cardinality(1..n) = n
    <2>1. P \in SUBSET (1..n)
      BY <1>1
    <2>2. 1 \in Int /\ n \in Int /\ n >= 0
      OBVIOUS
    <2>3. IsFiniteSet(1..n) /\ Cardinality(1..n) = IF 1 > n THEN 0 ELSE n - 1 + 1
      BY <2>2, FS_Interval, Zenon
    <2>4. (IF 1 > n THEN 0 ELSE n - 1 + 1) = n
      BY <2>2
    <2> QED
      BY <2>1, <2>3, <2>4
  <1>4. IsFiniteSet(P) /\ Cardinality(P) <= n /\ Cardinality(P) \in Nat
    <2> HIDE DEF P
    <2> QED
      BY <1>3, FS_Subset, FS_CardinalityType
  <1>5. \A c \in P : /\ name[c].total_spend = Spend(c)
                     /\ number[name[c]] = c
                     /\ values[c] = Spend(c)
    <2> HIDE DEF P, Spend, Count
    <2> QED
      OBVIOUS
  <1>6. \A c \in P : Spend(c) = parts[c] /\ Spend(c) \in Int
    <2> TAKE c \in P
    <2> DEFINE S == Of(c)
    <2>1. S \in SUBSET DOMAIN orders
      BY <1>1
    <2>2. S = {i \in known : m[i] = c}
      OBVIOUS
    <2>3. parts[c] = Sum(totals, {i \in known : m[i] = c})
      <3> HIDE DEF known, m
      <3> QED
        OBVIOUS
    <2> HIDE DEF S, parts, totals, m, known
    <2>4. TotalOf(orders, S) = Sum(totals, S) /\ Sum(totals, S) \in Int
      BY <2>1, TotalIs DEF totals
    <2>5. Spend(c) = TotalOf(orders, S)
      BY DEF S
    <2> HIDE DEF Spend
    <2> QED
      BY <2>2, <2>3, <2>4, <2>5
  <1>7. \A e \in E : value[e] \in Int
    <2> SUFFICES ASSUME NEW c \in P PROVE value[name[c]] \in Int
      BY Zenon
    <2>1. values[c] = value[name[c]]
      OBVIOUS
    <2> HIDE DEF values, value, name, P
    <2> QED
      BY <1>5, <1>6, <2>1
  <1>8. DOMAIN value = E
    OBVIOUS
  <1>9. \A e \in E : e.customer \in Int /\ e.total_spend \in Int
    <2> SUFFICES ASSUME NEW c \in P PROVE name[c].customer \in Int /\ name[c].total_spend \in Int
      BY Zenon
    <2>1. name[c].customer = c /\ name[c].total_spend = Spend(c)
      OBVIOUS
    <2>2. c \in Int
      BY <1>3
    <2> HIDE DEF name, Spend, P
    <2> QED
      BY <1>6, <2>1, <2>2
  <1> HIDE DEF P, Spend, Count, name, number, value
  <1>10. /\ IsFiniteSet(E) /\ Cardinality(E) <= n
         /\ Sum(value, E) = Sum(values, P)
    <2>1. \A c \in P : number[name[c]] = c
      BY <1>5
    <2> HIDE DEF E
    <2>2. /\ IsFiniteSet(E) /\ Cardinality(E) <= Cardinality(P)
          /\ Sum(value, E) = Sum(values, P)
      BY <1>4, <1>7, <2>1, EntriesAre DEF E
    <2>3. Cardinality(E) \in Nat
      BY <2>2, FS_CardinalityType
    <2> QED
      BY <1>4, <2>2, <2>3
  <1> HIDE DEF E
  <1>11. spent = E
    <2> SUFFICES ASSUME NEW e \in E PROVE Cardinality(Ahead(e)) < n
      BY <1>2
    <2>1. Ahead(e) \in SUBSET (E \ {e})
      BY <1>9
    <2> HIDE DEF Ahead
    <2> QED
      BY <1>10, <2>1, FewAhead
  <1>12. /\ known \in SUBSET week /\ rest = week \ known
         /\ \A i \in known : m[i] \in P
    BY DEF P
  <1>13. /\ \A i \in week : totals[i] \in Int
         /\ TotalOf(orders, week) = Sum(totals, week)
         /\ TotalOf(orders, rest) = Sum(totals, rest)
    <2>1. \A i \in DOMAIN orders : totals[i] \in Int
      BY <1>1, TotalIs
    <2>2. rest \in SUBSET DOMAIN orders
      BY <1>1
    <2> HIDE DEF rest, totals
    <2> QED
      BY <1>1, <2>1, <2>2, TotalIs DEF totals
  <1> HIDE DEF known, rest, totals, m
  <1>14. /\ Sum(totals, week) = Sum(totals, known) + Sum(totals, rest)
         /\ Sum(totals, known) \in Int /\ Sum(totals, rest) \in Int
    <2>1. known \in SUBSET week /\ \A i \in week : totals[i] \in Int
      BY <1>12, <1>13
    <2>2. /\ Sum(totals, week) = Sum(totals, known) + Sum(totals, week \ known)
          /\ Sum(totals, known) \in Int /\ Sum(totals, week \ known) \in Int
      BY <1>1, <2>1, SumSplit
    <2>3. rest = week \ known
      BY <1>12
    <2> QED
      BY <2>2, <2>3
  <1>15. Sum(totals, known) = Sum(parts, P)
    <2>1. IsFiniteSet(known) /\ \A i \in known : totals[i] \in Int
      BY <1>1, <1>12, <1>13, FS_Subset
    <2> QED
      BY <1>4, <1>12, <2>1, SumByParts
  <1> HIDE DEF parts, values
  <1>16. Sum(values, P) = Sum(parts, P)
    BY <1>4, <1>5, <1>6, SumAgrees
  <1>17. SumFunction(value) = Sum(value, E)
    BY <1>8, SumOfFunction
  <1>18. SumFunction(value) + TotalOf(orders, rest) = TotalOf(orders, week)
    BY <1>10, <1>13, <1>14, <1>15, <1>16, <1>17
  <1>19. value = [e \in spent |-> e.total_spend]
    BY <1>11 DEF value
  <1> QED
    BY <1>18, <1>19 DEF spent, week, rest

\* The revenue leaves out what was cancelled.
LEMMA KeptAndCancelled ==
    ASSUME NEW orders, Dated(orders), NEW start \in Int, NEW end \in Int
    PROVE  LET period == PeriodOrders(orders, start, end)
           IN TotalOf(orders, period) = PeriodKpi(orders, start, end).revenue
                  + TotalOf(orders, InBucket(orders, period, "cancelled"))
  <1> DEFINE period == PeriodOrders(orders, start, end)
             kept == Kept(orders, start, end)
             cancelled == InBucket(orders, period, "cancelled")
             totals == TotalsOf(orders)
  <1>1. /\ period \in SUBSET DOMAIN orders /\ IsFiniteSet(period)
        /\ kept \in SUBSET period
    BY PeriodIs
  <1>2. cancelled = period \ kept /\ cancelled \in SUBSET DOMAIN orders
    BY <1>1 DEF Kept, InBucket
  <1>3. PeriodKpi(orders, start, end).revenue = Sum(totals, kept)
    BY KpiIs
  <1> HIDE DEF period, kept, cancelled, totals
  <1>4. /\ \A i \in DOMAIN orders : totals[i] \in Int
        /\ TotalOf(orders, period) = Sum(totals, period)
        /\ TotalOf(orders, cancelled) = Sum(totals, cancelled)
    BY <1>1, <1>2, TotalIs DEF totals
  <1>5. Sum(totals, period) = Sum(totals, kept) + Sum(totals, cancelled)
    BY <1>1, <1>2, <1>4, SumSplit
  <1>6. TotalOf(orders, period) = PeriodKpi(orders, start, end).revenue + TotalOf(orders, cancelled)
    BY <1>3, <1>4, <1>5
  <1> QED
    BY <1>6 DEF period, cancelled
\* Counted by their first elements or by their second, pairs are as many.
LEMMA CountBothWays ==
    ASSUME NEW I, IsFiniteSet(I), NEW P, IsFiniteSet(P), NEW R \in SUBSET (I \X P)
    PROVE  Sum([p \in P |-> Cardinality({i \in I : <<i, p>> \in R})], P) =
           Sum([i \in I |-> Cardinality({p \in P : <<i, p>> \in R})], I)
  <1> DEFINE first == [r \in R |-> r[1]]
             second == [r \in R |-> r[2]]
             byFirst == [i \in I |-> Cardinality({r \in R : first[r] = i})]
             bySecond == [p \in P |-> Cardinality({r \in R : second[r] = p})]
             ofFirst == [i \in I |-> Cardinality({p \in P : <<i, p>> \in R})]
             ofSecond == [p \in P |-> Cardinality({i \in I : <<i, p>> \in R})]
  <1>1. IsFiniteSet(R)
    <2>1. IsFiniteSet(I \X P)
      BY FS_Product
    <2> QED
      BY <2>1, FS_Subset
  <1>2. \A r \in R : first[r] \in I /\ second[r] \in P
    OBVIOUS
  <1>3. ASSUME NEW i \in I PROVE byFirst[i] = ofFirst[i]
    <2> DEFINE S == {p \in P : <<i, p>> \in R}
               T == {r \in R : first[r] = i}
               f == [p \in S |-> <<i, p>>]
    <2>1. IsFiniteSet(S)
      BY FS_Subset
    <2>2. f \in Surjection(S, T)
      <3>1. \A p \in S : f[p] \in T
        OBVIOUS
      <3>2. \A r \in T : r[2] \in S /\ f[r[2]] = r
        OBVIOUS
      <3>3. f \in [S -> T]
        BY <3>1
      <3> HIDE DEF f, S, T
      <3> QED
        BY <3>2, <3>3 DEF Surjection
    <2>3. f \in Injection(S, T)
      <3>1. \A p, q \in S : f[p] = f[q] => p = q
        OBVIOUS
      <3>2. f \in [S -> T]
        BY <2>2 DEF Surjection
      <3> HIDE DEF f, S, T
      <3> QED
        BY <3>1, <3>2 DEF Injection, IsInjective
    <2>4. byFirst[i] = Cardinality(T) /\ ofFirst[i] = Cardinality(S)
      OBVIOUS
    <2> HIDE DEF S, T, f, byFirst, ofFirst
    <2>5. Cardinality(T) = Cardinality(S)
      BY <2>1, <2>2, <2>3, FS_Surjection
    <2> QED
      BY <2>4, <2>5
  <1>4. ASSUME NEW p \in P PROVE bySecond[p] = ofSecond[p]
    <2> DEFINE S == {i \in I : <<i, p>> \in R}
               T == {r \in R : second[r] = p}
               f == [i \in S |-> <<i, p>>]
    <2>1. IsFiniteSet(S)
      BY FS_Subset
    <2>2. f \in Surjection(S, T)
      <3>1. \A i \in S : f[i] \in T
        OBVIOUS
      <3>2. \A r \in T : r[1] \in S /\ f[r[1]] = r
        OBVIOUS
      <3>3. f \in [S -> T]
        BY <3>1
      <3> HIDE DEF f, S, T
      <3> QED
        BY <3>2, <3>3 DEF Surjection
    <2>3. f \in Injection(S, T)
      <3>1. \A i, j \in S : f[i] = f[j] => i = j
        OBVIOUS
      <3>2. f \in [S -> T]
        BY <2>2 DEF Surjection
      <3> HIDE DEF f, S, T
      <3> QED
        BY <3>1, <3>2 DEF Injection, IsInjective
    <2>4. bySecond[p] = Cardinality(T) /\ ofSecond[p] = Cardinality(S)
      OBVIOUS
    <2> HIDE DEF S, T, f, bySecond, ofSecond
    <2>5. Cardinality(T) = Cardinality(S)
      BY <2>1, <2>2, <2>3, FS_Surjection
    <2> QED
      BY <2>4, <2>5
  <1> HIDE DEF first, second
  <1>5. Cardinality(R) = Sum(byFirst, I) /\ Cardinality(R) = Sum(bySecond, P)
    BY <1>1, <1>2, CountByParts
  <1> HIDE DEF byFirst, bySecond, ofFirst, ofSecond
  <1>6. Sum(byFirst, I) = Sum(ofFirst, I) /\ Sum(bySecond, P) = Sum(ofSecond, P)
    BY <1>3, <1>4, SumAgrees
  <1> QED
    BY <1>5, <1>6, Zenon DEF ofFirst, ofSecond

\* Half of the pairs of different numbers are in order.
LEMMA OrderedPairs ==
    ASSUME NEW S \in SUBSET Int, IsFiniteSet(S)
    PROVE  LET n == Cardinality(S)
               less == {pr \in S \X S : pr[1] < pr[2]}
           IN n \in Nat /\ Cardinality(less) \in Nat
              /\ Cardinality(less) + Cardinality(less) = n * (n - 1)
  <1> DEFINE n == Cardinality(S)
             all == S \X S
             less == {pr \in all : pr[1] < pr[2]}
             rest == all \ less
             more == {pr \in all : pr[1] > pr[2]}
             same == rest \ more
             swap == [pr \in less |-> <<pr[2], pr[1]>>]
             twice == [x \in S |-> <<x, x>>]
  <1>1. IsFiniteSet(all) /\ Cardinality(all) = n * n /\ n \in Nat
    BY FS_Product, FS_CardinalityType
  <1>0. \A pr \in all : pr = <<pr[1], pr[2]>> /\ pr[1] \in S /\ pr[2] \in S
                         /\ pr[1] \in Int /\ pr[2] \in Int
    <2>1. \A pr \in all : pr = <<pr[1], pr[2]>> /\ pr[1] \in S /\ pr[2] \in S
      OBVIOUS
    <2>2. \A x \in S : x \in Int
      OBVIOUS
    <2> HIDE DEF all
    <2> QED
      BY <2>1, <2>2
  <1>2. less \in SUBSET all /\ more \in SUBSET rest
    <2> HIDE DEF all
    <2> QED
      BY <1>0
  <1>3. swap \in Surjection(less, more) /\ swap \in Injection(less, more)
    <2>1. \A pr \in less : swap[pr] \in more
      OBVIOUS
    <2>2. \A pr \in more : <<pr[2], pr[1]>> \in less /\ swap[<<pr[2], pr[1]>>] = pr
      OBVIOUS
    <2>3. \A p, q \in less : swap[p] = swap[q] => p = q
      OBVIOUS
    <2>4. swap \in [less -> more]
      BY <2>1
    <2> HIDE DEF swap, less, more
    <2> QED
      BY <2>2, <2>3, <2>4 DEF Surjection, Injection, IsInjective
  <1>4. twice \in Surjection(S, same) /\ twice \in Injection(S, same)
    <2>1. \A x \in S : twice[x] \in same
      OBVIOUS
    <2>2. \A pr \in same : pr[1] \in S /\ twice[pr[1]] = pr
      <3>1. \A pr \in same : pr \in all /\ ~(pr[1] < pr[2]) /\ ~(pr[1] > pr[2])
        OBVIOUS
      <3>2. \A pr \in same : pr = <<pr[1], pr[1]>> /\ pr[1] \in S
        <4> HIDE DEF same, all
        <4> QED
          BY <1>0, <3>1
      <3> QED
        BY <3>2
    <2>3. \A x, y \in S : twice[x] = twice[y] => x = y
      OBVIOUS
    <2>4. twice \in [S -> same]
      BY <2>1
    <2> HIDE DEF twice, same
    <2> QED
      BY <2>2, <2>3, <2>4 DEF Surjection, Injection, IsInjective
  <1> HIDE DEF swap, twice, less, more, all, n
  <1>5. /\ Cardinality(all) = Cardinality(less) + Cardinality(rest)
        /\ Cardinality(less) \in Nat
        /\ IsFiniteSet(less) /\ IsFiniteSet(rest)
    BY <1>1, <1>2, CountSplit
  <1> HIDE DEF rest
  <1>6. Cardinality(rest) = Cardinality(more) + Cardinality(same)
    BY <1>2, <1>5, CountSplit
  <1> HIDE DEF same
  <1>7. Cardinality(more) = Cardinality(less)
    BY <1>3, <1>5, FS_Surjection
  <1>8. Cardinality(same) = n
    <2>1. Cardinality(same) = Cardinality(S)
      BY <1>4, FS_Surjection
    <2> QED
      BY <2>1 DEF n
  <1>9. n * n = Cardinality(less) + (Cardinality(less) + n)
    BY <1>1, <1>5, <1>6, <1>7, <1>8
  <1>10. n * (n - 1) = n * n - n /\ n * n \in Int /\ n \in Int
    BY <1>1
  <1>11. Cardinality(less) + Cardinality(less) = n * (n - 1)
    <2> DEFINE square == n * n
               half == Cardinality(less)
    <2>1. square = half + (half + n) /\ square \in Int /\ half \in Int
      BY <1>5, <1>9, <1>10
    <2>2. n * (n - 1) = square - n
      BY <1>10
    <2> HIDE DEF square, half
    <2>3. half + half = square - n
      BY <1>10, <2>1
    <2> QED
      BY <2>2, <2>3 DEF half
  <1> QED
    BY <1>1, <1>5, <1>11 DEF n, less, all
\* Every order with n products makes its pairs.
LEMMA PairsAddUp ==
    ASSUME NEW orders, Priced(orders), NEW start,
           NEW Sold \in SUBSET Int, IsFiniteSet(Sold),
           \A i \in DOMAIN orders : \A k \in DOMAIN orders[i].items : k[1] \in Sold
    PROVE  LET week == WeekOf(orders, start)
               pairs == ProductPairs(orders, start, Cardinality(Sold \X Sold))
           IN 2 * SumFunction([e \in pairs |-> e.count]) =
                 SumFunction([i \in week |-> LET n == Cardinality(ProductsOf(orders[i]))
                                             IN n * (n - 1)])
  <1> DEFINE week == WeekOf(orders, start)
             limit == Cardinality(Sold \X Sold)
             prods(i) == ProductsOf(orders[i])
             less(i) == {pr \in prods(i) \X prods(i) : pr[1] < pr[2]}
             P == UNION {less(i) : i \in week}
             Count(pr) == Cardinality({i \in week : {pr[1], pr[2]} \subseteq prods(i)})
             name == [pr \in P |-> [pair |-> pr, count |-> Count(pr)]]
             E == {name[pr] : pr \in P}
             Before(e, f) == \/ e.count > f.count
                             \/ /\ e.count = f.count
                                /\ \/ e.pair[1] < f.pair[1]
                                   \/ e.pair[1] = f.pair[1] /\ e.pair[2] < f.pair[2]
             Ahead(e) == {f \in E : Before(f, e)}
             number == [e \in E |-> e.pair]
             value == [e \in E |-> e.count]
             values == [pr \in P |-> value[name[pr]]]
             R == {r \in week \X P : r[2] \in less(r[1])}
             byPair == [pr \in P |-> Cardinality({i \in week : <<i, pr>> \in R})]
             byOrder == [i \in week |-> Cardinality({pr \in P : <<i, pr>> \in R})]
             squares == [i \in week |-> LET n == Cardinality(prods(i)) IN n * (n - 1)]
             pairs == ProductPairs(orders, start, limit)
  <1>1. week \in SUBSET DOMAIN orders /\ IsFiniteSet(week)
    BY WeekIs, FS_Subset DEF Priced, Dated
  <1>2. pairs = {e \in E : Cardinality(Ahead(e)) < limit}
    <2>1. E = {[pair |-> pr, count |-> Count(pr)] : pr \in P}
      <3> HIDE DEF P, Count
      <3> QED
        OBVIOUS
    <2> HIDE DEF E, limit
    <2> QED
      BY <2>1 DEF ProductPairs, Ranked
  <1> HIDE DEF week
  <1>3. \A i \in week : IsFiniteSet(prods(i)) /\ prods(i) \in SUBSET Sold
                        /\ prods(i) \in SUBSET Int
    <2> TAKE i \in week
    <2> DEFINE items == orders[i].items
               f == [k \in DOMAIN items |-> k[1]]
    <2>1. f \in Surjection(DOMAIN items, prods(i))
      BY DEF Surjection, ProductsOf
    <2>2. IsFiniteSet(DOMAIN items)
      BY <1>1 DEF Priced
    <2>3. prods(i) \in SUBSET Sold
      BY <1>1 DEF ProductsOf
    <2> HIDE DEF f, items, prods
    <2> QED
      BY <2>1, <2>2, <2>3, FS_Surjection
  <1>4. P \in SUBSET (Sold \X Sold) /\ IsFiniteSet(Sold \X Sold)
    <2>1. \A i \in week : less(i) \in SUBSET (Sold \X Sold)
      <3> HIDE DEF prods
      <3> QED
        BY <1>3
    <2> HIDE DEF less
    <2> QED
      BY <2>1, FS_Product
  <1>5. IsFiniteSet(P) /\ Cardinality(P) <= limit /\ Cardinality(P) \in Nat /\ limit \in Nat
    <2> HIDE DEF P
    <2> QED
      BY <1>4, FS_Subset, FS_CardinalityType
  <1>6. \A pr \in P : pr[1] \in Int /\ pr[2] \in Int /\ pr[1] < pr[2] /\ pr = <<pr[1], pr[2]>>
    <2>1. \A pr \in P : pr[1] < pr[2]
      <3> HIDE DEF prods, week
      <3> QED
        OBVIOUS
    <2>2. \A pr \in Sold \X Sold : pr[1] \in Sold /\ pr[2] \in Sold /\ pr = <<pr[1], pr[2]>>
      OBVIOUS
    <2>3. \A x \in Sold : x \in Int
      OBVIOUS
    <2> HIDE DEF P
    <2> QED
      BY <1>4, <2>1, <2>2, <2>3
  <1>7. \A i \in week : \A pr \in P : {pr[1], pr[2]} \subseteq prods(i) <=> pr \in less(i)
    <2> TAKE i \in week
    <2> TAKE pr \in P
    <2>1. pr = <<pr[1], pr[2]>> /\ pr[1] < pr[2]
      BY <1>6
    <2> HIDE DEF P, prods
    <2> QED
      BY <2>1
  <1>8. \A pr \in P : /\ name[pr].count = Count(pr) /\ name[pr].pair = pr
                      /\ number[name[pr]] = pr
                      /\ values[pr] = Count(pr)
    <2> HIDE DEF P, Count
    <2> QED
      OBVIOUS
  <1>9. \A pr \in P : Count(pr) = byPair[pr] /\ Count(pr) \in Int
    <2> TAKE pr \in P
    <2> DEFINE S == {i \in week : {pr[1], pr[2]} \subseteq prods(i)}
               T == {i \in week : <<i, pr>> \in R}
    <2>1. S = T
      <3>1. \A i \in week : <<i, pr>> \in R <=> pr \in less(i)
        <4> HIDE DEF P, less
        <4> QED
          OBVIOUS
      <3> HIDE DEF R, P, less, prods
      <3> QED
        BY <1>7, <3>1
    <2>2. Count(pr) = Cardinality(S) /\ byPair[pr] = Cardinality(T)
      <3> HIDE DEF R, P, prods
      <3> QED
        OBVIOUS
    <2>3. Cardinality(S) \in Int
      <3>1. S \in SUBSET week
        OBVIOUS
      <3> HIDE DEF S
      <3>2. Cardinality(S) \in Nat
        BY <1>1, <3>1, FS_Subset, FS_CardinalityType
      <3> QED
        BY <3>2
    <2> HIDE DEF S, T, Count, byPair
    <2> QED
      BY <2>1, <2>2, <2>3
  <1>10. \A e \in E : /\ e.count \in Int /\ e.pair[1] \in Int /\ e.pair[2] \in Int
                      /\ value[e] = e.count
    <2> SUFFICES ASSUME NEW pr \in P
                 PROVE  /\ name[pr].count \in Int
                        /\ name[pr].pair[1] \in Int /\ name[pr].pair[2] \in Int
                        /\ value[name[pr]] = name[pr].count
      BY Zenon
    <2>1. value[name[pr]] = values[pr]
      <3> HIDE DEF P
      <3> QED
        OBVIOUS
    <2> HIDE DEF P, name, value, values, Count
    <2> QED
      BY <1>6, <1>8, <1>9, <2>1
  <1>11. DOMAIN value = E
    OBVIOUS
  <1> HIDE DEF P, name, number, value, Count
  <1>12. /\ IsFiniteSet(E) /\ Cardinality(E) <= limit
         /\ Sum(value, E) = Sum(values, P)
    <2>1. \A pr \in P : number[name[pr]] = pr
      BY <1>8
    <2>2. \A e \in E : value[e] \in Int
      BY <1>10
    <2> HIDE DEF E
    <2>3. /\ IsFiniteSet(E) /\ Cardinality(E) <= Cardinality(P)
          /\ Sum(value, E) = Sum(values, P)
      BY <1>5, <2>1, <2>2, EntriesAre DEF E
    <2>4. Cardinality(E) \in Nat
      BY <2>3, FS_CardinalityType
    <2> HIDE DEF limit
    <2> QED
      BY <1>5, <2>3, <2>4
  <1> HIDE DEF E, limit
  <1>13. pairs = E
    <2> SUFFICES ASSUME NEW e \in E PROVE Cardinality(Ahead(e)) < limit
      BY <1>2
    <2>1. Ahead(e) \in SUBSET (E \ {e})
      BY <1>10
    <2> HIDE DEF Ahead
    <2> QED
      BY <1>5, <1>12, <2>1, FewAhead
  <1>14. Sum(byPair, P) = Sum(byOrder, week)
    <2>1. R \in SUBSET (week \X P)
      OBVIOUS
    <2> HIDE DEF R
    <2> QED
      BY <1>1, <1>5, <2>1, CountBothWays
  <1>15. \A i \in week : byOrder[i] \in Int /\ squares[i] = byOrder[i] + byOrder[i]
    <2> TAKE i \in week
    <2> DEFINE S == prods(i)
    <2>1. less(i) = {pr \in P : <<i, pr>> \in R}
      <3>1. \A pr \in P : <<i, pr>> \in R <=> pr \in less(i)
        <4> HIDE DEF less
        <4> QED
          OBVIOUS
      <3>2. less(i) \subseteq P
        <4> HIDE DEF less
        <4> QED
          BY DEF P
      <3> HIDE DEF less, R
      <3> QED
        BY <3>1, <3>2
    <2>2. byOrder[i] = Cardinality({pr \in P : <<i, pr>> \in R})
      <3> HIDE DEF R
      <3> QED
        OBVIOUS
    <2>3. squares[i] = Cardinality(S) * (Cardinality(S) - 1)
      OBVIOUS
    <2>4. less(i) = {pr \in S \X S : pr[1] < pr[2]}
      OBVIOUS
    <2>5. S \in SUBSET Int /\ IsFiniteSet(S)
      BY <1>3
    <2> HIDE DEF S, less, byOrder, squares, R
    <2>6. /\ Cardinality({pr \in S \X S : pr[1] < pr[2]}) \in Nat
          /\ Cardinality({pr \in S \X S : pr[1] < pr[2]})
                + Cardinality({pr \in S \X S : pr[1] < pr[2]})
             = Cardinality(S) * (Cardinality(S) - 1)
      BY <2>5, OrderedPairs
    <2>7. byOrder[i] = Cardinality({pr \in S \X S : pr[1] < pr[2]})
      <3>1. {pr \in P : <<i, pr>> \in R} = {pr \in S \X S : pr[1] < pr[2]}
        BY <2>1, <2>4
      <3> QED
        BY <2>2, <3>1
    <2> QED
      BY <2>3, <2>6, <2>7
  <1>16. DOMAIN squares = week
    OBVIOUS
  <1> HIDE DEF R, byPair, byOrder, squares, values
  <1>17. Sum(values, P) = Sum(byPair, P)
    BY <1>5, <1>8, <1>9, SumAgrees
  <1>18. Sum(squares, week) = Sum(byOrder, week) + Sum(byOrder, week)
         /\ Sum(byOrder, week) \in Int
    BY <1>1, <1>15, SumPlus, SumIsNumber
  <1>19. SumFunction(value) = Sum(value, E) /\ SumFunction(squares) = Sum(squares, week)
    BY <1>11, <1>16, SumOfFunction
  <1>20. 2 * SumFunction(value) = SumFunction(squares)
    BY <1>12, <1>14, <1>17, <1>18, <1>19
  <1>21. value = [e \in pairs |-> e.count]
    BY <1>13 DEF value
  <1> QED
    BY <1>20, <1>21, Zenon DEF pairs, limit, squares, prods, week
==============================================================================
