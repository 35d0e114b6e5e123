------------------------------ MODULE Planning ------------------------------
(***************************************************************************)
(* Plans and what is read out of history: the occurrences of a budget item *)
(* and the days a budget is active (lib/budget/recurrence.ts), the line a  *)
(* plan draws (projection.ts), the months a forecast is averaged over      *)
(* (months.ts), and the detector that turns payments into items            *)
(* (detect.ts, lib/server/budget/infer.ts).                                *)
(*                                                                         *)
(* Days are Calendar's.  Money is in whole units.  The detector's lengths  *)
(* are in hundredths of a day, its medians doubled, so that every test is  *)
(* one on integers; the nearest cadence by logarithm of the ratio is the   *)
(* one whose ratio, turned to be above one, is smallest.                   *)
(***************************************************************************)
EXTENDS Calendar, FiniteSets, FiniteSetsExt, Functions, SequencesExt

-----------------------------------------------------------------------------
(* Lifespans.                                                                *)

\* No day is this early: the open side of a lifespan.
Open == -1000000
Always == [starts |-> Open, ends |-> Open, yearly |-> FALSE]

MonthDay(day) == LET x == Ymd(day) IN 100 * x.month + x.day
DaysInMonth(y, m) == Day(y, m + 1, 1) - Day(y, m, 1)
Least(a, b) == IF a <= b THEN a ELSE b
Most(a, b) == IF a >= b THEN a ELSE b

\* A yearly window that wraps the new year holds the days outside its gap.
ActiveOn(span, day) ==
    LET on == MonthDay(day)
        from == MonthDay(span.starts)
        to == MonthDay(span.ends)
    IN  IF span.yearly /\ Open \notin {span.starts, span.ends}
        THEN IF from <= to THEN from <= on /\ on <= to ELSE from <= on \/ on <= to
        ELSE (span.starts = Open \/ day >= span.starts) /\ (span.ends = Open \/ day <= span.ends)

\* The instance that opens in year `y'; its end is kept inside its month.
Instance(span, y, z) ==
    LET a == Ymd(span.starts)  b == Ymd(span.ends)
    IN  [from |-> Day(y, a.month, a.day),
         to |-> Day(z, b.month, Least(b.day, DaysInMonth(z, b.month)))]

\* The instance running now, or the next one; the last candidate if none is left.
CurrentOrNextWindow(span, now) ==
    LET wraps == IF MonthDay(span.starts) > MonthDay(span.ends) THEN 1 ELSE 0
        year == Ymd(now).year
        ahead == {y \in (year - 1)..(year + 1) : Instance(span, y, y + wraps).to >= now}
        first == IF ahead = {} THEN year ELSE CHOOSE y \in ahead : \A z \in ahead : y <= z
    IN  IF ~span.yearly THEN Instance(span, Ymd(span.starts).year, Ymd(span.ends).year)
        ELSE Instance(span, first, first + wraps)

-----------------------------------------------------------------------------
(* Occurrences.                                                              *)

MonthsPerStep == [month |-> 1, quarter |-> 3, year |-> 12]
DaysPerStep == [day |-> 1, week |-> 7]

InMonthDrifting(m, anchorDay) ==
    LET y == m \div 12  mm == (m % 12) + 1
    IN  Day(y, mm, Least(anchorDay, DaysInMonth(y, 2)))
\* The occurrence in month `m', counted from year 0: the anchor's own day again
\* for every month, kept inside it.
InMonth(m, anchorDay) ==
    LET y == m \div 12  mm == (m % 12) + 1
    IN  Day(y, mm, Least(anchorDay, DaysInMonth(y, mm)))

\* All of them in [from, to), on days the budget is active.
OccurrencesIn(item, span, from, to) ==
    LET anchor == Ymd(item.anchor)
        n == Most(1, item.interval)
        base == 12 * anchor.year + anchor.month - 1
        MonthNo(day) == LET x == Ymd(day) IN 12 * x.year + x.month - 1
        days == CASE item.frequency = "once" -> {item.anchor}
                  [] item.frequency \in DOMAIN DaysPerStep ->
                       LET step == DaysPerStep[item.frequency] * n
                           first == item.anchor + Ceil(from - item.anchor, step) * step
                       IN  {first + step * i : i \in 0..((to - first) \div step)}
                  [] OTHER ->
                       LET step == MonthsPerStep[item.frequency] * n
                           back == (MonthNo(from) - base) \div step - 1
                       IN  {InMonth(base + step * (back + i), anchor.day) :
                               i \in 0..((MonthNo(to) - MonthNo(from)) \div step + 2)}
    IN  {d \in days : from <= d /\ d < to /\ ActiveOn(span, d)}

\* What an item comes to in one period.
AmountInPeriod(item, span, key, period, from, to, tax) ==
    item.amount * Cardinality({d \in OccurrencesIn(item, span, from, to) :
                                  PeriodKey(d, period, tax) = key})

\* The next one within two years, Open if there is none.
NextOccurrence(item, span, from) ==
    LET found == OccurrencesIn(item, span, from, from + 732)
    IN  IF found = {} THEN Open ELSE Min(found)

-----------------------------------------------------------------------------
(* The line a plan draws.                                                    *)

\* Days are indices from 1, tomorrow.  The walk stops on the floor; the day the
\* money runs out is the first that ends at or below zero.
WalkProjection(nets, worth, floor) ==
    LET days == Len(nets)
        bottom == Least(floor, worth)
        moved == {i \in 1..days : nets[i] # 0}
        Ends(i) == worth + MapThenSumSet(LAMBDA j : nets[j], {j \in moved : j <= i})
        Opens(i) == Ends(i) - nets[i]
        stops == {i \in moved : Ends(i) <= bottom /\ Opens(i) >= bottom}
        last == IF stops = {} THEN days ELSE Min(stops)
        crossed == {i \in moved : i <= last /\ Ends(i) <= 0 /\ Opens(i) > 0}
        Kept(i) == i <= last /\ (i = last \/ nets[i + 1] # nets[i])
        Point(i) == [day |-> i, worth |-> IF i \in stops THEN bottom ELSE Ends(i)]
        points == SortSeq(FoldSet(LAMBDA i, s : Append(s, Point(i)), <<>>, {i \in moved : Kept(i)}),
                          LAMBDA p, q : p.day < q.day)
        flat == stops = {} /\ (points = <<>> \/ points[Len(points)].day < days)
    IN  [points |-> IF flat THEN Append(points, [day |-> days, worth |-> Ends(days)]) ELSE points,
         depletion |-> IF crossed # {} THEN Min(crossed) ELSE IF worth <= 0 THEN 1 ELSE 0,
         exhausted |-> IF stops # {} /\ floor < 0 THEN last ELSE 0]

\* Each day averaged over the scenarios that reach it; half a unit counts up.
AverageDailyNets(scenarios) ==
    LET reach == Max({0} \cup {Len(s) : s \in Range(scenarios)})
        On(i) == {k \in DOMAIN scenarios : i <= Len(scenarios[k])}
        Total(i) == MapThenSumSet(LAMBDA k : scenarios[k][i], On(i))
    IN  [i \in 1..reach |-> (2 * Total(i) + Cardinality(On(i))) \div (2 * Cardinality(On(i)))]

-----------------------------------------------------------------------------
(* Months of history.                                                        *)

Months == 12
MonthKey(day) == PeriodKey(day, "month", [month |-> 1, day |-> 1])
CompleteMonths(now) == PeriodWindow(now, "month", Months, 1, [month |-> 1, day |-> 1])

\* The mean that counts the newest month twelve times, rounded to the unit.
RecencyWeightedMean(oldestFirst) ==
    LET n == Len(oldestFirst)
        weight == (n * (n + 1)) \div 2
        total == MapThenSumSet(LAMBDA i : i * oldestFirst[i], 1..n)
    IN  IF n = 0 THEN 0 ELSE (2 * total + weight) \div (2 * weight)

-----------------------------------------------------------------------------
(* The detector.                                                             *)

InferDays == 730
MinOccurrences == 3
Cadences == <<[frequency |-> "day", interval |-> 1, length |-> 100],
              [frequency |-> "day", interval |-> 2, length |-> 200],
              [frequency |-> "week", interval |-> 1, length |-> 700],
              [frequency |-> "week", interval |-> 2, length |-> 1400],
              [frequency |-> "month", interval |-> 1, length |-> 3044],
              [frequency |-> "month", interval |-> 2, length |-> 6088],
              [frequency |-> "quarter", interval |-> 1, length |-> 9131],
              [frequency |-> "month", interval |-> 6, length |-> 18262],
              [frequency |-> "year", interval |-> 1, length |-> 36525]>>

Ascending(values) == SortSeq(values, LAMBDA a, b : a < b)
\* Twice the median.
Median2(values) ==
    LET s == Ascending(values)  n == Len(s)
    IN  IF n = 0 THEN 0 ELSE IF n % 2 = 1 THEN 2 * s[(n + 1) \div 2] ELSE s[n \div 2] + s[n \div 2 + 1]
\* The median to the unit, half a unit counting up.
DetectAmount(amounts) == (Median2(amounts) + 1) \div 2

\* A quarter of the target, and never less than two days.
Within(value, target) ==
    LET apart == IF value >= target THEN value - target ELSE target - value
    IN  apart <= 200 \/ 4 * apart <= target

\* Gaps in hundredths of a day; rows of one day are one event.
GapsAll(days) == [i \in 1..(Len(days) - 1) |-> 100 * (Ascending(days)[i + 1] - Ascending(days)[i])]
Gaps(days) == SelectSeq(GapsAll(days), LAMBDA g : g > 0)

\* The cadence whose length the typical gap is nearest to, as a ratio.
Nearest(typical) ==
    LET Far(c) == Most(typical, c.length)
        Near(c) == Least(typical, c.length)
        Better(a, b) == Far(a) * Near(b) <= Far(b) * Near(a)
    IN  FoldLeft(LAMBDA a, b : IF Better(a, b) THEN a ELSE b, Cadences[1], Cadences)

None == [frequency |-> "none", interval |-> 0, length |-> 0]
DetectRecurrence(days) ==
    LET gaps == Gaps(days)
        typical == Median2(gaps) \div 2
        best == Nearest(typical)
    IN  IF Len(days) < MinOccurrences \/ Len(gaps) < MinOccurrences - 1 THEN None
        ELSE IF Within(typical, best.length) /\ \A i \in DOMAIN gaps : Within(gaps[i], typical)
             THEN best ELSE None

\* Still running: a cycle and a half since the last payment at most.
CadenceDays == [day |-> 100, week |-> 700, month |-> 3044, quarter |-> 9131, year |-> 36525]
IsCurrent(days, found, now) ==
    200 * (now - Max(Range(days))) <= 3 * CadenceDays[found.frequency] * found.interval

\* A habit: most of the last twelve weeks, or half of the last six months.
Active(totals) == Cardinality({i \in DOMAIN totals : totals[i] # 0})
DetectRate(weekTotals, monthTotals) ==
    LET Fits(totals, num, den) == Active(totals) >= Ceil(Len(totals) * num, den)
    IN  IF Fits(weekTotals, 3, 4) THEN [frequency |-> "week", amount |-> DetectAmount(weekTotals)]
        ELSE IF Fits(monthTotals, 1, 2)
             THEN [frequency |-> "month", amount |-> DetectAmount(monthTotals)]
        ELSE [frequency |-> "none", amount |-> 0]

\* The commonest value; the one met first among the commonest, unless the last is one.
Mode(values) ==
    LET Count(v) == Cardinality({i \in DOMAIN values : values[i] = v})
        top == Max({Count(v) : v \in Range(values)})
    IN  values[Min({i \in DOMAIN values : Count(values[i]) = top})]

\* The last payment, moved to the day the stream usually falls on.
DetectAnchor(days, frequency) ==
    LET sorted == Ascending(days)
        last == sorted[Len(sorted)]
        x == Ymd(last)
        usual == (Median2([i \in DOMAIN sorted |-> Ymd(sorted[i]).day]) + 1) \div 2
    IN  CASE frequency \in {"day", "once"} -> last
          [] frequency = "week" -> last + Mode([i \in DOMAIN sorted |-> Weekday(sorted[i])]) - Weekday(last)
          [] OTHER -> Day(x.year, x.month, Least(usual, DaysInMonth(x.year, x.month)))

-----------------------------------------------------------------------------
(* A proposal from history, one item a stream or a remainder a group.        *)

TotalOn(stream, P(_)) ==
    MapThenSumSet(LAMBDA i : stream[i].amount, {i \in DOMAIN stream : P(stream[i].date)})

\* What a stream is proposed as: a bill still running, a habit, or neither.
ProposedItem(stream, now) ==
    LET days == [i \in DOMAIN stream |-> stream[i].date]
        found == DetectRecurrence(days)
        amount == DetectAmount([i \in DOMAIN stream |-> stream[i].amount])
        weeks == [i \in 1..12 |-> IsoWeek(now - (13 - i) * 7)]
        months == SubSeq(CompleteMonths(now), Months - 5, Months)
        rate == DetectRate([i \in 1..12 |-> TotalOn(stream, LAMBDA d : IsoWeek(d) = weeks[i])],
                           [i \in 1..6 |-> TotalOn(stream, LAMBDA d : MonthKey(d) = months[i])])
    IN  IF found # None /\ IsCurrent(days, found, now) /\ amount # 0
        THEN [amount |-> amount, frequency |-> found.frequency, interval |-> found.interval,
              anchor |-> DetectAnchor(days, found.frequency)]
        ELSE IF rate.amount # 0
        THEN [amount |-> rate.amount, frequency |-> rate.frequency, interval |-> 1,
              anchor |-> DetectAnchor(days, rate.frequency)]
        ELSE [amount |-> 0, frequency |-> "once", interval |-> 1, anchor |-> now]

\* What nothing explains, averaged, on the first of the month.
Remainder(streams, now) ==
    LET Left(mk) == MapThenSumSet(LAMBDA k : TotalOn(streams[k], LAMBDA d : MonthKey(d) = mk),
                        {k \in DOMAIN streams : ProposedItem(streams[k], now).amount = 0})
        months == CompleteMonths(now)
    IN  [amount |-> RecencyWeightedMean([i \in DOMAIN months |-> Left(months[i])]),
         frequency |-> "month", interval |-> 1,
         anchor |-> Day(Ymd(now).year, Ymd(now).month, 1)]
=============================================================================
