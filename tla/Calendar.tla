------------------------------ MODULE Calendar ------------------------------
(***************************************************************************)
(* Time as lib/periods.ts slices it: nine kinds of period, six cut by the  *)
(* calendar and three by a household's tax year, their keys, windows of    *)
(* them that a reader pages through, and the flip between the two bases.   *)
(*                                                                         *)
(* A day is a number, counted from Monday 29 December 2025 (the cycle of   *)
(* fortnights starts there), so weekdays and fortnights are remainders.    *)
(* Dates in the database and in urls are UTC midnights, which is midday in *)
(* New Zealand: the local day of a day is itself, and only the midpoint    *)
(* counterpartStart takes may fall on a UTC noon, local midnight, and so   *)
(* on the day after.  A key is a pair, the year and what is numbered in    *)
(* it; pairs are ordered as their strings are.                             *)
(***************************************************************************)
EXTENDS Integers, Sequences

\* Days before 1 March of year 0, so that leap days end years.
Epoch == 739919
FloorDays(y) == 365 * y + (y \div 4) - (y \div 100) + (y \div 400)

\* Date.UTC: a month beyond December carries into the years.
DayOfMonth(months, d) ==
    FloorDays(months \div 12) + (153 * (months % 12) + 2) \div 5 + d - 1 - Epoch
Day(y, m, d) == DayOfMonth(12 * y + m - 3, d)

\* The year, month and day: of the day `doy' of a year, counted from 1 March, and
\* of the day `doe' of four centuries.
OfYear(year, doy) ==
    [year |-> IF doy >= 306 THEN year + 1 ELSE year,
     month |-> IF doy >= 306 THEN (5 * doy + 2) \div 153 - 9 ELSE (5 * doy + 2) \div 153 + 3,
     day |-> doy - (153 * ((5 * doy + 2) \div 153) + 2) \div 5 + 1]
OfCenturies(first, doe, yoe) == OfYear(first + yoe, doe - (365 * yoe + (yoe \div 4) - (yoe \div 100)))
YearOf(doe) == (doe - (doe \div 1460) + (doe \div 36524) - (doe \div 146096)) \div 365
FromMarch(z) == OfCenturies(400 * (z \div 146097), z % 146097, YearOf(z % 146097))
Ymd(day) == FromMarch(day + Epoch)

Weekday(day) == day % 7         \* Monday is 0
Ceil(n, k) == 0 - ((0 - n) \div k)

-----------------------------------------------------------------------------
Views == {"day", "week", "fortnight", "month", "quarter", "year"}
TaxPeriods == {"taxmonth", "taxquarter", "taxyear"}
Bases == {"calendar", "tax"}
TaxForm == [month |-> "taxmonth", quarter |-> "taxquarter", year |-> "taxyear"]
HasTaxForm(view) == view \in DOMAIN TaxForm
ResolvePeriod(view, basis) ==
    IF basis = "tax" /\ HasTaxForm(view) THEN TaxForm[view] ELSE view

\* The url's parameters, where any text may stand; the first form is an old link.
ReadPeriodParams(period, basis, fallback) ==
    IF period = "taxyear" THEN [view |-> "year", basis |-> "tax"]
    ELSE [view |-> IF period \in Views THEN period ELSE fallback,
          basis |-> IF basis \in Bases THEN basis ELSE "calendar"]

-----------------------------------------------------------------------------
(* Weeks, fortnights and tax years.                                          *)

IsoYear(day) == Ymd(day - Weekday(day) + 3).year        \* that of its Thursday
WeekOne(y) == Day(y, 1, 4) - Weekday(Day(y, 1, 4))
WeekIn(year, day) == <<year, 1 + (day - Weekday(day) - WeekOne(year)) \div 7>>
IsoWeek(day) == WeekIn(IsoYear(day), day)
WeekMonday(k) == WeekOne(k[1]) + 7 * (k[2] - 1)

FortnightIndex(day) == day \div 14
FirstFortnightOf(y) == Ceil(WeekOne(y), 14)
FortnightIn(year, i) == <<year, i - FirstFortnightOf(year) + 1>>
FortnightKey(i) == FortnightIn(IsoYear(14 * i), i)
FortnightOfKey(k) == FirstFortnightOf(k[1]) + k[2] - 1

\* A day every month has.
TaxYears == [month : 1..12, day : 1..28]
YearsSpanned(tax) == IF tax.month = 1 /\ tax.day = 1 THEN 0 ELSE 1
\* In these and in PeriodKey, x is the date of the day.
TaxYearAt(x, tax) ==
    (IF x.month > tax.month \/ (x.month = tax.month /\ x.day >= tax.day) THEN x.year ELSE x.year - 1)
    + YearsSpanned(tax)
TaxYearEnd(day, tax) == TaxYearAt(Ymd(day), tax)

\* Whole tax months since the tax year opened, 0 to 11.
TaxMonthAt(x, tax) ==
    12 * (x.year - TaxYearAt(x, tax) + YearsSpanned(tax)) + x.month - tax.month
    - (IF x.day < tax.day THEN 1 ELSE 0)

TaxYearChoices(day, tax) ==
    (TaxYearEnd(day, tax) - 5)..(TaxYearEnd(day, tax) + 1)

-----------------------------------------------------------------------------
(* Keys.                                                                     *)

KeyAt(day, x, period, tax) ==
    CASE period = "day" -> <<x.year, 100 * x.month + x.day>>
      [] period = "week" -> IsoWeek(day)
      [] period = "fortnight" -> FortnightKey(FortnightIndex(day))
      [] period = "month" -> <<x.year, x.month>>
      [] period = "quarter" -> <<x.year, Ceil(x.month, 3)>>
      [] period = "year" -> <<x.year, 0>>
      [] period = "taxmonth" -> <<TaxYearAt(x, tax), TaxMonthAt(x, tax) + 1>>
      [] period = "taxquarter" -> <<TaxYearAt(x, tax), (TaxMonthAt(x, tax) \div 3) + 1>>
      [] period = "taxyear" -> <<TaxYearAt(x, tax), 0>>
PeriodKey(day, period, tax) == KeyAt(day, Ymd(day), period, tax)

Upto(k, l) == k[1] < l[1] \/ (k[1] = l[1] /\ k[2] <= l[2])

\* A row somebody moved to another tax year closes that year, 0 if nobody did.
TransactionPeriodKey(row, period, tax) ==
    IF row.taxYear \notin {0, TaxYearEnd(row.date, tax)} /\ period \in TaxPeriods
    THEN <<row.taxYear, CASE period = "taxyear" -> 0
                          [] period = "taxquarter" -> 4
                          [] period = "taxmonth" -> 12>>
    ELSE PeriodKey(row.date, period, tax)

\* The key `i' periods before the one `now' is in; `per' of them make a year.
Numbered(n, per) == <<n \div per, (n % per) + 1>>
BackFrom(now, x, period, i, tax) ==
    CASE period = "day" -> PeriodKey(now - i, "day", tax)
      [] period = "week" -> IsoWeek(now - 7 * i)
      [] period = "fortnight" -> FortnightKey(FortnightIndex(now) - i)
      [] period = "month" -> Numbered(12 * x.year + x.month - 1 - i, 12)
      [] period = "quarter" -> Numbered(4 * x.year + ((x.month - 1) \div 3) - i, 4)
      [] period = "year" -> <<x.year - i, 0>>
      [] period = "taxmonth" -> Numbered(12 * TaxYearAt(x, tax) + TaxMonthAt(x, tax) - i, 12)
      [] period = "taxquarter" -> Numbered(4 * TaxYearAt(x, tax) + (TaxMonthAt(x, tax) \div 3) - i, 4)
      [] period = "taxyear" -> <<TaxYearAt(x, tax) - i, 0>>
PeriodBack(now, period, i, tax) == BackFrom(now, Ymd(now), period, i, tax)

\* `count' keys, oldest first, the newest `offset' before the one in progress.
PeriodWindow(now, period, count, offset, tax) ==
    [j \in 1..count |-> PeriodBack(now, period, offset + count - j, tax)]

\* A lower bound for what a page fetches; the keys decide what it shows.
Longest == [day |-> 1, week |-> 7, fortnight |-> 14, month |-> 31, quarter |-> 93, year |-> 366,
            taxmonth |-> 31, taxquarter |-> 93, taxyear |-> 366]
FetchCutoff(now, period, count) == now - (count + 2) * Longest[period]

PeriodStart(k, period, tax) ==
    CASE period = "day" -> Day(k[1], k[2] \div 100, k[2] % 100)
      [] period = "week" -> WeekMonday(k)
      [] period = "fortnight" -> 14 * FortnightOfKey(k)
      [] period = "month" -> Day(k[1], k[2], 1)
      [] period = "quarter" -> Day(k[1], 3 * (k[2] - 1) + 1, 1)
      [] period = "year" -> Day(k[1], 1, 1)
      [] period = "taxyear" -> Day(k[1] - YearsSpanned(tax), tax.month, tax.day)
      [] OTHER -> Day(k[1] - YearsSpanned(tax),
                      tax.month + (k[2] - 1) * (IF period = "taxmonth" THEN 1 ELSE 3), tax.day)

\* Where the next one starts, found by asking which period a day in it is in.
Skip == [Longest EXCEPT !.month = 32, !.taxmonth = 32]
PeriodEnd(k, period, tax) ==
    PeriodStart(PeriodKey(PeriodStart(k, period, tax) + Skip[period], period, tax), period, tax)

-----------------------------------------------------------------------------
(* Flipping a window to the other basis.                                     *)

\* The period of the other kind its midpoint is in; half a day counts up.
CounterpartStart(k, period, to, tax) ==
    PeriodStart(PeriodKey((PeriodStart(k, period, tax) + PeriodEnd(k, period, tax) + 1) \div 2, to, tax),
                to, tax)

MaxOffset == 6000
\* The first window, walking back, that begins at the period `target' or before.
OffsetReaching(now, period, count, target, tax) ==
    LET Reached(o) == Upto(PeriodBack(now, period, o + count - 1, tax), target)
    IN  IF \E o \in 0..(MaxOffset - 1) : Reached(o)
        THEN CHOOSE o \in 0..(MaxOffset - 1) : Reached(o) /\ \A e \in 0..(o - 1) : ~Reached(e)
        ELSE 0
OffsetForStartDate(now, period, count, date, tax) ==
    OffsetReaching(now, period, count, PeriodKey(date, period, tax), tax)

\* The date to anchor the flipped window at; 0 of `kept' is the one in progress.
Flipped(now, view, basis, count, offset, tax) ==
    LET to == ResolvePeriod(view, IF basis = "tax" THEN "calendar" ELSE "tax")
        from == CounterpartStart(PeriodWindow(now, ResolvePeriod(view, basis), count, offset, tax)[1],
                                 ResolvePeriod(view, basis), to, tax)
    IN  [from |-> from, offset |-> OffsetForStartDate(now, to, count, from, tax)]
=============================================================================
