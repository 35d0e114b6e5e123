------------------------------ MODULE Reports ------------------------------
(***************************************************************************)
(* What the dashboard computes from the ledger, the accounts and the       *)
(* plans: amounts in one currency (lib/server/currency.ts), balances and   *)
(* how far they can be run down (lib/accounts.ts, metrics/balance.ts), the *)
(* comparison of periods (metrics/comparison), a plan over the same        *)
(* periods and what separates the two (metrics/budget), a normal month     *)
(* (metrics/spend), and the balance as a line (metrics/balance-series.ts). *)
(*                                                                         *)
(* The nested maps of a PeriodBreakdown hold running sums.  Here a         *)
(* breakdown is the set of entries that were added up: what a map holds    *)
(* under a key is the sum of the entries with that key.  An entry without  *)
(* a label counts for its group and is not disclosed beneath it.           *)
(***************************************************************************)
EXTENDS Planning

Unset == "unset"                \* a name that is null
Absent == Open                  \* a figure that is null
Uncategorised == "Uncategorised"
Unknown == "Unknown"
PeriodicIncome == "Periodic Income"
OtherIncomeGroup == "Other Income"
IncomeGroups == {PeriodicIncome, OtherIncomeGroup}
EssentialGroups == {"Housing", "Utilities", "Food", "Health", "Transport"} \cup IncomeGroups
TaxPayments == "Tax payments"   \* the category struck from the forecast

Named(name, otherwise) == IF name = Unset THEN otherwise ELSE name
Magnitude(n) == IF n < 0 THEN 0 - n ELSE n
Listed(S) == FoldSet(LAMBDA x, s : Append(s, x), <<>>, S)

-----------------------------------------------------------------------------
(* Currency.  `fx' is the display currency and the mirrored rates.           *)

FxBase == "NZD"

\* The nearest rate on or before the day, 0 if there is none.
RateOn(rates, c, day) ==
    LET known == {r \in rates : r.currency = c /\ r.day <= day}
    IN  IF c = FxBase THEN 1
        ELSE IF known = {} THEN 0
        ELSE (CHOOSE r \in known : \A s \in known : s.day <= r.day).rate

\* An amount nothing quotes is left as it is.
ToDisplay(fx, amount, currency, day) ==
    LET from == RateOn(fx.rates, currency, day)
        to == RateOn(fx.rates, fx.display, day)
    IN  IF currency \in {Unset, fx.display} \/ 0 \in {from, to} THEN amount
        ELSE (amount * to) \div from

-----------------------------------------------------------------------------
(* Balances.                                                                 *)

LiquidTypes == {"CHECKING", "SAVINGS", "WALLET", "FOREIGN"}
LockedTypes == {"KIWISAVER", "INVESTMENT"}
Or0(n) == IF n = Absent THEN 0 ELSE n

\* What can be spent out of a facility: never more than draws its limit.
SpendableFrom(a) ==
    IF a.limit = Absent \/ a.limit <= 0 \/ a.available = Absent THEN Absent
    ELSE Most(0, Least(a.available, Or0(a.current) + a.limit))
DrawableCredit(a) ==
    IF SpendableFrom(a) = Absent THEN 0
    ELSE Most(0, SpendableFrom(a) - Most(0, Or0(a.current)))
SpendFloor(a) ==
    Least(0, Or0(a.current) - (IF SpendableFrom(a) = Absent THEN 0 ELSE SpendableFrom(a)))

BalanceSummary(accounts, fx, today) ==
    LET Worth(n, a) == ToDisplay(fx, n, a.currency, today)
        Over(P(_), F(_)) == MapThenSumSet(LAMBDA i : Worth(F(accounts[i]), accounts[i]),
                                          {i \in DOMAIN accounts : P(accounts[i])})
        Spendable(a) == a.type \notin LockedTypes
        Current(a) == Or0(a.current)
        Available(a) == IF a.available = Absent THEN Current(a) ELSE a.available
        total == Over(LAMBDA a : TRUE, Current)
        locked == Over(LAMBDA a : ~Spendable(a), Current)
    IN  [liquid |-> Over(LAMBDA a : a.type \in LiquidTypes, Available),
         locked |-> locked, total |-> total, accessible |-> total - locked,
         creditFloor |-> Over(Spendable, SpendFloor),
         creditLimit |-> Over(LAMBDA a : Spendable(a) /\ DrawableCredit(a) > 0, LAMBDA a : a.limit)]

-----------------------------------------------------------------------------
(* The comparison of periods.  A row has a date, the tax year somebody moved *)
(* it to (0 if nobody did), an amount, names that may be unset, a currency   *)
(* and whether it is one side of a transfer.                                 *)

FetchedByDate(rows, keys, now, period, count, offset) ==
    {i \in DOMAIN rows :
        ~rows[i].transfer /\ rows[i].date >= FetchCutoff(now, period, count + offset)}
\* What a page reads: by date, and by the tax years it shows.
Fetched(rows, keys, now, period, count, offset) ==
    {i \in DOMAIN rows :
        /\ ~rows[i].transfer
        /\ \/ rows[i].date >= FetchCutoff(now, period, count + offset)
           \/ period \in TaxPeriods /\ rows[i].taxYear \in {k[1] : k \in Range(keys)}}

\* The category decides the side; only for a row without one does the sign.
HistoricEntry(i, row, fx, key) ==
    LET signed == ToDisplay(fx, row.amount, row.currency, row.date)
        income == IF row.group = Unset THEN signed > 0 ELSE row.group \in IncomeGroups
    IN  [id |-> <<i>>, key |-> key, side |-> IF income THEN "in" ELSE "out",
         group |-> IF income THEN row.group ELSE Named(row.group, Uncategorised),
         label |-> IF income THEN Named(row.category, Uncategorised)
                   ELSE IF row.group = Unset THEN Unset ELSE row.category,
         merchant |-> Named(row.merchant, Unknown),
         value |-> IF income THEN signed ELSE 0 - signed]

Historic(rows, fx, now, period, count, offset, tax) ==
    LET keys == PeriodWindow(now, period, count, offset, tax)
        KeyOf(i) == TransactionPeriodKey(rows[i], period, tax)
    IN  {HistoricEntry(i, rows[i], fx, KeyOf(i)) :
            i \in {j \in Fetched(rows, keys, now, period, count, offset) : KeyOf(j) \in Range(keys)}}

\* Whether anything happened before the window, transfers included.
HasOlder(rows, now, period, count, offset, tax) ==
    LET dates == {r.date : r \in {s \in Range(rows) : s.amount # 0}}
        first == PeriodWindow(now, period, count, offset, tax)[1]
    IN  dates # {} /\ ~Upto(first, PeriodKey(Min(dates), period, tax))
Sum(entries) == MapThenSumSet(LAMBDA e : e.value, entries)
SideTotal(entries, side) == Sum({e \in entries : e.side = side})
GroupTotal(entries, g) == Sum({e \in entries : e.side = "out" /\ e.group = g})
SpendTotal(entries, g, l) == Sum({e \in entries : e.side = "out" /\ e.group = g /\ e.label = l})
IncomeTotal(entries, l) == Sum({e \in entries : e.side = "in" /\ e.label = l})
MerchantTotal(entries, side, g, l, m) ==
    Sum({e \in entries : /\ e.side = side /\ e.label = l /\ e.merchant = m
                         /\ side = "out" => e.group = g})
Of(entries, key) == {e \in entries : e.key = key}
GroupsIn(entries) == {e.group : e \in {x \in entries : x.side = "out"}}
LabelsUnder(entries, g) ==
    {e.label : e \in {x \in entries : x.side = "out" /\ x.group = g}} \ {Unset}
IncomeLabels(entries) == {e.label : e \in {x \in entries : x.side = "in"}}
\* The group an income label is filed under: that of an entry met first.
IncomeGroupOf(entries, l) == (CHOOSE e \in entries : e.side = "in" /\ e.label = l).group

\* The table: income groups with their labels, then the labels with no group.
IncomeRows(entries, groups) ==
    LET Under(g) == {l \in IncomeLabels(entries) : IncomeGroupOf(entries, l) = g}
    IN  {[row |-> g, under |-> Under(g)] : g \in groups}
        \cup {[row |-> l, under |-> {l}] : l \in Under(Unset)}
RowTotal(entries, row) == Sum({e \in entries : e.side = "in" /\ e.label \in row.under})
\* A merchant level is offered when it names somebody.
MerchantRows(entries, side, g, l) ==
    LET known == {e.merchant : e \in {x \in entries : x.side = side /\ x.label = l
                                                      /\ (side = "out" => x.group = g)}}
    IN  IF known \subseteq {Unknown} THEN {} ELSE known
-----------------------------------------------------------------------------
(* A plan over the same periods.                                             *)

Lifespan(b) == [starts |-> b.starts, ends |-> b.ends, yearly |-> b.yearly]

\* An item's sign is its side; its label is never missing.
PlannedEntry(b, n, item, day, fx, key) ==
    [id |-> <<b, n, day>>, key |-> key, side |-> IF item.amount > 0 THEN "in" ELSE "out",
     group |-> item.group, label |-> Named(item.category, Uncategorised),
     merchant |-> Named(item.merchant, Unknown),
     value |-> Magnitude(ToDisplay(fx, item.amount, item.currency, day))]

Occurring(b, budget, from, to) ==
    UNION {{<<b, n, day>> : day \in OccurrencesIn(budget.items[n], Lifespan(budget), from, to)} :
              n \in DOMAIN budget.items}

\* The variance view stops the plan at today.
PlannedFor(ids, budgets, fx, now, period, count, offset, tax, clip) ==
    LET keys == PeriodWindow(now, period, count, offset, tax)
        from == PeriodStart(keys[1], period, tax)
        whole == PeriodEnd(keys[count], period, tax)
        to == IF clip /\ now < whole THEN now ELSE whole
        due == UNION {Occurring(b, budgets[b], from, to) : b \in ids}
    IN  {e \in {PlannedEntry(d[1], d[2], budgets[d[1]].items[d[2]], d[3], fx,
                             PeriodKey(d[3], period, tax)) : d \in due} : e.key \in Range(keys)}

OverlapsWindow(b, from, to) ==
    b.yearly \/ ((b.starts = Open \/ b.starts < to) /\ (b.ends = Open \/ b.ends >= from))
Spanned(now, period, count, offset, tax) ==
    LET keys == PeriodWindow(now, period, count, offset, tax)
    IN  [from |-> PeriodStart(keys[1], period, tax), to |-> PeriodEnd(keys[count], period, tax)]
BudgetsInWindow(budgets, span) ==
    {b \in DOMAIN budgets : budgets[b].base = Unset /\ OverlapsWindow(budgets[b], span.from, span.to)}
BaseWithActiveLayers(base, budgets, span) ==
    {base} \cup {b \in DOMAIN budgets : /\ budgets[b].base = base
                                        /\ OverlapsWindow(budgets[b], span.from, span.to)}

\* Actual less plan, over the rows of either.
Variance(planned, actual) == actual \cup {[e EXCEPT !.value = 0 - e.value] : e \in planned}

-----------------------------------------------------------------------------
(* A normal month.                                                           *)

FetchDays == 400
RecurMonths == 6
\* Not one-off income, and within the twelve complete months.
Counted(rows, now) ==
    {i \in DOMAIN rows : /\ rows[i].group \notin {Unset, OtherIncomeGroup}
                         /\ rows[i].date >= now - FetchDays
                         /\ MonthKey(rows[i].date) \in Range(CompleteMonths(now))}
Series(rows, fx, now, ids, label, sign) ==
    LET months == CompleteMonths(now)
        In(m) == {i \in ids : /\ MonthKey(rows[i].date) = months[m]
                              /\ Named(rows[i].category, rows[i].group) = label}
        Value(i) == sign * ToDisplay(fx, rows[i].amount, rows[i].currency, rows[i].date)
    IN  [m \in DOMAIN months |-> MapThenSumSet(Value, In(m))]
\* A category that moved in half the months, in either direction, recurs.
ForecastTotal(rows, fx, now, ids, sign) ==
    LET labels == {Named(rows[i].category, rows[i].group) : i \in ids}
        S(l) == Series(rows, fx, now, ids, l, sign)
        Recurs(l) == Active(S(l)) >= RecurMonths
    IN  MapThenSumSet(LAMBDA l : RecencyWeightedMean(S(l)), {l \in labels : Recurs(l)})
SpendSummary(rows, fx, now) ==
    LET counted == Counted(rows, now)
        income == {i \in counted : rows[i].group \in IncomeGroups}
        spend == {i \in counted \ income : rows[i].category # TaxPayments}
        Month(m) == {i \in counted \ income : /\ MonthKey(rows[i].date) = CompleteMonths(now)[m]
                                              /\ rows[i].group \in EssentialGroups}
        Out(i) == 0 - ToDisplay(fx, rows[i].amount, rows[i].currency, rows[i].date)
    IN  [forecastIncome |-> ForecastTotal(rows, fx, now, income, 1),
         forecastBurn |-> ForecastTotal(rows, fx, now, spend, -1),
         medianEssential2 |-> Median2([m \in 1..Months |-> MapThenSumSet(Out, Month(m))])]
\* The threshold of the rows to sort out first: the nearest rank at nine tenths.
ReviewThreshold(amounts) ==
    LET sorted == Ascending([i \in DOMAIN amounts |-> Magnitude(amounts[i])])
    IN  sorted[Most(1, Least(Len(sorted), Ceil(9 * Len(sorted), 10)))]

-----------------------------------------------------------------------------
(* The line, recorded and planned.                                           *)

MaxDays == 1830
\* Walked back from today's worth: each day opens at its close less what moved on it.
BalanceSeries(rows, fx, accessible, now) ==
    LET flows == {r \in Range(rows) : ~r.transfer}
        span == IF flows = {} THEN 1 ELSE now - Min({r.date : r \in flows})
        days == Least(MaxDays, Most(1, span) + 1)
        kept == {i \in DOMAIN rows : ~rows[i].transfer}
        Value(i) == ToDisplay(fx, rows[i].amount, rows[i].currency, rows[i].date)
        Flow(from, to) == MapThenSumSet(Value, {i \in kept : rows[i].date \in from..to})
        nets == [k \in 1..days |-> Flow(now - days + k, now - days + k)]
        worth == [k \in 0..days |-> accessible - Flow(now - days + k + 1, now)]
    IN  [first |-> now - days + 1, nets |-> nets, worth |-> worth]

\* (As it would be if the walk counted today again.)
NetsFromToday(base, budgets, fx, summary, now, days) ==
    LET ids == {base} \cup {b \in DOMAIN budgets : budgets[b].base = base}
        due == UNION {Occurring(b, budgets[b], now, now + days) : b \in ids}
    IN  [i \in 1..days |-> MapThenSumSet(LAMBDA d : budgets[d[1]].items[d[2]].amount,
                                          {d \in due : d[3] = now + i - 1})]
\* A base with its layers, walked from tomorrow; a day the base is silent on runs
\* at the normal month instead.
ProjectedNets(base, budgets, fx, summary, now, days) ==
    LET ids == {base} \cup {b \in DOMAIN budgets : budgets[b].base = base}
        due == UNION {Occurring(b, budgets[b], now + 1, now + 1 + days) : b \in ids}
        Value(d) == ToDisplay(fx, budgets[d[1]].items[d[2]].amount,
                              budgets[d[1]].items[d[2]].currency, d[3])
        normal == ((summary.forecastIncome - summary.forecastBurn) * 1200) \div 36525
        Silent(i) == ~ActiveOn(Lifespan(budgets[base]), now + i)
    IN  [i \in 1..days |-> MapThenSumSet(Value, {d \in due : d[3] = now + i})
                           + (IF Silent(i) THEN normal ELSE 0)]
ForecastBudgets(budgets) == {b \in DOMAIN budgets : budgets[b].base = Unset /\ budgets[b].forecast}
=============================================================================
