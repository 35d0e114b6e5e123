------------------------------ MODULE Figures ------------------------------
(***************************************************************************)
(* The pages of figures as a reader walks through them: the dashboard, the *)
(* breakdown, the money flow and a budget against what happened.  A page   *)
(* keeps nothing; where it is stands in its url, which every link on it    *)
(* rewrites (app/w/[workspace]/page.tsx, breakdown, budgets/breakdown).    *)
(* Meanwhile days pass, transactions arrive, one is moved to another tax   *)
(* year, and the household changes when its tax year starts.  What a page  *)
(* shows is computed from scratch each time, by Reports and Flow.          *)
(***************************************************************************)
EXTENDS Flow

CONSTANTS Days,         \* the days on which the pages are opened
          Taxes,        \* the tax years to choose from
          Shown,        \* the views to choose from
          OldLinks,     \* the periods old links name
          Batches,      \* what arrives, in order: each a function from ids to rows
          Movable,      \* the rows that may be moved to another tax year,
          MovedTo,      \* and the years they may be moved to
          Plans,        \* budgets by id; `name' is the place of its name among the names
          Accounts, Fx,
          Habits,       \* what regular payments there are
          MaxPaged,     \* how far back a reader pages
          Horizon       \* how many days the line is drawn forward

\* A row as the database holds it.
Recorded == [date : Int, taxYear : Int, amount : Int, group : STRING, category : STRING,
             merchant : STRING, currency : STRING, transfer : BOOLEAN]
\* An item of a plan.
Items == [amount : Int, currency : STRING, frequency : {"once", "day", "week", "month", "quarter", "year"},
          interval : Int, anchor : Int, group : STRING, category : STRING, merchant : STRING]
ASSUME DaysAssumption ==
    Days \subseteq Int /\ Days # {} /\ IsFiniteSet(Days) /\ \A d \in Days : d > Open
ASSUME ChoicesAssumption == Taxes \subseteq TaxYears /\ Shown \subseteq Views /\ MovedTo \subseteq Int
ASSUME FxAssumption ==
    IsFiniteSet(Fx.rates) /\ Fx.rates \subseteq [currency : STRING, day : Int, rate : Nat]
ASSUME PlansAssumption ==
    /\ IsFiniteSet(DOMAIN Plans)
    /\ \A b \in DOMAIN Plans : /\ Plans[b].starts \in Int /\ Plans[b].ends \in Int /\ Plans[b].name \in Int
                               /\ Plans[b].yearly \in BOOLEAN /\ Plans[b].items \in Seq(Items)
ASSUME BatchesAssumption ==
    /\ Len(Batches) >= 1 /\ DOMAIN Batches = 1..Len(Batches)
    /\ \A n \in 1..Len(Batches) :
          IsFiniteSet(DOMAIN Batches[n]) /\ Batches[n] \in [DOMAIN Batches[n] -> Recorded]

VARIABLES now, tax, rows, arrived,
          url,          \* page, view, basis, from and base, as the links write them
          shown         \* what is computed for it: offset, window, entries, base, plan
vars == <<now, tax, rows, arrived, url, shown>>

-----------------------------------------------------------------------------
Pages == {"home", "breakdown", "flow", "budgets"}
PeriodsShown == [home |-> 3, breakdown |-> 6, flow |-> 1, budgets |-> 6]
StepOf == [home |-> 3, breakdown |-> 3, flow |-> 1, budgets |-> 3]
DefaultView == "month"

Period == ResolvePeriod(url.view, url.basis)
Count == PeriodsShown[url.page]
Step == StepOf[url.page]
FirstKey(o) == PeriodBack(now, Period, o + Count - 1, tax)
WindowStart(o) == PeriodStart(FirstKey(o), Period, tax)

\* The order they are offered in: by the day they start, those always there first.
OfferedFirst(b, c) ==
    \/ Plans[b].starts < Plans[c].starts
    \/ Plans[b].starts = Plans[c].starts /\ Plans[b].name <= Plans[c].name
\* The base asked for, if it has days in this window; else the first that has.
BaseIn(u, available) ==
    IF u.page # "budgets" \/ available = {} THEN Unset
    ELSE IF u.base \in available THEN u.base
    ELSE CHOOSE b \in available : \A c \in available : OfferedFirst(b, c)

\* A request for the page at `u', on the day `n', with these rows and this tax year.
Page(n, t, r, u, screen) ==
    LET period == ResolvePeriod(u.view, u.basis)
        count == PeriodsShown[u.page]
    IN  \E o \in {IF u.from = Open THEN 0 ELSE OffsetForStartDate(n, period, count, u.from, t)} :
        \E span \in {Spanned(n, period, count, o, t)} :
        \E base \in {BaseIn(u, BudgetsInWindow(Plans, span))} :
        \E ids \in {IF base = Unset THEN {} ELSE BaseWithActiveLayers(base, Plans, span)} :
            screen = [offset |-> o, keys |-> PeriodWindow(n, period, count, o, t), span |-> span,
                      entries |-> Historic(r, Fx, n, period, count, o, t),
                      older |-> HasOlder(r, n, period, count, o, t),
                      base |-> base, ids |-> ids,
                      planned |-> PlannedFor(ids, Plans, Fx, n, period, count, o, t, FALSE),
                      due |-> PlannedFor(ids, Plans, Fx, n, period, count, o, t, TRUE)]
Load == Page(now', tax', rows', url', shown')

-----------------------------------------------------------------------------
\* By a link of the menu, or by an old link that named its period.
Asked(p, period) ==
    LET read == ReadPeriodParams(period, Unset, DefaultView)
    IN  [page |-> p, view |-> read.view, basis |-> read.basis, from |-> Open, base |-> Unset]
Visit(p, period) ==
    /\ url' = Asked(p, period)
    /\ url' # url
    /\ UNCHANGED <<now, tax, rows, arrived>>
    /\ Load

\* Another view opens on the most recent window and names no base.
PickView(v) ==
    /\ v # url.view
    /\ url' = [url EXCEPT !.view = v, !.from = Open, !.base = Unset]
    /\ UNCHANGED <<now, tax, rows, arrived>>
    /\ Load

\* The other basis, at the window nearest to this one.
Flip ==
    /\ HasTaxForm(url.view)
    /\ \E to \in {Flipped(now, url.view, url.basis, Count, shown.offset, tax)} :
          url' = [url EXCEPT !.basis = IF @ = "tax" THEN "calendar" ELSE "tax",
                             !.from = IF to.offset > 0 THEN to.from ELSE Open,
                             !.base = shown.base]
    /\ UNCHANGED <<now, tax, rows, arrived>>
    /\ Load

\* The dashboard's links lead to the breakdown.
Turned == IF url.page = "home" THEN "breakdown" ELSE url.page
Earlier ==
    /\ shown.older /\ shown.offset < MaxPaged
    /\ url' = [url EXCEPT !.page = Turned, !.from = WindowStart(shown.offset + Step),
                          !.base = shown.base]
    /\ UNCHANGED <<now, tax, rows, arrived>>
    /\ Load
MoreRecent ==
    /\ shown.offset > 0
    /\ LET o == shown.offset - Step
       IN  url' = [url EXCEPT !.page = Turned, !.base = shown.base,
                              !.from = IF o <= 0 THEN Open ELSE WindowStart(o)]
    /\ UNCHANGED <<now, tax, rows, arrived>>
    /\ Load
PickBase(b) ==
    /\ url.page = "budgets" /\ b # url.base /\ b \in BudgetsInWindow(Plans, shown.span)
    /\ url' = [url EXCEPT !.base = b]
    /\ UNCHANGED <<now, tax, rows, arrived>>
    /\ Load

NextDay ==
    /\ \E d \in Days : d > now /\ now' = Min({e \in Days : e > now})
    /\ UNCHANGED <<tax, rows, arrived, url>>
    /\ Load
Arrive ==
    /\ arrived < Len(Batches)
    /\ arrived' = arrived + 1
    /\ rows' = [i \in DOMAIN Batches[arrived + 1] \cup DOMAIN rows |->
                   IF i \in DOMAIN Batches[arrived + 1] THEN Batches[arrived + 1][i] ELSE rows[i]]
    /\ UNCHANGED <<now, tax, url>>
    /\ Load
MoveRow(i, y) ==
    /\ i \in Movable \cap DOMAIN rows /\ y \in TaxYearChoices(rows[i].date, tax)
    /\ rows' = [rows EXCEPT ![i].taxYear = y]
    /\ rows' # rows
    /\ UNCHANGED <<now, tax, arrived, url>>
    /\ Load
\* On the settings page, and so from no window that was paged to.
SetTaxYear(t) ==
    /\ t # tax /\ url.from = Open
    /\ tax' = t
    /\ UNCHANGED <<now, rows, arrived, url>>
    /\ Load

Init ==
    /\ now = Min(Days)
    /\ tax \in Taxes
    /\ rows = Batches[1] /\ arrived = 1
    /\ url = Asked("home", Unset)
    /\ Page(now, tax, rows, url, shown)
Next ==
    \/ \E p \in Pages : Visit(p, Unset)
    \/ \E period \in OldLinks : Visit("breakdown", period)
    \/ \E v \in Shown : PickView(v)
    \/ Flip \/ Earlier \/ MoreRecent
    \/ \E b \in DOMAIN Plans : PickBase(b)
    \/ NextDay \/ Arrive
    \/ \E i \in Movable, y \in MovedTo : MoveRow(i, y)
    \/ \E t \in Taxes : SetTaxYear(t)
Spec == Init /\ [][Next]_vars

-----------------------------------------------------------------------------
(* What a reader can rely on.                                                *)

Abut ==
    \A j \in 1..Count : LET k == shown.keys[j] IN
        /\ PeriodKey(PeriodStart(k, Period, tax), Period, tax) = k
        /\ j < Count => PeriodEnd(k, Period, tax) = PeriodStart(shown.keys[j + 1], Period, tax)
Moved(r) == Period \in TaxPeriods /\ r.taxYear \notin {0, TaxYearEnd(r.date, tax)}
\* The last tax period of the year a row was moved to.
Closes(k, year) == k[1] = year /\ PeriodKey(PeriodEnd(k, Period, tax), Period, tax)[1] > year
\* A row is in the period its date is in, or at the close of the year it was
\* moved to; and nowhere else.
InPlace ==
    \A i \in {j \in DOMAIN rows : ~rows[j].transfer} :
        {e.key : e \in {x \in shown.entries : x.id = <<i>>}} =
            {k \in Range(shown.keys) :
                IF Moved(rows[i]) THEN Closes(k, rows[i].taxYear)
                ELSE PeriodStart(k, Period, tax) <= rows[i].date
                     /\ rows[i].date < PeriodEnd(k, Period, tax)}
\* What came before a window can be paged to.
Reachable ==
    shown.older <=> \E i \in DOMAIN rows : rows[i].amount # 0 /\ rows[i].date < shown.span.from
\* A link opens the window that begins where it says, on whatever day it is followed;
\* what is nearer than a window's length, or further back than a page looks, opens
\* the most recent.
Anchored ==
    url.from # Open => \E k \in {PeriodKey(url.from, Period, tax)} :
        \/ shown.keys[1] = k
        \/ shown.offset = 0 /\ (Upto(FirstKey(0), k) \/ ~Upto(FirstKey(MaxOffset - 1), k))
\* The income table leaves no income out, and a row opens into all of it or nothing.
Told ==
    /\ \A k \in Range(shown.keys) : \E in \in {Of(shown.entries, k)} :
          MapThenSumSet(LAMBDA r : RowTotal(in, r), IncomeRows(in, IncomeGroups)) = SideTotal(in, "in")
    /\ \A e \in {x \in shown.entries : x.label # Unset} :
          MapThenSumSet(LAMBDA m : MerchantTotal(shown.entries, e.side, e.group, e.label, m),
                        MerchantRows(shown.entries, e.side, e.group, e.label))
              \in {0, IF e.side = "in" THEN IncomeTotal(shown.entries, e.label)
                      ELSE SpendTotal(shown.entries, e.group, e.label)}
\* Every transaction of a window is shown in it exactly once, at its place, the
\* periods of a window leave no day out, nothing before it is out of reach, a window
\* stays where its link says, and its tables come to the rows they stand for.
Whole == Abut /\ InPlace /\ Reachable /\ Anchored /\ Told

-----------------------------------------------------------------------------
(* The money flow.                                                           *)

Inflow(flow, n) == MapThenSumSet(LAMBDA k : k.value, {k \in flow.links : k.target = n})
Outflow(flow, n) == MapThenSumSet(LAMBDA k : k.value, {k \in flow.links : k.source = n})
Spread(layout) ==
    \A d \in Columns : LET col == layout.columns[d]  ys == layout.ys[d] IN
        /\ \A i \in DOMAIN col : /\ Top <= ys[i]
                                 /\ ys[i] + Height(col[i], layout.tallest) <= layout.floor
        /\ \A i \in 2..Len(col) : ys[i - 1] + Height(col[i - 1], layout.tallest) + NodeGap
                                     + SpaceAbove(col[i]) <= ys[i]
\* No money is lost between the rows and the diagram: all that is drawn coming in
\* goes somewhere, all spending drawn is paid from somewhere, Savings makes up the
\* difference; and no two boxes overlap.
Conserved ==
    url.page = "flow" /\ shown.entries # {} =>
        \E flow \in {FlowSankey(shown.entries)} :
        LET In(d) == {n \in flow.nodes : n.depth = d}
        IN  /\ \A n \in In(IncomeKind) : Outflow(flow, n) = n.value
            /\ \A n \in In(SpendGroup) : Inflow(flow, n) = n.value
            /\ \A n \in In(SpendKind) : Inflow(flow, n) = n.value
            /\ flow.nodes # {} => \A layout \in {SankeyLayout(flow)} : Spread(layout)

-----------------------------------------------------------------------------
(* The plan.                                                                 *)

\* What an item means, asked day by day.
DueOn(item, span, day) ==
    LET x == Ymd(day)  a == Ymd(item.anchor)
        apart == 12 * (x.year - a.year) + x.month - a.month
    IN  /\ ActiveOn(span, day)
        /\ CASE item.frequency = "once" -> day = item.anchor
             [] item.frequency \in DOMAIN DaysPerStep ->
                  (day - item.anchor) % (DaysPerStep[item.frequency] * Most(1, item.interval)) = 0
             [] OTHER -> /\ apart % (MonthsPerStep[item.frequency] * Most(1, item.interval)) = 0
                         /\ x.day = Least(a.day, DaysInMonth(x.year, x.month))
AskedDays == 370                \* how much of the window's end is asked day by day
Due(b, from, to) ==
    UNION {{<<b, n, d>> : d \in {e \in from..(to - 1) :
                                    DueOn(Plans[b].items[n], Lifespan(Plans[b]), e)}} :
              n \in DOMAIN Plans[b].items}
\* The other readers of a plan agree: what an item comes to in a period, when it is
\* next due, and the window a yearly plan is in or waits for.
Upcoming(b) ==
    LET span == Lifespan(Plans[b])
        window == CurrentOrNextWindow(span, now)
    IN  /\ \A n \in DOMAIN Plans[b].items, k \in Range(shown.keys) :
              Plans[b].items[n].currency \in {Unset, Fx.display} =>
              Magnitude(AmountInPeriod(Plans[b].items[n], span, k, Period, shown.span.from,
                                       shown.span.to, tax)) =
                  Sum({e \in shown.planned : e.key = k /\ e.id[1] = b /\ e.id[2] = n})
        /\ \A n \in DOMAIN Plans[b].items : \E next \in {NextOccurrence(Plans[b].items[n], span, now)} :
              \A d \in now..(IF next = Open THEN now + AskedDays ELSE next) :
                  DueOn(Plans[b].items[n], span, d) <=> d = next
        /\ span.yearly /\ Open \notin {span.starts, span.ends} =>
              (ActiveOn(span, now) <=> window.from <= now /\ now <= window.to)
\* A plan costs what its items come to on the days they fall due, each day in the
\* period that holds it, a month's end never drifting; a group costs what is under
\* it; and set against the ledger it leaves what happened less what was due before
\* today.
PlanAdds ==
    LET from == Most(shown.span.from, shown.span.to - AskedDays)
        left == Variance(shown.due, shown.entries)
        Passed(s) == Sum({e \in shown.planned : e.side = s /\ e.id[3] < now})
    IN  shown.base # Unset =>
        /\ {e.id : e \in {x \in shown.planned : x.id[3] >= from}} =
               UNION {Due(b, from, shown.span.to) : b \in shown.ids}
        /\ \A e \in shown.planned : PeriodStart(e.key, Period, tax) <= e.id[3]
                                     /\ e.id[3] < PeriodEnd(e.key, Period, tax)
        /\ \A g \in GroupsIn(shown.planned) :
              GroupTotal(shown.planned, g) =
                  MapThenSumSet(LAMBDA l : SpendTotal(shown.planned, g, l),
                                LabelsUnder(shown.planned, g))
        /\ \A b \in shown.ids : Upcoming(b)
        /\ \A s \in {"in", "out"} : SideTotal(left, s) = SideTotal(shown.entries, s) - Passed(s)

-----------------------------------------------------------------------------
(* The dashboard's line.                                                     *)

\* The bars of several plans stay between the least and the most of them.
Between ==
    \E all \in {SetToSeq({ProjectedNets(b, Plans, Fx, SpendSummary(rows, Fx, now), now, Horizon) :
                           b \in ForecastBudgets(Plans)})} :
    \E bars \in {AverageDailyNets(all)} :
        \A i \in 1..Horizon : /\ \E s \in Range(all) : s[i] <= bars[i]
                              /\ \E s \in Range(all) : bars[i] <= s[i]
\* Of the rows to sort out, some reach the threshold and at most a tenth pass it.
Reviewed ==
    LET unsorted == {i \in DOMAIN rows : ~rows[i].transfer /\ rows[i].category = Unset}
        most == ReviewThreshold([j \in 1..Cardinality(unsorted) |-> rows[Listed(unsorted)[j]].amount])
    IN  unsorted # {} =>
            /\ \E i \in unsorted : Magnitude(rows[i].amount) >= most
            /\ 10 * Cardinality({i \in unsorted : Magnitude(rows[i].amount) > most}) <= Cardinality(unsorted)
\* What falls due on a day, by a base and its layers.
Expected(b, day) ==
    MapThenSumSet(LAMBDA d : Plans[d[1]].items[d[2]].amount,
                  UNION {Due(c, day, day + 1) : c \in {x \in DOMAIN Plans : x = b \/ Plans[x].base = b}})
\* The line drawn back meets the worth it was drawn from, each recorded row moving
\* it once; drawn forward it starts the day after, so that no day is on both sides;
\* its vertices lie on the walk, it ends on the day the last of the credit is drawn,
\* or else on the last day there is, and the money is gone on the first day the walk
\* ends at nothing.
LineMeets ==
    url = Asked("home", Unset) =>
        \E held \in {BalanceSummary(Accounts, Fx, now)} :
        \E back \in {BalanceSeries(rows, Fx, held.accessible, now)} :
        LET recorded == {i \in DOMAIN rows : ~rows[i].transfer /\ rows[i].date <= now}
            Kept(i) == ToDisplay(Fx, rows[i].amount, rows[i].currency, rows[i].date)
        IN  /\ back.worth[0] + MapThenSumSet(Kept, recorded) = held.accessible
            /\ back.first + Len(back.nets) - 1 = now
            /\ Between /\ Reviewed
            /\ \A b \in ForecastBudgets(Plans) :
                  \E nets \in {ProjectedNets(b, Plans, Fx, SpendSummary(rows, Fx, now), now, Horizon)} :
                  \E walk \in {WalkProjection(nets, held.accessible, held.creditFloor)} :
                  LET Left(i) == held.accessible + MapThenSumSet(LAMBDA j : nets[j], 1..i)
                      gone == {i \in 1..Horizon : Left(i) <= 0}
                      drawn == {i \in 1..Horizon : Left(i) <= held.creditFloor}
                  IN  /\ \A i \in 1..Horizon : ActiveOn(Lifespan(Plans[b]), now + i) => nets[i] = Expected(b, now + i)
                      /\ \A p \in Range(walk.points) :
                            p.worth = Most(Left(p.day), Least(held.creditFloor, held.accessible))
                      /\ held.accessible > 0 /\ gone # {} => walk.depletion = Min(gone)
                      /\ held.accessible > 0 /\ gone = {} => walk.depletion = 0
                      /\ held.accessible > held.creditFloor =>
                            walk.points[Len(walk.points)].day = Min({Horizon} \cup drawn)
                      /\ held.creditFloor < Least(0, held.accessible) =>
                            walk.exhausted = IF drawn = {} THEN 0 ELSE Min(drawn)

-----------------------------------------------------------------------------
(* What is read out of history.                                              *)

\* The payments of a habit over the detector's two years; the last was perhaps made
\* late, or in two parts.
History(h) ==
    LET due == OccurrencesIn(h, Always, now - InferDays, now + 1)
        Paid(d) == IF d = Max(due) /\ d + h.late <= now THEN d + h.late ELSE d
        Row(d, part) == [date |-> Paid(d), amount |-> h.amount, part |-> part]
    IN  SortSeq(Listed({Row(d, 1) : d \in due} \cup (IF h.parted THEN {Row(Max(due), 2)} ELSE {})),
                LAMBDA a, b : a.date < b.date)
\* Payments with nothing regular about them.
Odd == <<[date |-> now - 200, amount |-> -130], [date |-> now - 160, amount |-> -20]>>
\* Whatever has been paid regularly is proposed as what it is: the same amount at
\* the same pace, next due on the days it will next fall due; and it leaves nothing
\* behind in what is averaged as unexplained.  It depends on the day alone, and is
\* asked once on each.
Recovered ==
    arrived = 1 /\ url = Asked("home", Unset) => \A h \in Habits :
        \E found \in {ProposedItem(History(h), now)} :
        LET year == now + 366
        IN  /\ found.amount = h.amount
            /\ found.frequency = h.frequency /\ found.interval = h.interval
            /\ OccurrencesIn(found, Always, now + 1, year) = OccurrencesIn(h, Always, now + 1, year)
            /\ Remainder(<<History(h), Odd>>, now) = Remainder(<<Odd>>, now)

TypeOK ==
    /\ now \in Days /\ tax \in Taxes /\ arrived \in 1..Len(Batches)
    /\ url.page \in Pages /\ url.view \in Views /\ url.basis \in Bases
    /\ url.base \in DOMAIN Plans \cup {Unset}
=============================================================================
