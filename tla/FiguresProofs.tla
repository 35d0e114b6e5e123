--------------------------- MODULE FiguresProofs ---------------------------
(***************************************************************************)
(* What a page of figures shows, for every day, tax year, view and set of  *)
(* rows, and however it is paged: that its periods lie end to end, that    *)
(* each row of its window is in it once, in its place, that its links lead *)
(* where they say, and that a plan is what its items come to on the days   *)
(* they fall due.  It rests on the calendar: that the nine kinds of period *)
(* tile time, which is shown from the arithmetic of dates up.              *)
(***************************************************************************)
EXTENDS Figures, FiniteSetTheorems, WellFoundedInduction, TLAPS

-----------------------------------------------------------------------------
(* Years and months.                                                         *)

\* A year, counted from 1 March, has 365 days or 366.
LEMMA YearsLong ==
    ASSUME NEW a \in Int, NEW b \in Int, a <= b
    PROVE  /\ FloorDays(a) \in Int /\ FloorDays(b) \in Int
           /\ FloorDays(b) - FloorDays(a) >= 365 * (b - a)
           /\ FloorDays(b) - FloorDays(a) <= 366 * (b - a)
BY SMTT(60) DEF FloorDays

LEMMA Centuries ==
    ASSUME NEW c \in Int, NEW y \in Int
    PROVE  FloorDays(400 * c + y) = 146097 * c + FloorDays(y)
BY SMTT(60) DEF FloorDays

InYear(z, y) == FloorDays(y) <= z /\ z < FloorDays(y + 1)

\* The estimate YearOf makes of the year a day of four centuries is in is right.
LEMMA YearFound ==
    ASSUME NEW doe \in Int, 0 <= doe, doe <= 146096
    PROVE  /\ YearOf(doe) \in Int /\ InYear(doe, YearOf(doe))
           /\ \A first : OfCenturies(first, doe, YearOf(doe))
                            = OfYear(first + YearOf(doe), doe - FloorDays(YearOf(doe)))
<1> DEFINE y == YearOf(doe)
<1>1. y \in Int /\ y = (doe - (doe \div 1460) + (doe \div 36524) - (doe \div 146096)) \div 365
  BY DEF YearOf
<1> HIDE DEF y
<1>2. 0 <= y /\ y <= 399 BY <1>1, SMTT(60)
<1>3. 365 * y + (y \div 4) - (y \div 100) <= doe BY <1>1, SMTT(60)
<1>4. doe < 365 * (y + 1) + ((y + 1) \div 4) - ((y + 1) \div 100) + ((y + 1) \div 400)
  BY <1>1, SMTT(60)
<1>5. FloorDays(y) = 365 * y + (y \div 4) - (y \div 100)
  <2>1. y \div 400 = 0 BY <1>1, <1>2
  <2> QED BY <1>1, <2>1 DEF FloorDays
<1>6. InYear(doe, y) BY <1>1, <1>3, <1>4, <1>5 DEF FloorDays, InYear
<1>7. \A first : OfCenturies(first, doe, y) = OfYear(first + y, doe - FloorDays(y))
  BY <1>5 DEF OfCenturies
<1> QED BY <1>1, <1>6, <1>7 DEF y

\* A day is in the year FromMarch finds, as many days after its 1 March as it says.
YearIn(z) == 400 * (z \div 146097) + YearOf(z % 146097)
LEMMA YearAt ==
    ASSUME NEW z \in Int
    PROVE  /\ YearIn(z) \in Int /\ InYear(z, YearIn(z))
           /\ FromMarch(z) = OfYear(YearIn(z), z - FloorDays(YearIn(z)))
<1> DEFINE c == z \div 146097
           doe == z % 146097
           y == YearOf(doe)
<1>1. c \in Int /\ doe \in Int /\ 0 <= doe /\ doe <= 146096 /\ z = 146097 * c + doe
  OBVIOUS
<1>0. YearIn(z) = 400 * c + y BY DEF YearIn
<1>f. FromMarch(z) = OfCenturies(400 * c, doe, y) BY DEF FromMarch
<1> HIDE DEF c, doe
<1>2. y \in Int /\ InYear(doe, y)
  BY <1>1, YearFound
<1>4. OfCenturies(400 * c, doe, y) = OfYear(400 * c + y, doe - FloorDays(y))
  BY <1>1, YearFound
<1> HIDE DEF y
<1>5. FloorDays(400 * c + y) = 146097 * c + FloorDays(y) BY <1>1, <1>2, Centuries
<1>6. y + 1 \in Int BY <1>2
<1>7. FloorDays(400 * c + (y + 1)) = 146097 * c + FloorDays(y + 1) BY <1>1, <1>6, Centuries
<1>8. FloorDays(y) \in Int /\ FloorDays(y + 1) \in Int BY <1>2, <1>6, YearsLong
<1>9. 400 * c + y + 1 = 400 * c + (y + 1) BY <1>1, <1>2
<1>10. doe - FloorDays(y) = z - FloorDays(400 * c + y) BY <1>1, <1>5, <1>8
<1>11. InYear(z, 400 * c + y) BY <1>1, <1>2, <1>5, <1>7, <1>8, <1>9 DEF InYear
<1>12. 400 * c + y \in Int BY <1>1, <1>2
<1> QED BY <1>0, <1>f, <1>4, <1>10, <1>11, <1>12

-----------------------------------------------------------------------------
(* Months, counted from March of year 0.                                     *)

MonthStart(n) == DayOfMonth(n, 1)
YearPart(n) == n \div 12
MonthPart(n) == n % 12
Before(i) == (153 * i + 2) \div 5       \* the days of a year before its month i

LEMMA MonthSplit ==
    ASSUME NEW n \in Int
    PROVE  /\ YearPart(n) \in Int /\ MonthPart(n) \in Int
           /\ n = 12 * YearPart(n) + MonthPart(n) /\ 0 <= MonthPart(n) /\ MonthPart(n) <= 11
           /\ MonthStart(n) = FloorDays(YearPart(n)) + Before(MonthPart(n)) - Epoch
           /\ \A d \in Int : DayOfMonth(n, d) = MonthStart(n) + d - 1
<1>1. YearPart(n) \in Int /\ MonthPart(n) \in Int
      /\ n = 12 * YearPart(n) + MonthPart(n) /\ 0 <= MonthPart(n) /\ MonthPart(n) <= 11
  BY DEF YearPart, MonthPart
<1>2. FloorDays(YearPart(n)) \in Int /\ Before(MonthPart(n)) \in Int
  <2>1. FloorDays(YearPart(n)) \in Int BY <1>1, YearsLong
  <2>2. Before(MonthPart(n)) \in Int BY <1>1 DEF Before
  <2> QED BY <2>1, <2>2
<1>3. \A d : DayOfMonth(n, d) = FloorDays(YearPart(n)) + Before(MonthPart(n)) + d - 1 - Epoch
  BY DEF DayOfMonth, YearPart, MonthPart, Before
<1> QED BY <1>1, <1>2, <1>3 DEF MonthStart, Epoch

LEMMA Offsets ==
    ASSUME NEW i \in Int, NEW j \in Int, 0 <= i, i <= 11, 0 <= j, j <= 11
    PROVE  /\ Before(i) \in Int /\ Before(j) \in Int
           /\ i <= j => /\ Before(j) - Before(i) >= 28 * (j - i)
                        /\ Before(j) - Before(i) <= 31 * (j - i)
           /\ Before(j) - Before(i) - 31 * (j - i) <= 4
           /\ Before(j) - Before(i) - 28 * (j - i) >= 0 - 29
BY SMTT(60) DEF Before

\* Between the firsts of two months lie 28 days a month at least, 31 at most.
LEMMA MonthsLong ==
    ASSUME NEW n \in Int, NEW m \in Int, n <= m
    PROVE  /\ MonthStart(n) \in Int /\ MonthStart(m) \in Int
           /\ MonthStart(m) - MonthStart(n) >= 28 * (m - n)
           /\ MonthStart(m) - MonthStart(n) <= 31 * (m - n)
<1> DEFINE y == YearPart(n)  i == MonthPart(n)  w == YearPart(m)  j == MonthPart(m)
<1>1. /\ y \in Int /\ i \in Int /\ n = 12 * y + i /\ 0 <= i /\ i <= 11
      /\ MonthStart(n) = FloorDays(y) + Before(i) - Epoch
  BY MonthSplit
<1>2. /\ w \in Int /\ j \in Int /\ m = 12 * w + j /\ 0 <= j /\ j <= 11
      /\ MonthStart(m) = FloorDays(w) + Before(j) - Epoch
  BY MonthSplit
<1> HIDE DEF y, i, w, j
<1>3. y <= w BY <1>1, <1>2
<1>4. /\ FloorDays(y) \in Int /\ FloorDays(w) \in Int
      /\ FloorDays(w) - FloorDays(y) >= 365 * (w - y)
      /\ FloorDays(w) - FloorDays(y) <= 366 * (w - y)
  BY <1>1, <1>2, <1>3, YearsLong
<1>5. /\ Before(i) \in Int /\ Before(j) \in Int
      /\ i <= j => /\ Before(j) - Before(i) >= 28 * (j - i)
                   /\ Before(j) - Before(i) <= 31 * (j - i)
      /\ Before(j) - Before(i) - 31 * (j - i) <= 4
      /\ Before(j) - Before(i) - 28 * (j - i) >= 0 - 29
  BY <1>1, <1>2, Offsets
<1>6. MonthStart(m) - MonthStart(n) = FloorDays(w) - FloorDays(y) + Before(j) - Before(i)
  BY <1>1, <1>2, <1>4, <1>5 DEF Epoch
<1>7. y = w => i <= j BY <1>1, <1>2
<1> QED BY <1>1, <1>2, <1>3, <1>4, <1>5, <1>6, <1>7 DEF Epoch

LEMMA MonthStartOf ==
    ASSUME NEW y \in Int, NEW i \in Int, 0 <= i, i <= 11
    PROVE  12 * y + i \in Int /\ MonthStart(12 * y + i) = FloorDays(y) + Before(i) - Epoch
<1> DEFINE n == 12 * y + i
<1>1. n \in Int OBVIOUS
<1> HIDE DEF n
<1>2. /\ YearPart(n) \in Int /\ MonthPart(n) \in Int
      /\ n = 12 * YearPart(n) + MonthPart(n) /\ 0 <= MonthPart(n) /\ MonthPart(n) <= 11
      /\ MonthStart(n) = FloorDays(YearPart(n)) + Before(MonthPart(n)) - Epoch
  BY <1>1, MonthSplit
<1>3. YearPart(n) = y /\ MonthPart(n) = i BY <1>2 DEF n
<1> QED BY <1>1, <1>2, <1>3 DEF n

\* The date of a day counted from 1 March: its month, and the day in it.
LEMMA OfMonth ==
    ASSUME NEW doy \in Int, 0 <= doy, doy <= 365, NEW mp \in Int, mp = (5 * doy + 2) \div 153
    PROVE  /\ 0 <= mp /\ mp <= 11 /\ Before(mp) <= doy
           /\ mp < 11 => doy < Before(mp + 1)
           /\ doy >= 306 <=> mp >= 10
           /\ Before(mp) \in Int /\ Before(mp + 1) \in Int /\ Before(0) = 0
BY SMTT(60) DEF Before

DateMonth(x) == 12 * x.year + x.month - 3

\* A day's date is right: the month is one of twelve, the day lies in it, and is
\* counted from its first.
LEMMA DateOf ==
    ASSUME NEW day \in Int
    PROVE  /\ Ymd(day).year \in Int /\ Ymd(day).month \in 1..12 /\ Ymd(day).day \in 1..31
           /\ DateMonth(Ymd(day)) \in Int
           /\ Ymd(day).day = day - MonthStart(DateMonth(Ymd(day))) + 1
           /\ MonthStart(DateMonth(Ymd(day))) <= day
           /\ day < MonthStart(DateMonth(Ymd(day)) + 1)
<1> DEFINE z == day + Epoch
           y == YearIn(z)
           doy == z - FloorDays(y)
           mp == (5 * doy + 2) \div 153
           x == Ymd(day)
<1>1. z \in Int BY DEF Epoch
<1>2. y \in Int /\ InYear(z, y) BY <1>1, YearAt
<1>3. x = OfYear(y, doy)
  BY <1>1, YearAt DEF Ymd
<1>4. /\ FloorDays(y) \in Int /\ FloorDays(y + 1) \in Int /\ y + 1 \in Int
      /\ FloorDays(y + 1) - FloorDays(y) <= 366
  <2>1. y + 1 \in Int /\ y <= y + 1 BY <1>2
  <2> QED BY <1>2, <2>1, YearsLong
<1>5. doy \in Int /\ 0 <= doy /\ doy <= 365 BY <1>1, <1>2, <1>4 DEF InYear
<1>6. mp \in Int BY <1>5
<1>7. /\ 0 <= mp /\ mp <= 11 /\ Before(mp) <= doy
      /\ mp < 11 => doy < Before(mp + 1)
      /\ doy >= 306 <=> mp >= 10
      /\ Before(mp) \in Int /\ Before(mp + 1) \in Int /\ Before(0) = 0
  BY <1>5, <1>6, OfMonth
<1>8. /\ x.year = IF doy >= 306 THEN y + 1 ELSE y
      /\ x.month = IF doy >= 306 THEN mp - 9 ELSE mp + 3
      /\ x.day = doy - Before(mp) + 1
  BY <1>3 DEF OfYear, Before
<1> HIDE DEF mp, x, y
<1>9. x.year \in Int /\ x.month \in 1..12 /\ DateMonth(x) = 12 * y + mp
  BY <1>2, <1>6, <1>7, <1>8 DEF DateMonth
<1>10. 12 * y + mp \in Int /\ MonthStart(12 * y + mp) = FloorDays(y) + Before(mp) - Epoch
  BY <1>2, <1>6, <1>7, MonthStartOf
<1>11. day < MonthStart(12 * y + mp + 1)
  <2>1. CASE mp < 11
    <3>1. MonthStart(12 * y + (mp + 1)) = FloorDays(y) + Before(mp + 1) - Epoch
      BY <1>2, <1>6, <1>7, <2>1, MonthStartOf
    <3>2. 12 * y + (mp + 1) = 12 * y + mp + 1 BY <1>2, <1>6
    <3> QED BY <1>4, <1>5, <1>7, <2>1, <3>1, <3>2 DEF Epoch
  <2>2. CASE mp = 11
    <3>1. MonthStart(12 * (y + 1) + 0) = FloorDays(y + 1) + Before(0) - Epoch
      BY <1>4, MonthStartOf
    <3>2. 12 * (y + 1) + 0 = 12 * y + mp + 1 BY <1>2, <2>2
    <3> QED BY <1>1, <1>2, <1>4, <1>7, <3>1, <3>2 DEF Epoch, InYear
  <2> QED BY <1>6, <1>7, <2>1, <2>2
<1>12. x.day = day - MonthStart(12 * y + mp) + 1
  BY <1>4, <1>5, <1>7, <1>8, <1>10 DEF Epoch
<1>13. MonthStart(12 * y + mp) <= day
  BY <1>4, <1>5, <1>7, <1>10 DEF Epoch
<1>14. x.day \in 1..31
  <2> PICK n \in Int : n = 12 * y + mp BY <1>10
  <2> PICK m \in Int : m = n + 1 OBVIOUS
  <2>1. n <= m OBVIOUS
  <2>2. /\ MonthStart(n) \in Int /\ MonthStart(m) \in Int
        /\ MonthStart(m) - MonthStart(n) <= 31 * (m - n)
    BY <2>1, MonthsLong
  <2>3. MonthStart(n) <= day /\ day < MonthStart(m) /\ x.day = day - MonthStart(n) + 1
    BY <1>11, <1>12, <1>13
  <2>4. MonthStart(m) - MonthStart(n) <= 31 BY <2>2
  <2> PICK c \in Int : c = MonthStart(n) BY <2>2
  <2> PICK e \in Int : e = MonthStart(m) BY <2>2
  <2>5. x.day = day - c + 1 BY <2>3
  <2>6. c <= day /\ day < e /\ e - c <= 31 BY <2>3, <2>4
  <2>7. day - c + 1 \in 1..31 BY <2>6
  <2> QED BY <2>5, <2>7
<1> QED BY <1>9, <1>10, <1>11, <1>12, <1>13, <1>14 DEF x

\* A day is in one month only.
LEMMA MonthUnique ==
    ASSUME NEW day \in Int, NEW n \in Int, NEW m \in Int,
           MonthStart(n) <= day, day < MonthStart(n + 1),
           MonthStart(m) <= day, day < MonthStart(m + 1)
    PROVE  n = m
<1>1. ASSUME NEW a \in Int, NEW b \in Int, MonthStart(b) <= day, day < MonthStart(a + 1), a < b
      PROVE  FALSE
  <2>1. a + 1 \in Int /\ a + 1 <= b BY <1>1
  <2>2. /\ MonthStart(a + 1) \in Int /\ MonthStart(b) \in Int
        /\ MonthStart(b) - MonthStart(a + 1) >= 28 * (b - (a + 1))
    BY <1>1, <2>1, MonthsLong
  <2> QED BY <1>1, <2>1, <2>2
<1> QED BY <1>1

\* Twelve months on, the same month begins 365 or 366 days later.
LEMMA MonthYears ==
    ASSUME NEW n \in Int, NEW k \in Int, 0 <= k
    PROVE  MonthStart(n + 12 * k) - MonthStart(n) <= 366 * k
<1> DEFINE y == YearPart(n)  i == MonthPart(n)
<1>1. /\ y \in Int /\ i \in Int /\ n = 12 * y + i /\ 0 <= i /\ i <= 11
      /\ MonthStart(n) = FloorDays(y) + Before(i) - Epoch
  BY MonthSplit
<1> HIDE DEF y, i
<1> PICK w \in Int : w = y + k BY <1>1
<1>2. y <= w BY <1>1
<1>3. MonthStart(12 * w + i) = FloorDays(w) + Before(i) - Epoch
  BY <1>1, MonthStartOf
<1>4. 12 * w + i = n + 12 * k BY <1>1
<1>5. /\ FloorDays(y) \in Int /\ FloorDays(w) \in Int
      /\ FloorDays(w) - FloorDays(y) <= 366 * (w - y)
  BY <1>1, <1>2, YearsLong, ZenonT(60)
<1>6. Before(i) \in Int BY <1>1, Offsets
<1> QED BY <1>1, <1>3, <1>4, <1>5, <1>6 DEF Epoch

-----------------------------------------------------------------------------
(***************************************************************************)
(* Each kind of period numbers the days: the periods of a kind are an      *)
(* unbroken row, Number(day) the place in it of the one a day is in,       *)
(* FirstDay(i) the first day of the i-th and KeyNo(i) its key.             *)
(***************************************************************************)

Periods == Views \cup TaxPeriods

Number(day, period, yr) ==
    LET x == Ymd(day) IN
    CASE period = "day" -> day
      [] period = "week" -> day \div 7
      [] period = "fortnight" -> day \div 14
      [] period = "month" -> 12 * x.year + x.month - 1
      [] period = "quarter" -> 4 * x.year + ((x.month - 1) \div 3)
      [] period = "year" -> x.year
      [] period = "taxmonth" -> 12 * TaxYearAt(x, yr) + TaxMonthAt(x, yr)
      [] period = "taxquarter" -> 4 * TaxYearAt(x, yr) + (TaxMonthAt(x, yr) \div 3)
      [] period = "taxyear" -> TaxYearAt(x, yr)

\* The month before which the row of tax months begins.
Opens(yr) == yr.month - 3 - 12 * YearsSpanned(yr)
FirstDay(i, period, yr) ==
    CASE period = "day" -> i
      [] period = "week" -> 7 * i
      [] period = "fortnight" -> 14 * i
      [] period = "month" -> MonthStart(i - 2)
      [] period = "quarter" -> MonthStart(3 * i - 2)
      [] period = "year" -> MonthStart(12 * i - 2)
      [] period = "taxmonth" -> MonthStart(i + Opens(yr)) + yr.day - 1
      [] period = "taxquarter" -> MonthStart(3 * i + Opens(yr)) + yr.day - 1
      [] period = "taxyear" -> MonthStart(12 * i + Opens(yr)) + yr.day - 1

KeyNo(i, period, yr) ==
    CASE period = "day" -> PeriodKey(i, "day", yr)
      [] period = "week" -> IsoWeek(7 * i)
      [] period = "fortnight" -> FortnightKey(i)
      [] period \in {"month", "taxmonth"} -> Numbered(i, 12)
      [] period \in {"quarter", "taxquarter"} -> Numbered(i, 4)
      [] period \in {"year", "taxyear"} -> <<i, 0>>

\* A row of runs of months: `per' of them each, the first of a run on day `t'.
LEMMA RunHolds ==
    ASSUME NEW per \in {1, 3, 12}, NEW open \in Int, NEW t \in 1..28, NEW day \in Int,
           NEW m \in Int, MonthStart(m) <= day - (t - 1), day - (t - 1) < MonthStart(m + 1),
           NEW i \in Int, i = (m - open) \div per
    PROVE  /\ MonthStart(per * i + open) + t - 1 <= day
           /\ day < MonthStart(per * (i + 1) + open) + t - 1
<1> DEFINE a == per * i + open  b == per * (i + 1) + open
<1>1. a \in Int /\ b \in Int /\ a <= m /\ m + 1 <= b /\ m + 1 \in Int
  <2>1. CASE per = 1 BY <2>1
  <2>2. CASE per = 3 BY <2>2
  <2>3. CASE per = 12 BY <2>3
  <2> QED BY <2>1, <2>2, <2>3
<1> HIDE DEF a, b
<1>2. /\ MonthStart(a) \in Int /\ MonthStart(m) \in Int
      /\ MonthStart(m) - MonthStart(a) >= 28 * (m - a)
  BY <1>1, MonthsLong
<1>3. /\ MonthStart(m + 1) \in Int /\ MonthStart(b) \in Int
      /\ MonthStart(b) - MonthStart(m + 1) >= 28 * (b - (m + 1))
  BY <1>1, MonthsLong
<1>4. MonthStart(a) <= MonthStart(m) /\ MonthStart(m + 1) <= MonthStart(b)
  BY <1>1, <1>2, <1>3
<1>5. MonthStart(a) + t - 1 <= day /\ day < MonthStart(b) + t - 1
  BY <1>2, <1>3, <1>4
<1> QED BY <1>5 DEF a, b

ShortestRun(per) == 28 * per
LongestRun(per) == IF per = 12 THEN 366 ELSE 31 * per

LEMMA RunsLong ==
    ASSUME NEW per \in {1, 3, 12}, NEW open \in Int, NEW i \in Int, NEW j \in Int, i <= j
    PROVE  /\ MonthStart(per * i + open) \in Int /\ MonthStart(per * j + open) \in Int
           /\ MonthStart(per * j + open) - MonthStart(per * i + open) >= ShortestRun(per) * (j - i)
           /\ MonthStart(per * j + open) - MonthStart(per * i + open)
                 <= LongestRun(per) * (j - i)
<1> DEFINE a == per * i + open  b == per * j + open
<1>1. a \in Int /\ b \in Int /\ a <= b /\ b - a = per * (j - i)
  <2>1. CASE per = 1 BY <2>1
  <2>2. CASE per = 3 BY <2>2
  <2>3. CASE per = 12 BY <2>3
  <2> QED BY <2>1, <2>2, <2>3
<1> HIDE DEF a, b
<1>2. /\ MonthStart(a) \in Int /\ MonthStart(b) \in Int
      /\ MonthStart(b) - MonthStart(a) >= 28 * (b - a)
      /\ MonthStart(b) - MonthStart(a) <= 31 * (b - a)
  BY <1>1, MonthsLong
<1>3. ASSUME per = 12 PROVE MonthStart(b) - MonthStart(a) <= 366 * (j - i)
  <2>1. j - i \in Int /\ 0 <= j - i /\ b = a + 12 * (j - i) BY <1>1, <1>3
  <2> QED BY <1>1, <2>1, MonthYears
<1>4. /\ MonthStart(b) - MonthStart(a) >= 28 * per * (j - i)
      /\ per # 12 => MonthStart(b) - MonthStart(a) <= 31 * per * (j - i)
  <2>1. CASE per = 1 BY <1>1, <1>2, <2>1
  <2>2. CASE per = 3 BY <1>1, <1>2, <2>2
  <2>3. CASE per = 12 BY <1>1, <1>2, <2>3
  <2> QED BY <2>1, <2>2, <2>3
<1> DEFINE from == MonthStart(a)  to == MonthStart(b)
<1>5. from \in Int /\ to \in Int /\ to - from >= ShortestRun(per) * (j - i)
      /\ to - from <= LongestRun(per) * (j - i)
  <2>0. from \in Int /\ to \in Int BY <1>2
  <2>1. CASE per = 1 BY <2>0, <1>3, <1>4, <2>1 DEF ShortestRun, LongestRun
  <2>2. CASE per = 3 BY <2>0, <1>3, <1>4, <2>2 DEF ShortestRun, LongestRun
  <2>3. CASE per = 12 BY <2>0, <1>3, <1>4, <2>3 DEF ShortestRun, LongestRun
  <2> QED BY <2>0, <2>1, <2>2, <2>3
<1> QED BY <1>5 DEF a, b

-----------------------------------------------------------------------------
(* Kinds of period: weeks, fortnights and days.                              *)

\* Every day is in one period, at or after its first day and before the next one's.
Numbers(period, yr) ==
    \A d \in Int : /\ Number(d, period, yr) \in Int
                   /\ PeriodKey(d, period, yr) = KeyNo(Number(d, period, yr), period, yr)
                   /\ FirstDay(Number(d, period, yr), period, yr) <= d
                   /\ d < FirstDay(Number(d, period, yr) + 1, period, yr)
\* A key tells where its period starts.
Starts(period, yr) ==
    \A i \in Int : /\ FirstDay(i, period, yr) \in Int
                   /\ PeriodStart(KeyNo(i, period, yr), period, yr) = FirstDay(i, period, yr)
\* No period is empty and none is longer than Longest; Skip leads from the first day
\* of one into the next.
Lasts(period, yr) ==
    \A i \in Int, j \in Int : i <= j =>
        /\ FirstDay(j, period, yr) - FirstDay(i, period, yr) >= j - i
        /\ FirstDay(j, period, yr) - FirstDay(i, period, yr) <= Longest[period] * (j - i)
Skips(period, yr) ==
    \A i \in Int : /\ FirstDay(i + 1, period, yr) <= FirstDay(i, period, yr) + Skip[period]
                   /\ FirstDay(i, period, yr) + Skip[period] < FirstDay(i + 2, period, yr)
\* Periods are counted back in the order they lie in.
CountsBack(period, yr) ==
    \A d \in Int, o \in Int :
        PeriodBack(d, period, o, yr) = KeyNo(Number(d, period, yr) - o, period, yr)

Sliced(period, yr) ==
    /\ Numbers(period, yr) /\ Starts(period, yr)
    /\ Lasts(period, yr) /\ Skips(period, yr) /\ CountsBack(period, yr)

LEMMA SlicedWeek == ASSUME NEW yr PROVE Sliced("week", yr)
<1>1. \A d : Number(d, "week", yr) = d \div 7 BY DEF Number
<1>2. \A i : FirstDay(i, "week", yr) = 7 * i BY DEF FirstDay
<1>3. \A i : KeyNo(i, "week", yr) = IsoWeek(7 * i) BY DEF KeyNo
<1>4. \A d : PeriodKey(d, "week", yr) = IsoWeek(d) BY DEF PeriodKey, KeyAt
<1>5. \A k : PeriodStart(k, "week", yr) = WeekMonday(k) BY DEF PeriodStart
<1>6. \A d, o : PeriodBack(d, "week", o, yr) = IsoWeek(d - 7 * o) BY DEF PeriodBack, BackFrom
<1>7. Longest["week"] = 7 /\ Skip["week"] = 7 BY DEF Longest, Skip
<1>8. ASSUME NEW d \in Int PROVE IsoWeek(d) = IsoWeek(7 * (d \div 7))
  <2>1. d - Weekday(d) = 7 * (d \div 7) BY DEF Weekday
  <2>2. 7 * (d \div 7) - Weekday(7 * (d \div 7)) = 7 * (d \div 7) BY DEF Weekday
  <2> QED BY <2>1, <2>2 DEF IsoWeek, IsoYear, WeekIn
<1>9. ASSUME NEW i \in Int PROVE WeekMonday(IsoWeek(7 * i)) = 7 * i
  <2> PICK y : y = IsoYear(7 * i) OBVIOUS
  <2>1. y \in Int
    <3>1. 7 * i - Weekday(7 * i) + 3 \in Int BY DEF Weekday
    <3> QED BY <3>1, DateOf DEF IsoYear
  <2>2. PICK w \in Int : WeekOne(y) = 7 * w
    <3>1. Day(y, 1, 4) \in Int
      <4>1. 12 * y + 1 - 3 \in Int BY <2>1
      <4>2. DayOfMonth(12 * y + 1 - 3, 4) = MonthStart(12 * y + 1 - 3) + 4 - 1 BY <4>1, MonthSplit
      <4>3. MonthStart(12 * y + 1 - 3) \in Int BY <4>1, MonthsLong
      <4> QED BY <4>2, <4>3 DEF Day
    <3> PICK a \in Int : a = Day(y, 1, 4) BY <3>1
    <3>2. a - (a % 7) = 7 * (a \div 7) /\ a \div 7 \in Int OBVIOUS
    <3> QED BY <3>2 DEF WeekOne, Weekday
  <2>3. 7 * i - Weekday(7 * i) = 7 * i BY DEF Weekday
  <2>4. IsoWeek(7 * i) = <<y, 1 + (7 * i - 7 * w) \div 7>> BY <2>2, <2>3 DEF IsoWeek, WeekIn
  <2>5. (7 * i - 7 * w) \div 7 = i - w OBVIOUS
  <2> QED BY <2>2, <2>4, <2>5 DEF WeekMonday
<1>10. Numbers("week", yr) BY <1>1, <1>2, <1>3, <1>4, <1>8 DEF Numbers
<1>11. Starts("week", yr) BY <1>2, <1>3, <1>5, <1>9 DEF Starts
<1>12. Lasts("week", yr) /\ Skips("week", yr) BY <1>2, <1>7 DEF Lasts, Skips
<1>13. CountsBack("week", yr)
  <2> SUFFICES ASSUME NEW d \in Int, NEW o \in Int
               PROVE  PeriodBack(d, "week", o, yr) = KeyNo(Number(d, "week", yr) - o, "week", yr)
    BY DEF CountsBack
  <2>1. (d - 7 * o) \div 7 = d \div 7 - o /\ d - 7 * o \in Int OBVIOUS
  <2> QED BY <1>1, <1>3, <1>6, <1>8, <2>1
<1> QED BY <1>10, <1>11, <1>12, <1>13 DEF Sliced

LEMMA SlicedFortnight == ASSUME NEW yr PROVE Sliced("fortnight", yr)
<1>1. \A d : Number(d, "fortnight", yr) = d \div 14 BY DEF Number
<1>2. \A i : FirstDay(i, "fortnight", yr) = 14 * i BY DEF FirstDay
<1>3. \A i : KeyNo(i, "fortnight", yr) = FortnightKey(i) BY DEF KeyNo
<1>4. \A d : PeriodKey(d, "fortnight", yr) = FortnightKey(d \div 14) BY DEF PeriodKey, KeyAt, FortnightIndex
<1>5. \A k : PeriodStart(k, "fortnight", yr) = 14 * FortnightOfKey(k) BY DEF PeriodStart
<1>6. \A d, o : PeriodBack(d, "fortnight", o, yr) = FortnightKey(d \div 14 - o)
  BY DEF PeriodBack, BackFrom, FortnightIndex
<1>7. Longest["fortnight"] = 14 /\ Skip["fortnight"] = 14 BY DEF Longest, Skip
<1>9. ASSUME NEW i \in Int PROVE FortnightOfKey(FortnightKey(i)) = i
  <2> PICK y : y = IsoYear(14 * i) OBVIOUS
  <2>1. FirstFortnightOf(y) \in Int
    <3>1. y \in Int
      <4>1. 14 * i - Weekday(14 * i) + 3 \in Int BY DEF Weekday
      <4> QED BY <4>1, DateOf DEF IsoYear
    <3>2. Day(y, 1, 4) \in Int
      <4>1. 12 * y + 1 - 3 \in Int BY <3>1
      <4>2. DayOfMonth(12 * y + 1 - 3, 4) = MonthStart(12 * y + 1 - 3) + 4 - 1 BY <4>1, MonthSplit
      <4>3. MonthStart(12 * y + 1 - 3) \in Int BY <4>1, MonthsLong
      <4> QED BY <4>2, <4>3 DEF Day
    <3>3. WeekOne(y) \in Int BY <3>2 DEF WeekOne, Weekday
    <3> QED BY <3>3 DEF FirstFortnightOf, Ceil
  <2>2. FortnightKey(i) = <<y, i - FirstFortnightOf(y) + 1>> BY DEF FortnightKey, FortnightIn
  <2> QED BY <2>1, <2>2 DEF FortnightOfKey
<1>10. Numbers("fortnight", yr) BY <1>1, <1>2, <1>3, <1>4 DEF Numbers
<1>11. Starts("fortnight", yr) BY <1>2, <1>3, <1>5, <1>9 DEF Starts
<1>12. Lasts("fortnight", yr) /\ Skips("fortnight", yr) BY <1>2, <1>7 DEF Lasts, Skips
<1>13. CountsBack("fortnight", yr) BY <1>1, <1>3, <1>6 DEF CountsBack
<1> QED BY <1>10, <1>11, <1>12, <1>13 DEF Sliced

LEMMA SlicedDay == ASSUME NEW yr PROVE Sliced("day", yr)
<1>1. \A d : Number(d, "day", yr) = d BY DEF Number
<1>2. \A i : FirstDay(i, "day", yr) = i BY DEF FirstDay
<1>3. \A i : KeyNo(i, "day", yr) = PeriodKey(i, "day", yr) BY DEF KeyNo
<1>4. \A d : PeriodKey(d, "day", yr) = <<Ymd(d).year, 100 * Ymd(d).month + Ymd(d).day>>
  BY DEF PeriodKey, KeyAt
<1>5. \A k : PeriodStart(k, "day", yr) = Day(k[1], k[2] \div 100, k[2] % 100) BY DEF PeriodStart
<1>6. \A d, o : PeriodBack(d, "day", o, yr) = PeriodKey(d - o, "day", yr) BY DEF PeriodBack, BackFrom
<1>7. Longest["day"] = 1 /\ Skip["day"] = 1 BY DEF Longest, Skip
<1>9. ASSUME NEW d \in Int PROVE PeriodStart(PeriodKey(d, "day", yr), "day", yr) = d
  <2> PICK x : x = Ymd(d) OBVIOUS
  <2>1. /\ x.year \in Int /\ x.month \in 1..12 /\ x.day \in 1..31 /\ DateMonth(x) \in Int
        /\ x.day = d - MonthStart(DateMonth(x)) + 1
    BY DateOf
  <2>2. (100 * x.month + x.day) \div 100 = x.month /\ (100 * x.month + x.day) % 100 = x.day BY <2>1
  <2>3. PeriodStart(PeriodKey(d, "day", yr), "day", yr) = Day(x.year, x.month, x.day)
    BY <1>4, <1>5, <2>2
  <2>4. Day(x.year, x.month, x.day) = DayOfMonth(DateMonth(x), x.day) BY DEF Day, DateMonth
  <2>5. DayOfMonth(DateMonth(x), x.day) = MonthStart(DateMonth(x)) + x.day - 1
    <3> PICK n \in Int : n = DateMonth(x) BY <2>1
    <3> PICK t \in Int : t = x.day BY <2>1
    <3>1. DayOfMonth(n, t) = MonthStart(n) + t - 1 BY MonthSplit
    <3> QED BY <3>1
  <2>6. MonthStart(DateMonth(x)) \in Int BY <2>1, MonthsLong
  <2> QED BY <2>1, <2>3, <2>4, <2>5, <2>6
<1>10. Numbers("day", yr) BY <1>1, <1>2, <1>3 DEF Numbers
<1>11. Starts("day", yr) BY <1>2, <1>3, <1>9 DEF Starts
<1>12. Lasts("day", yr) /\ Skips("day", yr) BY <1>2, <1>7 DEF Lasts, Skips
<1>13. CountsBack("day", yr) BY <1>1, <1>3, <1>6 DEF CountsBack
<1> QED BY <1>10, <1>11, <1>12, <1>13 DEF Sliced

-----------------------------------------------------------------------------
(* Runs of months.                                                           *)

LEMMA MonthInt == \A n \in Int : MonthStart(n) \in Int
<1> SUFFICES ASSUME NEW n \in Int PROVE MonthStart(n) \in Int OBVIOUS
<1>1. n <= n OBVIOUS
<1> QED BY <1>1, MonthsLong

RunStart(per, open, t, i) == MonthStart(per * i + open) + t - 1
SkipRun(per) == IF per = 1 THEN 32 ELSE LongestRun(per)
RunOf(d, per, open, t, i) ==
    \E m \in Int : /\ MonthStart(m) <= d - (t - 1) /\ d - (t - 1) < MonthStart(m + 1)
                  /\ i = (m - open) \div per

LEMMA RunBounds ==
    ASSUME NEW per \in {1, 3, 12}, NEW open \in Int, NEW t \in 1..28, NEW i \in Int, NEW j \in Int, i <= j
    PROVE  /\ RunStart(per, open, t, i) \in Int /\ RunStart(per, open, t, j) \in Int
           /\ RunStart(per, open, t, j) - RunStart(per, open, t, i) >= j - i
           /\ RunStart(per, open, t, j) - RunStart(per, open, t, i) <= LongestRun(per) * (j - i)
           /\ j = i + 1 => RunStart(per, open, t, j) - RunStart(per, open, t, i) <= SkipRun(per)
           /\ j = i + 2 => RunStart(per, open, t, j) - RunStart(per, open, t, i) > SkipRun(per)
<1>1. /\ MonthStart(per * i + open) \in Int /\ MonthStart(per * j + open) \in Int
      /\ MonthStart(per * j + open) - MonthStart(per * i + open) >= ShortestRun(per) * (j - i)
      /\ MonthStart(per * j + open) - MonthStart(per * i + open) <= LongestRun(per) * (j - i)
  BY RunsLong
<1> PICK a \in Int : a = MonthStart(per * i + open) BY <1>1
<1> PICK b \in Int : b = MonthStart(per * j + open) BY <1>1
<1>2. b - a >= ShortestRun(per) * (j - i) /\ b - a <= LongestRun(per) * (j - i)
  BY <1>1
<1>3. RunStart(per, open, t, i) = a + t - 1 /\ RunStart(per, open, t, j) = b + t - 1 BY DEF RunStart
<1>7. /\ RunStart(per, open, t, i) \in Int /\ RunStart(per, open, t, j) \in Int
      /\ RunStart(per, open, t, j) - RunStart(per, open, t, i) = b - a
  BY <1>3
<1> SUFFICES /\ b - a >= j - i /\ b - a <= LongestRun(per) * (j - i)
             /\ j = i + 1 => b - a <= SkipRun(per)
             /\ j = i + 2 => b - a > SkipRun(per)
  BY <1>7, Zenon
<1>4. CASE per = 1 BY <1>2, <1>4 DEF ShortestRun, LongestRun, SkipRun
<1>5. CASE per = 3 BY <1>2, <1>5 DEF ShortestRun, LongestRun, SkipRun
<1>6. CASE per = 12 BY <1>2, <1>6 DEF ShortestRun, LongestRun, SkipRun
<1> QED BY <1>4, <1>5, <1>6

LEMMA RunFound ==
    ASSUME NEW per \in {1, 3, 12}, NEW open \in Int, NEW t \in 1..28, NEW d \in Int, NEW i \in Int,
           RunOf(d, per, open, t, i)
    PROVE  RunStart(per, open, t, i) <= d /\ d < RunStart(per, open, t, i + 1)
<1> PICK m \in Int : MonthStart(m) <= d - (t - 1) /\ d - (t - 1) < MonthStart(m + 1)
                     /\ i = (m - open) \div per
  BY DEF RunOf
<1>1. /\ MonthStart(per * i + open) + t - 1 <= d
      /\ d < MonthStart(per * (i + 1) + open) + t - 1
  BY RunHolds
<1> QED BY <1>1 DEF RunStart

\* A kind of period is such a row.
InRuns(period, yr, per, open, t) ==
    /\ \A i \in Int : /\ FirstDay(i, period, yr) = RunStart(per, open, t, i)
                     /\ PeriodStart(KeyNo(i, period, yr), period, yr)
                            = DayOfMonth(per * i + open, t)
    /\ \A d \in Int : /\ Number(d, period, yr) \in Int
                     /\ PeriodKey(d, period, yr) = KeyNo(Number(d, period, yr), period, yr)
                     /\ RunOf(d, per, open, t, Number(d, period, yr))
    /\ Longest[period] = LongestRun(per) /\ Skip[period] = SkipRun(per)
    /\ CountsBack(period, yr)

LEMMA SlicedRun ==
    ASSUME NEW period, NEW yr, NEW per \in {1, 3, 12}, NEW open \in Int, NEW t \in 1..28,
           InRuns(period, yr, per, open, t)
    PROVE  Sliced(period, yr)
<1>0. \A i \in Int : FirstDay(i, period, yr) = RunStart(per, open, t, i) BY DEF InRuns
<1>1. Numbers(period, yr)
  <2> SUFFICES ASSUME NEW d \in Int
               PROVE  /\ FirstDay(Number(d, period, yr), period, yr) <= d
                      /\ d < FirstDay(Number(d, period, yr) + 1, period, yr)
    BY DEF Numbers, InRuns
  <2> PICK i \in Int : i = Number(d, period, yr) BY DEF InRuns
  <2> PICK j \in Int : j = i + 1 OBVIOUS
  <2>1. RunOf(d, per, open, t, i) BY DEF InRuns
  <2>2. RunStart(per, open, t, i) <= d /\ d < RunStart(per, open, t, j) BY <2>1, RunFound
  <2> QED BY <1>0, <2>2
<1>2. Starts(period, yr)
  <2> SUFFICES ASSUME NEW i \in Int
               PROVE  /\ RunStart(per, open, t, i) \in Int
                      /\ DayOfMonth(per * i + open, t) = RunStart(per, open, t, i)
    BY DEF Starts, InRuns
  <2>0. per * i + open \in Int
    <3>1. CASE per = 1 BY <3>1
    <3>2. CASE per = 3 BY <3>2
    <3>3. CASE per = 12 BY <3>3
    <3> QED BY <3>1, <3>2, <3>3
  <2> PICK n \in Int : n = per * i + open BY <2>0
  <2>1. MonthStart(n) \in Int
    <3>1. n <= n OBVIOUS
    <3> QED BY <3>1, MonthsLong
  <2>2. DayOfMonth(n, t) = MonthStart(n) + t - 1 BY MonthSplit
  <2> QED BY <2>1, <2>2 DEF RunStart
<1>3. Lasts(period, yr)
  <2> SUFFICES ASSUME NEW i \in Int, NEW j \in Int, i <= j
               PROVE  /\ RunStart(per, open, t, j) - RunStart(per, open, t, i) >= j - i
                      /\ RunStart(per, open, t, j) - RunStart(per, open, t, i)
                            <= LongestRun(per) * (j - i)
    BY <1>0 DEF Lasts, InRuns
  <2> QED BY RunBounds
<1>4. Skips(period, yr)
  <2> SUFFICES ASSUME NEW i \in Int
               PROVE  /\ RunStart(per, open, t, i + 1) <= RunStart(per, open, t, i) + SkipRun(per)
                      /\ RunStart(per, open, t, i) + SkipRun(per) < RunStart(per, open, t, i + 2)
    BY <1>0, \A i \in Int : i + 1 \in Int /\ i + 2 \in Int DEF Skips, InRuns
  <2> PICK j \in Int : j = i + 1 OBVIOUS
  <2> PICK k \in Int : k = i + 2 OBVIOUS
  <2>0. i <= j /\ i <= k OBVIOUS
  <2>1. /\ RunStart(per, open, t, i) \in Int /\ RunStart(per, open, t, j) \in Int
        /\ RunStart(per, open, t, j) - RunStart(per, open, t, i) <= SkipRun(per)
    BY <2>0, RunBounds
  <2>2. /\ RunStart(per, open, t, k) \in Int
        /\ RunStart(per, open, t, k) - RunStart(per, open, t, i) > SkipRun(per)
    BY <2>0, RunBounds
  <2>3. SkipRun(per) \in Int BY DEF SkipRun, LongestRun
  <2> QED BY <2>1, <2>2, <2>3
<1> QED BY <1>1, <1>2, <1>3, <1>4 DEF Sliced, InRuns

LEMMA Numbering ==
    ASSUME NEW y \in Int, NEW n \in Int, NEW per \in {4, 12}, 0 <= n, n < per
    PROVE  Numbered(per * y + n, per) = <<y, n + 1>>
<1>1. CASE per = 4 BY <1>1 DEF Numbered
<1>2. CASE per = 12 BY <1>2 DEF Numbered
<1> QED BY <1>1, <1>2

LEMMA SlicedMonth == ASSUME NEW yr PROVE Sliced("month", yr)
<1>1. \A d : Number(d, "month", yr) = 12 * Ymd(d).year + Ymd(d).month - 1 BY DEF Number
<1>2. \A i : FirstDay(i, "month", yr) = MonthStart(i - 2) BY DEF FirstDay
<1>3. \A i : KeyNo(i, "month", yr) = Numbered(i, 12) BY DEF KeyNo
<1>4. \A d : PeriodKey(d, "month", yr) = <<Ymd(d).year, Ymd(d).month>> BY DEF PeriodKey, KeyAt
<1>5. \A k : PeriodStart(k, "month", yr) = Day(k[1], k[2], 1) BY DEF PeriodStart
<1>6. \A d, o : PeriodBack(d, "month", o, yr) = Numbered(12 * Ymd(d).year + Ymd(d).month - 1 - o, 12)
  BY DEF PeriodBack, BackFrom
<1>7. Longest["month"] = LongestRun(1) /\ Skip["month"] = SkipRun(1)
  BY DEF Longest, Skip, LongestRun, SkipRun
<1>8. ASSUME NEW i \in Int
      PROVE  /\ FirstDay(i, "month", yr) = RunStart(1, 0 - 2, 1, i)
             /\ PeriodStart(KeyNo(i, "month", yr), "month", yr) = DayOfMonth(1 * i + (0 - 2), 1)
  <2>1. 1 * i + (0 - 2) = i - 2 OBVIOUS
  <2>2. MonthStart(i - 2) \in Int
    <3>1. i - 2 \in Int OBVIOUS
    <3> QED BY <3>1, MonthInt
  <2>3. FirstDay(i, "month", yr) = RunStart(1, 0 - 2, 1, i) BY <1>2, <2>1, <2>2 DEF RunStart
  <2>4. 12 * (i \div 12) + ((i % 12) + 1) - 3 = i - 2 OBVIOUS
  <2> QED BY <1>3, <1>5, <2>1, <2>3, <2>4 DEF Numbered, Day
<1>9. ASSUME NEW d \in Int
      PROVE  /\ Number(d, "month", yr) \in Int
             /\ PeriodKey(d, "month", yr) = KeyNo(Number(d, "month", yr), "month", yr)
             /\ RunOf(d, 1, 0 - 2, 1, Number(d, "month", yr))
  <2> PICK x : x = Ymd(d) OBVIOUS
  <2>1. /\ x.year \in Int /\ x.month \in 1..12 /\ DateMonth(x) \in Int
        /\ MonthStart(DateMonth(x)) <= d /\ d < MonthStart(DateMonth(x) + 1)
    BY DateOf
  <2> PICK y \in Int : y = x.year BY <2>1
  <2> PICK n \in Int : n = x.month - 1 BY <2>1
  <2>2. 0 <= n /\ n < 12 /\ n + 1 = x.month BY <2>1
  <2>3. Number(d, "month", yr) = 12 * y + n BY <1>1, <2>1
  <2>4. PeriodKey(d, "month", yr) = <<y, n + 1>> BY <1>4, <2>2
  <2>5. Numbered(12 * y + n, 12) = <<y, n + 1>> BY <2>2, Numbering
  <2>6. 12 * y + n = (DateMonth(x) - (0 - 2)) \div 1 BY <2>2 DEF DateMonth
  <2>7. d - (1 - 1) = d OBVIOUS
  <2>8. RunOf(d, 1, 0 - 2, 1, 12 * y + n) BY <2>1, <2>6, <2>7 DEF RunOf
  <2> QED BY <1>3, <2>3, <2>4, <2>5, <2>8
<1>10. CountsBack("month", yr)
  <2> SUFFICES ASSUME NEW d \in Int, NEW o \in Int
               PROVE  PeriodBack(d, "month", o, yr) = KeyNo(Number(d, "month", yr) - o, "month", yr)
    BY DEF CountsBack
  <2>0. Ymd(d).year \in Int /\ Ymd(d).month \in 1..12 BY DateOf
  <2>3. PeriodBack(d, "month", o, yr) = Numbered(12 * Ymd(d).year + Ymd(d).month - 1 - o, 12)
    BY <1>6, Zenon
  <2> PICK n \in Int : n = 12 * Ymd(d).year + Ymd(d).month - 1 BY <2>0
  <2>1. PeriodBack(d, "month", o, yr) = Numbered(n - o, 12) BY <2>0, <2>3
  <2>2. Number(d, "month", yr) = n BY <1>1
  <2> QED BY <1>3, <2>1, <2>2
<1>11. InRuns("month", yr, 1, 0 - 2, 1) BY <1>7, <1>8, <1>9, <1>10 DEF InRuns
<1> QED BY <1>11, SlicedRun

LEMMA SlicedQuarter == ASSUME NEW yr PROVE Sliced("quarter", yr)
<1>1. \A d : Number(d, "quarter", yr) = 4 * Ymd(d).year + ((Ymd(d).month - 1) \div 3) BY DEF Number
<1>2. \A i : FirstDay(i, "quarter", yr) = MonthStart(3 * i - 2) BY DEF FirstDay
<1>3. \A i : KeyNo(i, "quarter", yr) = Numbered(i, 4) BY DEF KeyNo
<1>4. \A d : PeriodKey(d, "quarter", yr) = <<Ymd(d).year, Ceil(Ymd(d).month, 3)>> BY DEF PeriodKey, KeyAt
<1>5. \A k : PeriodStart(k, "quarter", yr) = Day(k[1], 3 * (k[2] - 1) + 1, 1) BY DEF PeriodStart
<1>6. \A d, o : PeriodBack(d, "quarter", o, yr) = Numbered(4 * Ymd(d).year + ((Ymd(d).month - 1) \div 3) - o, 4)
  BY DEF PeriodBack, BackFrom
<1>7. Longest["quarter"] = LongestRun(3) /\ Skip["quarter"] = SkipRun(3)
  BY DEF Longest, Skip, LongestRun, SkipRun
<1>8. ASSUME NEW i \in Int
      PROVE  /\ FirstDay(i, "quarter", yr) = RunStart(3, 0 - 2, 1, i)
             /\ PeriodStart(KeyNo(i, "quarter", yr), "quarter", yr) = DayOfMonth(3 * i + (0 - 2), 1)
  <2>1. 3 * i + (0 - 2) = 3 * i - 2 OBVIOUS
  <2>2. MonthStart(3 * i - 2) \in Int
    <3>1. 3 * i - 2 \in Int OBVIOUS
    <3> QED BY <3>1, MonthInt
  <2>3. FirstDay(i, "quarter", yr) = RunStart(3, 0 - 2, 1, i) BY <1>2, <2>1, <2>2 DEF RunStart
  <2>4. 12 * (i \div 4) + (3 * (((i % 4) + 1) - 1) + 1) - 3 = 3 * i - 2 OBVIOUS
  <2> QED BY <1>3, <1>5, <2>1, <2>3, <2>4 DEF Numbered, Day
<1>9. ASSUME NEW d \in Int
      PROVE  /\ Number(d, "quarter", yr) \in Int
             /\ PeriodKey(d, "quarter", yr) = KeyNo(Number(d, "quarter", yr), "quarter", yr)
             /\ RunOf(d, 3, 0 - 2, 1, Number(d, "quarter", yr))
  <2> PICK x : x = Ymd(d) OBVIOUS
  <2>1. /\ x.year \in Int /\ x.month \in 1..12 /\ DateMonth(x) \in Int
        /\ MonthStart(DateMonth(x)) <= d /\ d < MonthStart(DateMonth(x) + 1)
    BY DateOf
  <2> PICK y \in Int : y = x.year BY <2>1
  <2> PICK n \in Int : n = (x.month - 1) \div 3 BY <2>1
  <2>2. 0 <= n /\ n < 4 /\ n + 1 = Ceil(x.month, 3) BY <2>1 DEF Ceil
  <2>3. Number(d, "quarter", yr) = 4 * y + n BY <1>1, <2>1
  <2>4. PeriodKey(d, "quarter", yr) = <<y, n + 1>> BY <1>4, <2>2
  <2>5. Numbered(4 * y + n, 4) = <<y, n + 1>> BY <2>2, Numbering
  <2>6. 4 * y + n = (DateMonth(x) - (0 - 2)) \div 3
    <3>1. DateMonth(x) - (0 - 2) = 12 * y + x.month - 1 BY <2>1 DEF DateMonth
    <3>2. PICK e \in Int : e = x.month - 1 BY <2>1
    <3>3. 12 * y + x.month - 1 = 12 * y + e BY <2>1, <3>2
    <3>4. (12 * y + e) \div 3 = 4 * y + (e \div 3) OBVIOUS
    <3> QED BY <3>1, <3>2, <3>3, <3>4
  <2>7. d - (1 - 1) = d OBVIOUS
  <2>8. RunOf(d, 3, 0 - 2, 1, 4 * y + n) BY <2>1, <2>6, <2>7 DEF RunOf
  <2> QED BY <1>3, <2>3, <2>4, <2>5, <2>8
<1>10. CountsBack("quarter", yr)
  <2> SUFFICES ASSUME NEW d \in Int, NEW o \in Int
               PROVE  PeriodBack(d, "quarter", o, yr) = KeyNo(Number(d, "quarter", yr) - o, "quarter", yr)
    BY DEF CountsBack
  <2>0. Ymd(d).year \in Int /\ Ymd(d).month \in 1..12 BY DateOf
  <2>3. PeriodBack(d, "quarter", o, yr) = Numbered(4 * Ymd(d).year + ((Ymd(d).month - 1) \div 3) - o, 4)
    BY <1>6, Zenon
  <2> PICK n \in Int : n = 4 * Ymd(d).year + ((Ymd(d).month - 1) \div 3) BY <2>0
  <2>1. PeriodBack(d, "quarter", o, yr) = Numbered(n - o, 4) BY <2>0, <2>3
  <2>2. Number(d, "quarter", yr) = n BY <1>1
  <2> QED BY <1>3, <2>1, <2>2
<1>11. InRuns("quarter", yr, 3, 0 - 2, 1) BY <1>7, <1>8, <1>9, <1>10 DEF InRuns
<1> QED BY <1>11, SlicedRun

LEMMA SlicedYear == ASSUME NEW yr PROVE Sliced("year", yr)
<1>1. \A d : Number(d, "year", yr) = Ymd(d).year BY DEF Number
<1>2. \A i : FirstDay(i, "year", yr) = MonthStart(12 * i - 2) BY DEF FirstDay
<1>3. \A i : KeyNo(i, "year", yr) = <<i, 0>> BY DEF KeyNo
<1>4. \A d : PeriodKey(d, "year", yr) = <<Ymd(d).year, 0>> BY DEF PeriodKey, KeyAt
<1>5. \A k : PeriodStart(k, "year", yr) = Day(k[1], 1, 1) BY DEF PeriodStart
<1>6. \A d, o : PeriodBack(d, "year", o, yr) = <<Ymd(d).year - o, 0>> BY DEF PeriodBack, BackFrom
<1>7. Longest["year"] = LongestRun(12) /\ Skip["year"] = SkipRun(12)
  BY DEF Longest, Skip, LongestRun, SkipRun
<1>8. ASSUME NEW i \in Int
      PROVE  /\ FirstDay(i, "year", yr) = RunStart(12, 0 - 2, 1, i)
             /\ PeriodStart(KeyNo(i, "year", yr), "year", yr) = DayOfMonth(12 * i + (0 - 2), 1)
  <2>1. 12 * i + (0 - 2) = 12 * i - 2 OBVIOUS
  <2>2. MonthStart(12 * i - 2) \in Int
    <3>1. 12 * i - 2 \in Int OBVIOUS
    <3> QED BY <3>1, MonthInt
  <2>3. FirstDay(i, "year", yr) = RunStart(12, 0 - 2, 1, i) BY <1>2, <2>1, <2>2 DEF RunStart
  <2>4. 12 * i + 1 - 3 = 12 * i - 2 OBVIOUS
  <2> QED BY <1>3, <1>5, <2>1, <2>3, <2>4 DEF Day
<1>9. ASSUME NEW d \in Int
      PROVE  /\ Number(d, "year", yr) \in Int
             /\ PeriodKey(d, "year", yr) = KeyNo(Number(d, "year", yr), "year", yr)
             /\ RunOf(d, 12, 0 - 2, 1, Number(d, "year", yr))
  <2> PICK x : x = Ymd(d) OBVIOUS
  <2>1. /\ x.year \in Int /\ x.month \in 1..12 /\ DateMonth(x) \in Int
        /\ MonthStart(DateMonth(x)) <= d /\ d < MonthStart(DateMonth(x) + 1)
    BY DateOf
  <2>6. x.year = (DateMonth(x) - (0 - 2)) \div 12
    <3> PICK y \in Int : y = x.year BY <2>1
    <3> PICK e \in Int : e = x.month - 1 BY <2>1
    <3>1. DateMonth(x) - (0 - 2) = 12 * y + e BY <2>1 DEF DateMonth
    <3>2. 0 <= e /\ e < 12 BY <2>1
    <3>3. (12 * y + e) \div 12 = y BY <3>2
    <3> QED BY <3>1, <3>3
  <2>7. d - (1 - 1) = d OBVIOUS
  <2>8. RunOf(d, 12, 0 - 2, 1, x.year) BY <2>1, <2>6, <2>7 DEF RunOf
  <2> QED BY <1>1, <1>3, <1>4, <2>1, <2>8
<1>10. CountsBack("year", yr) BY <1>1, <1>3, <1>6 DEF CountsBack
<1>11. InRuns("year", yr, 12, 0 - 2, 1) BY <1>7, <1>8, <1>9, <1>10 DEF InRuns
<1> QED BY <1>11, SlicedRun

-----------------------------------------------------------------------------
(* The periods of a tax year.                                                *)

LEMMA YearOfMonths ==
    ASSUME NEW a \in Int, NEW b \in Int, 0 <= b, b < 12
    PROVE  (12 * a + b) \div 12 = a
OBVIOUS

\* A tax month counted from Opens, from the year's and the month's number.
LEMMA SinceOpens ==
    ASSUME NEW y \in Int, NEW ty \in Int, NEW sp \in Int, NEW mo \in Int, NEW tm \in Int, NEW b \in Int
    PROVE  (12 * y + mo - 3 - b) - (tm - 3 - 12 * sp) = 12 * ty + (12 * (y - ty + sp) + mo - tm - b)
OBVIOUS

LEMMA Preceding ==
    ASSUME NEW mo \in Int, NEW tm \in Int, NEW dd \in Int, NEW td \in Int,
           ~(mo > tm \/ (mo = tm /\ dd >= td))
    PROVE  mo < tm \/ (mo = tm /\ dd < td)
OBVIOUS

\* The tax month a day is in: counted from Opens, its months begin on the tax year's day.
LEMMA TaxMonths ==
    ASSUME NEW yr \in TaxYears, NEW d \in Int
    PROVE  /\ yr.day \in 1..28 /\ Opens(yr) \in Int
           /\ TaxYearAt(Ymd(d), yr) \in Int
           /\ TaxMonthAt(Ymd(d), yr) \in Int
           /\ 0 <= TaxMonthAt(Ymd(d), yr) /\ TaxMonthAt(Ymd(d), yr) < 12
           /\ \E m \in Int :
                 /\ MonthStart(m) <= d - (yr.day - 1) /\ d - (yr.day - 1) < MonthStart(m + 1)
                 /\ m - Opens(yr) = 12 * TaxYearAt(Ymd(d), yr) + TaxMonthAt(Ymd(d), yr)
<1> PICK x : x = Ymd(d) OBVIOUS
<1>1. /\ x.year \in Int /\ x.month \in 1..12 /\ x.day \in 1..31 /\ DateMonth(x) \in Int
      /\ x.day = d - MonthStart(DateMonth(x)) + 1
      /\ MonthStart(DateMonth(x)) <= d /\ d < MonthStart(DateMonth(x) + 1)
  BY DateOf
<1> PICK y \in Int : y = x.year BY <1>1
<1> PICK mo \in Int : mo = x.month BY <1>1
<1> PICK dd \in Int : dd = x.day BY <1>1
<1> PICK tm \in Int : tm = yr.month BY DEF TaxYears
<1> PICK td \in Int : td = yr.day BY DEF TaxYears
<1>2. 1 <= mo /\ mo <= 12 /\ 1 <= dd /\ dd <= 31 /\ 1 <= tm /\ tm <= 12 /\ 1 <= td /\ td <= 28
  BY <1>1 DEF TaxYears
<1> PICK sp \in Int : sp = YearsSpanned(yr) BY DEF YearsSpanned
<1> PICK ty \in Int : ty = TaxYearAt(x, yr) BY DEF TaxYearAt
<1> PICK b \in Int : b = IF dd < td THEN 1 ELSE 0 OBVIOUS
<1>3. ty = (IF mo > tm \/ (mo = tm /\ dd >= td) THEN y ELSE y - 1) + sp BY DEF TaxYearAt
<1>4. TaxMonthAt(x, yr) = 12 * (y - ty + sp) + mo - tm - b BY DEF TaxMonthAt
<1> PICK mt \in Int : mt = 12 * (y - ty + sp) + mo - tm - b OBVIOUS
<1>b. /\ b \in {0, 1} /\ (dd < td => b = 1) /\ (dd >= td => b = 0)
  OBVIOUS
<1>5. 0 <= mt /\ mt < 12
  <2>1. CASE mo > tm \/ (mo = tm /\ dd >= td)
    <3>1. y - ty + sp = 0 BY <1>3, <2>1
    <3>2. mt = mo - tm - b BY <3>1
    <3> QED BY <1>2, <1>b, <2>1, <3>2
  <2>2. CASE ~(mo > tm \/ (mo = tm /\ dd >= td))
    <3>1. y - ty + sp = 1 BY <1>3, <2>2
    <3>2. mt = 12 + mo - tm - b BY <3>1
    <3>3. mo < tm \/ (mo = tm /\ b = 1) BY <1>b, <2>2, Preceding
    <3> QED BY <1>2, <1>b, <3>2, <3>3
  <2> QED BY <2>1, <2>2
<1>6. Opens(yr) = tm - 3 - 12 * sp BY DEF Opens
<1>7. DateMonth(x) = 12 * y + mo - 3 BY DEF DateMonth
<1> PICK n \in Int : n = DateMonth(x) BY <1>1
<1> PICK s \in Int : s = MonthStart(n)
  BY MonthInt
<1>8. dd = d - s + 1 /\ s <= d /\ d < MonthStart(n + 1) /\ n + 1 \in Int /\ MonthStart(n + 1) \in Int
  <2>1. n + 1 \in Int OBVIOUS
  <2>2. MonthStart(n + 1) \in Int BY <2>1, MonthInt
  <2> QED BY <1>1, <2>1, <2>2
<1> PICK m \in Int : m = n - b OBVIOUS
<1>9. MonthStart(m) <= d - (td - 1) /\ d - (td - 1) < MonthStart(m + 1)
  <2>1. CASE dd >= td
    <3>1. m = n /\ m + 1 = n + 1 BY <2>1
    <3>2. s <= d - (td - 1) /\ d - (td - 1) <= d BY <1>2, <1>8, <2>1
    <3>3. d - (td - 1) < MonthStart(n + 1) BY <1>8, <3>2
    <3> QED BY <3>1, <3>2, <3>3
  <2>2. CASE dd < td
    <3>1. m <= n /\ m + 1 = n /\ n - m = 1 BY <2>2
    <3>2. /\ MonthStart(m) \in Int /\ MonthStart(n) - MonthStart(m) >= 28 * (n - m)
      BY <3>1, MonthsLong
    <3> PICK r \in Int : r = MonthStart(m) BY <3>2
    <3>3. s - r >= 28 BY <3>1, <3>2
    <3>6. s <= d /\ td <= 28 BY <1>2, <1>8
    <3>7. r <= d - (td - 1) BY <3>3, <3>6
    <3>4. MonthStart(m) <= d - (td - 1) BY <3>7
    <3>5. d - (td - 1) < s BY <1>2, <1>8, <2>2
    <3> QED BY <3>1, <3>4, <3>5
  <2> QED BY <2>1, <2>2
<1> PICK op \in Int : op = Opens(yr) BY <1>6
<1>10. m - op = 12 * ty + mt
  <2>1. n = 12 * y + mo - 3 BY <1>7
  <2>2. op = tm - 3 - 12 * sp BY <1>6
  <2>3. (12 * y + mo - 3 - b) - (tm - 3 - 12 * sp) = 12 * ty + (12 * (y - ty + sp) + mo - tm - b)
    BY SinceOpens
  <2> QED BY <2>1, <2>2, <2>3
<1>11. TaxMonthAt(x, yr) = mt BY <1>4
<1>12. yr.day \in 1..28 BY DEF TaxYears
<1> QED BY <1>5, <1>9, <1>10, <1>11, <1>12

\* The key of a period within a tax year tells the month it opens in.
LEMMA TaxStarts ==
    ASSUME NEW yr \in TaxYears, NEW i \in Int
    PROVE  /\ PeriodStart(Numbered(i, 12), "taxmonth", yr) = DayOfMonth(1 * i + Opens(yr), yr.day)
           /\ PeriodStart(Numbered(i, 4), "taxquarter", yr) = DayOfMonth(3 * i + Opens(yr), yr.day)
           /\ PeriodStart(<<i, 0>>, "taxyear", yr) = DayOfMonth(12 * i + Opens(yr), yr.day)
<1> PICK sp \in Int : sp = YearsSpanned(yr) BY DEF YearsSpanned
<1> PICK tm \in Int : tm = yr.month BY DEF TaxYears
<1>1. Opens(yr) = tm - 3 - 12 * sp BY DEF Opens
<1>2. \A k : PeriodStart(k, "taxmonth", yr)
                = Day(k[1] - YearsSpanned(yr), yr.month + (k[2] - 1) * 1, yr.day) BY DEF PeriodStart
<1>3. \A k : PeriodStart(k, "taxquarter", yr)
                = Day(k[1] - YearsSpanned(yr), yr.month + (k[2] - 1) * 3, yr.day) BY DEF PeriodStart
<1>4. \A k : PeriodStart(k, "taxyear", yr)
                = Day(k[1] - YearsSpanned(yr), yr.month, yr.day) BY DEF PeriodStart
<1>5. PeriodStart(Numbered(i, 12), "taxmonth", yr)
        = DayOfMonth(12 * ((i \div 12) - sp) + (tm + (((i % 12) + 1) - 1) * 1) - 3, yr.day)
  BY <1>2 DEF Numbered, Day
<1>6. PeriodStart(Numbered(i, 4), "taxquarter", yr)
        = DayOfMonth(12 * ((i \div 4) - sp) + (tm + (((i % 4) + 1) - 1) * 3) - 3, yr.day)
  BY <1>3 DEF Numbered, Day
<1>7. PeriodStart(<<i, 0>>, "taxyear", yr) = DayOfMonth(12 * (i - sp) + tm - 3, yr.day)
  BY <1>4 DEF Day
<1>8. 12 * ((i \div 12) - sp) + (tm + (((i % 12) + 1) - 1) * 1) - 3 = 1 * i + Opens(yr) BY <1>1
<1>9. 12 * ((i \div 4) - sp) + (tm + (((i % 4) + 1) - 1) * 3) - 3 = 3 * i + Opens(yr) BY <1>1
<1>10. 12 * (i - sp) + tm - 3 = 12 * i + Opens(yr) BY <1>1
<1> QED BY <1>5, <1>6, <1>7, <1>8, <1>9, <1>10

LEMMA SlicedTaxMonth == ASSUME NEW yr \in TaxYears PROVE Sliced("taxmonth", yr)
<1> DEFINE p == "taxmonth"
           y(d) == TaxYearAt(Ymd(d), yr)
           n(d) == TaxMonthAt(Ymd(d), yr)
<1>1. \A d : Number(d, p, yr) = 12 * y(d) + n(d) BY DEF Number
<1>2. \A i : FirstDay(i, p, yr) = MonthStart(i + Opens(yr)) + yr.day - 1 BY DEF FirstDay
<1>3. \A i : KeyNo(i, p, yr) = Numbered(i, 12) BY DEF KeyNo
<1>4. \A d : PeriodKey(d, p, yr) = <<y(d), n(d) + 1>> BY DEF PeriodKey, KeyAt
<1>5. \A d, o : PeriodBack(d, p, o, yr) = Numbered(12 * y(d) + n(d) - o, 12)
  BY DEF PeriodBack, BackFrom
<1>6. \A d \in Int : /\ yr.day \in 1..28 /\ Opens(yr) \in Int
                     /\ y(d) \in Int /\ n(d) \in Int /\ 0 <= n(d) /\ n(d) < 12
                     /\ \E m \in Int :
                           /\ MonthStart(m) <= d - (yr.day - 1) /\ d - (yr.day - 1) < MonthStart(m + 1)
                           /\ m - Opens(yr) = 12 * y(d) + n(d)
  BY TaxMonths
<1> HIDE DEF y, n
<1>7. Longest[p] = LongestRun(1) /\ Skip[p] = SkipRun(1)
  BY DEF Longest, Skip, LongestRun, SkipRun
<1> PICK open \in Int : open = Opens(yr) BY <1>6
<1> PICK t \in 1..28 : t = yr.day BY <1>6
<1>8. ASSUME NEW i \in Int
      PROVE  /\ FirstDay(i, p, yr) = RunStart(1, open, t, i)
             /\ PeriodStart(KeyNo(i, p, yr), p, yr) = DayOfMonth(1 * i + open, t)
  <2>1. 1 * i + open = i + open OBVIOUS
  <2> QED BY <1>2, <1>3, <2>1, TaxStarts DEF RunStart
<1>9. ASSUME NEW d \in Int
      PROVE  /\ Number(d, p, yr) \in Int
             /\ PeriodKey(d, p, yr) = KeyNo(Number(d, p, yr), p, yr)
             /\ RunOf(d, 1, open, t, Number(d, p, yr))
  <2> PICK a \in Int : a = y(d) BY <1>6
  <2> PICK b \in Int : b = n(d) BY <1>6
  <2>1. 0 <= b /\ b < 12 BY <1>6
  <2>2. Numbered(12 * a + b, 12) = <<a, b + 1>> BY <2>1, Numbering
  <2> PICK m \in Int : /\ MonthStart(m) <= d - (t - 1) /\ d - (t - 1) < MonthStart(m + 1)
                       /\ m - open = 12 * a + b
    BY <1>6
  <2>3. 12 * a + b = (m - open) \div 1 OBVIOUS
  <2>4. RunOf(d, 1, open, t, 12 * a + b) BY <2>3 DEF RunOf
  <2>5. Number(d, p, yr) = 12 * a + b BY <1>1
  <2>6. PeriodKey(d, p, yr) = <<a, b + 1>> BY <1>4
  <2> QED BY <1>3, <2>2, <2>4, <2>5, <2>6
<1>10. ASSUME NEW d \in Int, NEW o \in Int
       PROVE  PeriodBack(d, p, o, yr) = KeyNo(Number(d, p, yr) - o, p, yr)
  <2>1. PeriodBack(d, p, o, yr) = Numbered(12 * y(d) + n(d) - o, 12) BY <1>5, Zenon
  <2>2. y(d) \in Int /\ n(d) \in Int BY <1>6
  <2> PICK q \in Int : q = 12 * y(d) + n(d) BY <2>2
  <2>3. PeriodBack(d, p, o, yr) = Numbered(q - o, 12) BY <2>1, <2>2
  <2>4. Number(d, p, yr) = q BY <1>1
  <2> QED BY <1>3, <2>3, <2>4
<1>11. InRuns(p, yr, 1, open, t) BY <1>7, <1>8, <1>9, <1>10 DEF InRuns, CountsBack
<1> QED BY <1>11, SlicedRun

LEMMA SlicedTaxQuarter == ASSUME NEW yr \in TaxYears PROVE Sliced("taxquarter", yr)
<1> DEFINE p == "taxquarter"
           y(d) == TaxYearAt(Ymd(d), yr)
           n(d) == TaxMonthAt(Ymd(d), yr)
<1>1. \A d : Number(d, p, yr) = 4 * y(d) + (n(d) \div 3) BY DEF Number
<1>2. \A i : FirstDay(i, p, yr) = MonthStart(3 * i + Opens(yr)) + yr.day - 1 BY DEF FirstDay
<1>3. \A i : KeyNo(i, p, yr) = Numbered(i, 4) BY DEF KeyNo
<1>4. \A d : PeriodKey(d, p, yr) = <<y(d), (n(d) \div 3) + 1>> BY DEF PeriodKey, KeyAt
<1>5. \A d, o : PeriodBack(d, p, o, yr) = Numbered(4 * y(d) + (n(d) \div 3) - o, 4)
  BY DEF PeriodBack, BackFrom
<1>6. \A d \in Int : /\ yr.day \in 1..28 /\ Opens(yr) \in Int
                     /\ y(d) \in Int /\ n(d) \in Int /\ 0 <= n(d) /\ n(d) < 12
                     /\ \E m \in Int :
                           /\ MonthStart(m) <= d - (yr.day - 1) /\ d - (yr.day - 1) < MonthStart(m + 1)
                           /\ m - Opens(yr) = 12 * y(d) + n(d)
  BY TaxMonths
<1> HIDE DEF y, n
<1>7. Longest[p] = LongestRun(3) /\ Skip[p] = SkipRun(3)
  BY DEF Longest, Skip, LongestRun, SkipRun
<1> PICK open \in Int : open = Opens(yr) BY <1>6
<1> PICK t \in 1..28 : t = yr.day BY <1>6
<1>8. ASSUME NEW i \in Int
      PROVE  /\ FirstDay(i, p, yr) = RunStart(3, open, t, i)
             /\ PeriodStart(KeyNo(i, p, yr), p, yr) = DayOfMonth(3 * i + open, t)
  BY <1>2, <1>3, TaxStarts DEF RunStart
<1>9. ASSUME NEW d \in Int
      PROVE  /\ Number(d, p, yr) \in Int
             /\ PeriodKey(d, p, yr) = KeyNo(Number(d, p, yr), p, yr)
             /\ RunOf(d, 3, open, t, Number(d, p, yr))
  <2> PICK a \in Int : a = y(d) BY <1>6
  <2> PICK b \in Int : b = n(d) BY <1>6
  <2> PICK c \in Int : c = b \div 3 OBVIOUS
  <2>1. 0 <= b /\ b < 12 BY <1>6
  <2>2. Numbered(4 * a + c, 4) = <<a, c + 1>>
    <3>1. 0 <= c /\ c < 4 BY <2>1
    <3> QED BY <3>1, Numbering
  <2> PICK m \in Int : /\ MonthStart(m) <= d - (t - 1) /\ d - (t - 1) < MonthStart(m + 1)
                       /\ m - open = 12 * a + b
    BY <1>6
  <2>3. 4 * a + c = (m - open) \div 3 OBVIOUS
  <2>4. RunOf(d, 3, open, t, 4 * a + c) BY <2>3 DEF RunOf
  <2>5. Number(d, p, yr) = 4 * a + c BY <1>1
  <2>6. PeriodKey(d, p, yr) = <<a, c + 1>> BY <1>4
  <2> QED BY <1>3, <2>2, <2>4, <2>5, <2>6
<1>10. ASSUME NEW d \in Int, NEW o \in Int
       PROVE  PeriodBack(d, p, o, yr) = KeyNo(Number(d, p, yr) - o, p, yr)
  <2>1. PeriodBack(d, p, o, yr) = Numbered(4 * y(d) + (n(d) \div 3) - o, 4) BY <1>5, Zenon
  <2>2. y(d) \in Int /\ n(d) \in Int BY <1>6
  <2> PICK q \in Int : q = 4 * y(d) + (n(d) \div 3) BY <2>2
  <2>3. PeriodBack(d, p, o, yr) = Numbered(q - o, 4) BY <2>1, <2>2
  <2>4. Number(d, p, yr) = q BY <1>1
  <2> QED BY <1>3, <2>3, <2>4
<1>11. InRuns(p, yr, 3, open, t) BY <1>7, <1>8, <1>9, <1>10 DEF InRuns, CountsBack
<1> QED BY <1>11, SlicedRun

LEMMA SlicedTaxYear == ASSUME NEW yr \in TaxYears PROVE Sliced("taxyear", yr)
<1> DEFINE p == "taxyear"
           y(d) == TaxYearAt(Ymd(d), yr)
           n(d) == TaxMonthAt(Ymd(d), yr)
<1>1. \A d : Number(d, p, yr) = y(d) BY DEF Number
<1>2. \A i : FirstDay(i, p, yr) = MonthStart(12 * i + Opens(yr)) + yr.day - 1 BY DEF FirstDay
<1>3. \A i : KeyNo(i, p, yr) = <<i, 0>> BY DEF KeyNo
<1>4. \A d : PeriodKey(d, p, yr) = <<y(d), 0>> BY DEF PeriodKey, KeyAt
<1>5. \A d, o : PeriodBack(d, p, o, yr) = <<y(d) - o, 0>>
  BY DEF PeriodBack, BackFrom
<1>6. \A d \in Int : /\ yr.day \in 1..28 /\ Opens(yr) \in Int
                     /\ y(d) \in Int /\ n(d) \in Int /\ 0 <= n(d) /\ n(d) < 12
                     /\ \E m \in Int :
                           /\ MonthStart(m) <= d - (yr.day - 1) /\ d - (yr.day - 1) < MonthStart(m + 1)
                           /\ m - Opens(yr) = 12 * y(d) + n(d)
  BY TaxMonths
<1> HIDE DEF y, n
<1>7. Longest[p] = LongestRun(12) /\ Skip[p] = SkipRun(12)
  BY DEF Longest, Skip, LongestRun, SkipRun
<1> PICK open \in Int : open = Opens(yr) BY <1>6
<1> PICK t \in 1..28 : t = yr.day BY <1>6
<1>8. ASSUME NEW i \in Int
      PROVE  /\ FirstDay(i, p, yr) = RunStart(12, open, t, i)
             /\ PeriodStart(KeyNo(i, p, yr), p, yr) = DayOfMonth(12 * i + open, t)
  BY <1>2, <1>3, TaxStarts DEF RunStart
<1>9. ASSUME NEW d \in Int
      PROVE  /\ Number(d, p, yr) \in Int
             /\ PeriodKey(d, p, yr) = KeyNo(Number(d, p, yr), p, yr)
             /\ RunOf(d, 12, open, t, Number(d, p, yr))
  <2> PICK a \in Int : a = y(d) BY <1>6
  <2> PICK b \in Int : b = n(d) BY <1>6
  <2>1. 0 <= b /\ b < 12 BY <1>6
  <2> PICK m \in Int : /\ MonthStart(m) <= d - (t - 1) /\ d - (t - 1) < MonthStart(m + 1)
                       /\ m - open = 12 * a + b
    BY <1>6
  <2>3. a = (m - open) \div 12
    <3>1. (12 * a + b) \div 12 = a BY <2>1, YearOfMonths
    <3> QED BY <3>1
  <2>4. RunOf(d, 12, open, t, a) BY <2>3 DEF RunOf
  <2> QED BY <1>1, <1>3, <1>4, <2>4
<1>10. ASSUME NEW d \in Int, NEW o \in Int
       PROVE  PeriodBack(d, p, o, yr) = KeyNo(Number(d, p, yr) - o, p, yr)
  BY <1>1, <1>3, <1>5, Zenon
<1>11. InRuns(p, yr, 12, open, t) BY <1>7, <1>8, <1>9, <1>10 DEF InRuns, CountsBack
<1> QED BY <1>11, SlicedRun

-----------------------------------------------------------------------------
(* The order of keys.                                                        *)

\* A later day is in a later month, or in the same one.
LEMMA MonthsInOrder ==
    ASSUME NEW a \in Int, NEW b \in Int, a <= b
    PROVE  DateMonth(Ymd(a)) <= DateMonth(Ymd(b))
<1> PICK m \in Int : m = DateMonth(Ymd(a)) BY DateOf
<1> PICK n \in Int : n = DateMonth(Ymd(b)) BY DateOf
<1> PICK k \in Int : k = n + 1 OBVIOUS
<1>1. MonthStart(m) <= a BY DateOf
<1>2. b < MonthStart(k) BY DateOf
<1> SUFFICES ASSUME n < m PROVE FALSE OBVIOUS
<1>3. k <= m OBVIOUS
<1>4. /\ MonthStart(k) \in Int /\ MonthStart(m) \in Int
      /\ MonthStart(m) - MonthStart(k) >= 28 * (m - k)
  BY <1>3, MonthsLong
<1>5. 28 * (m - k) >= 0 BY <1>3
<1> PICK p \in Int : p = 28 * (m - k) OBVIOUS
<1>6. MonthStart(k) <= MonthStart(m) BY <1>4, <1>5
<1> QED BY <1>1, <1>2, <1>4, <1>6

LEMMA YearsInOrder ==
    ASSUME NEW a \in Int, NEW b \in Int, a <= b
    PROVE  Ymd(a).year <= Ymd(b).year
<1>1. /\ Ymd(a).year \in Int /\ Ymd(a).month \in 1..12
      /\ Ymd(b).year \in Int /\ Ymd(b).month \in 1..12
  BY DateOf
<1>2. 12 * Ymd(a).year + Ymd(a).month - 3 <= 12 * Ymd(b).year + Ymd(b).month - 3
  BY MonthsInOrder DEF DateMonth
<1> PICK y \in Int : y = Ymd(a).year BY <1>1
<1> PICK z \in Int : z = Ymd(b).year BY <1>1
<1> PICK m \in 1..12 : m = Ymd(a).month BY <1>1
<1> PICK n \in 1..12 : n = Ymd(b).month BY <1>1
<1>3. 12 * y + m - 3 <= 12 * z + n - 3 BY <1>2
<1>4. y <= z BY <1>3
<1> QED BY <1>4

InOrder(period, yr) ==
    \A i \in Int, j \in Int : Upto(KeyNo(i, period, yr), KeyNo(j, period, yr)) <=> i <= j

LEMMA OrderedDay == ASSUME NEW yr PROVE InOrder("day", yr)
<1> SUFFICES ASSUME NEW i \in Int, NEW j \in Int
             PROVE  Upto(KeyNo(i, "day", yr), KeyNo(j, "day", yr)) <=> i <= j
  BY DEF InOrder
<1>1. \A d : KeyNo(d, "day", yr) = <<Ymd(d).year, 100 * Ymd(d).month + Ymd(d).day>>
  BY DEF KeyNo, PeriodKey, KeyAt
<1>2. ASSUME NEW a \in Int, NEW b \in Int, a < b
      PROVE  /\ Upto(KeyNo(a, "day", yr), KeyNo(b, "day", yr))
             /\ ~Upto(KeyNo(b, "day", yr), KeyNo(a, "day", yr))
  <2>1. /\ Ymd(a).year \in Int /\ Ymd(a).month \in 1..12 /\ Ymd(a).day \in 1..31
        /\ DateMonth(Ymd(a)) \in Int
        /\ Ymd(a).day = a - MonthStart(DateMonth(Ymd(a))) + 1
    BY DateOf
  <2>2. /\ Ymd(b).year \in Int /\ Ymd(b).month \in 1..12 /\ Ymd(b).day \in 1..31
        /\ DateMonth(Ymd(b)) \in Int
        /\ Ymd(b).day = b - MonthStart(DateMonth(Ymd(b))) + 1
    BY DateOf
  <2> PICK y \in Int : y = Ymd(a).year BY <2>1
  <2> PICK z \in Int : z = Ymd(b).year BY <2>2
  <2> PICK m \in 1..12 : m = Ymd(a).month BY <2>1
  <2> PICK n \in 1..12 : n = Ymd(b).month BY <2>2
  <2> PICK s \in 1..31 : s = Ymd(a).day BY <2>1
  <2> PICK t \in 1..31 : t = Ymd(b).day BY <2>2
  <2>3. DateMonth(Ymd(a)) = 12 * y + m - 3 /\ DateMonth(Ymd(b)) = 12 * z + n - 3 BY DEF DateMonth
  <2>4. 12 * y + m - 3 <= 12 * z + n - 3 BY <1>2, <2>3, MonthsInOrder
  <2>5. y = z /\ m = n => s < t
    <3> SUFFICES ASSUME y = z, m = n PROVE s < t OBVIOUS
    <3> PICK k \in Int : k = DateMonth(Ymd(a)) BY <2>1
    <3>1. k = DateMonth(Ymd(b)) BY <2>3
    <3> PICK f \in Int : f = MonthStart(k) BY MonthInt
    <3>2. s = a - f + 1 BY <2>1
    <3>3. t = b - f + 1 BY <2>2, <3>1
    <3> QED BY <1>2, <3>2, <3>3
  <2>6. y < z \/ (y = z /\ 100 * m + s < 100 * n + t) BY <2>4, <2>5
  <2>7. Upto(<<y, 100 * m + s>>, <<z, 100 * n + t>>) /\ ~Upto(<<z, 100 * n + t>>, <<y, 100 * m + s>>)
    BY <2>6 DEF Upto
  <2>8. KeyNo(a, "day", yr) = <<y, 100 * m + s>> /\ KeyNo(b, "day", yr) = <<z, 100 * n + t>>
    BY <1>1
  <2> QED BY <2>7, <2>8
<1>3. Upto(KeyNo(i, "day", yr), KeyNo(i, "day", yr))
  <2>1. Ymd(i).year \in Int /\ Ymd(i).month \in 1..12 /\ Ymd(i).day \in 1..31 BY DateOf
  <2> PICK q \in Int : q = 100 * Ymd(i).month + Ymd(i).day BY <2>1
  <2>2. KeyNo(i, "day", yr) = <<Ymd(i).year, q>> BY <1>1
  <2> QED BY <2>2 DEF Upto
<1> QED BY <1>2, <1>3

LEMMA OrderedNumbers ==
    ASSUME NEW per \in {4, 12}, NEW i \in Int, NEW j \in Int
    PROVE  Upto(Numbered(i, per), Numbered(j, per)) <=> i <= j
<1>1. CASE per = 4 BY <1>1 DEF Upto, Numbered
<1>2. CASE per = 12 BY <1>2 DEF Upto, Numbered
<1> QED BY <1>1, <1>2

LEMMA OrderedRuns ==
    ASSUME NEW period \in {"month", "taxmonth", "quarter", "taxquarter", "year", "taxyear"}, NEW yr
    PROVE  InOrder(period, yr)
<1>1. CASE period \in {"month", "taxmonth"}
  <2>1. \A i : KeyNo(i, period, yr) = Numbered(i, 12) BY <1>1 DEF KeyNo
  <2> QED BY <2>1, OrderedNumbers DEF InOrder
<1>2. CASE period \in {"quarter", "taxquarter"}
  <2>1. \A i : KeyNo(i, period, yr) = Numbered(i, 4) BY <1>2 DEF KeyNo
  <2> QED BY <2>1, OrderedNumbers DEF InOrder
<1>3. CASE period \in {"year", "taxyear"}
  <2>1. \A i : KeyNo(i, period, yr) = <<i, 0>> BY <1>3 DEF KeyNo
  <2> QED BY <2>1 DEF InOrder, Upto
<1> QED BY <1>1, <1>2, <1>3

\* A later day is in a later ISO year, or in the same one.
LEMMA IsoYears ==
    ASSUME NEW a \in Int, NEW b \in Int, a <= b
    PROVE  IsoYear(a) \in Int /\ IsoYear(b) \in Int /\ IsoYear(a) <= IsoYear(b)
<1> PICK p \in Int : p = a - Weekday(a) + 3 BY DEF Weekday
<1> PICK q \in Int : q = b - Weekday(b) + 3 BY DEF Weekday
<1>1. p <= q BY DEF Weekday
<1> QED BY <1>1, YearsInOrder, DateOf DEF IsoYear

LEMMA FirstsOfYears ==
    ASSUME NEW y \in Int
    PROVE  /\ \E w \in Int : WeekOne(y) = 7 * w
           /\ FirstFortnightOf(y) \in Int
<1>1. 12 * y + 1 - 3 \in Int OBVIOUS
<1>2. DayOfMonth(12 * y + 1 - 3, 4) = MonthStart(12 * y + 1 - 3) + 4 - 1 BY <1>1, MonthSplit
<1>3. MonthStart(12 * y + 1 - 3) \in Int BY <1>1, MonthInt
<1> PICK a \in Int : a = Day(y, 1, 4) BY <1>2, <1>3 DEF Day
<1>4. WeekOne(y) = 7 * (a \div 7) /\ a \div 7 \in Int
  <2>1. a - (a % 7) = 7 * (a \div 7) /\ a \div 7 \in Int OBVIOUS
  <2> QED BY <2>1 DEF WeekOne, Weekday
<1>5. FirstFortnightOf(y) \in Int BY <1>4 DEF FirstFortnightOf, Ceil
<1> QED BY <1>4, <1>5

LEMMA OrderedWeek == ASSUME NEW yr PROVE InOrder("week", yr)
<1> SUFFICES ASSUME NEW i \in Int, NEW j \in Int
             PROVE  Upto(KeyNo(i, "week", yr), KeyNo(j, "week", yr)) <=> i <= j
  BY DEF InOrder
<1>1. \A k : KeyNo(k, "week", yr) = WeekIn(IsoYear(7 * k), 7 * k) BY DEF KeyNo, IsoWeek
<1> PICK y \in Int : y = IsoYear(7 * i)
  <2>1. 7 * i \in Int /\ 7 * i <= 7 * i OBVIOUS
  <2> QED BY <2>1, IsoYears
<1> PICK z \in Int : z = IsoYear(7 * j)
  <2>1. 7 * j \in Int /\ 7 * j <= 7 * j OBVIOUS
  <2> QED BY <2>1, IsoYears
<1>2. i <= j => y <= z
  <2>1. i <= j => 7 * i \in Int /\ 7 * j \in Int /\ 7 * i <= 7 * j OBVIOUS
  <2> QED BY <2>1, IsoYears
<1>3. j <= i => z <= y
  <2>1. j <= i => 7 * i \in Int /\ 7 * j \in Int /\ 7 * j <= 7 * i OBVIOUS
  <2> QED BY <2>1, IsoYears
<1> PICK u \in Int : WeekOne(y) = 7 * u BY FirstsOfYears
<1> PICK v \in Int : WeekOne(z) = 7 * v BY FirstsOfYears
<1>4. KeyNo(i, "week", yr) = <<y, 1 + (i - u)>>
  <2>1. 7 * i - Weekday(7 * i) = 7 * i BY DEF Weekday
  <2>2. (7 * i - 7 * u) \div 7 = i - u OBVIOUS
  <2> QED BY <1>1, <2>1, <2>2 DEF WeekIn
<1>5. KeyNo(j, "week", yr) = <<z, 1 + (j - v)>>
  <2>1. 7 * j - Weekday(7 * j) = 7 * j BY DEF Weekday
  <2>2. (7 * j - 7 * v) \div 7 = j - v OBVIOUS
  <2> QED BY <1>1, <2>1, <2>2 DEF WeekIn
<1>6. y = z => u = v
  <2> SUFFICES ASSUME y = z PROVE u = v OBVIOUS
  <2>1. 7 * u = 7 * v OBVIOUS
  <2> QED BY <2>1
<1> QED BY <1>2, <1>3, <1>4, <1>5, <1>6 DEF Upto

LEMMA OrderedFortnight == ASSUME NEW yr PROVE InOrder("fortnight", yr)
<1> SUFFICES ASSUME NEW i \in Int, NEW j \in Int
             PROVE  Upto(KeyNo(i, "fortnight", yr), KeyNo(j, "fortnight", yr)) <=> i <= j
  BY DEF InOrder
<1>1. \A k : KeyNo(k, "fortnight", yr) = <<IsoYear(14 * k), k - FirstFortnightOf(IsoYear(14 * k)) + 1>>
  BY DEF KeyNo, FortnightKey, FortnightIn
<1> PICK y \in Int : y = IsoYear(14 * i)
  <2>1. 14 * i \in Int /\ 14 * i <= 14 * i OBVIOUS
  <2> QED BY <2>1, IsoYears
<1> PICK z \in Int : z = IsoYear(14 * j)
  <2>1. 14 * j \in Int /\ 14 * j <= 14 * j OBVIOUS
  <2> QED BY <2>1, IsoYears
<1>2. i <= j => y <= z
  <2>1. i <= j => 14 * i \in Int /\ 14 * j \in Int /\ 14 * i <= 14 * j OBVIOUS
  <2> QED BY <2>1, IsoYears
<1>3. j <= i => z <= y
  <2>1. j <= i => 14 * i \in Int /\ 14 * j \in Int /\ 14 * j <= 14 * i OBVIOUS
  <2> QED BY <2>1, IsoYears
<1> PICK u \in Int : u = FirstFortnightOf(y) BY FirstsOfYears
<1> PICK v \in Int : v = FirstFortnightOf(z) BY FirstsOfYears
<1>4. KeyNo(i, "fortnight", yr) = <<y, i - u + 1>> BY <1>1
<1>5. KeyNo(j, "fortnight", yr) = <<z, j - v + 1>> BY <1>1
<1>6. y = z => u = v OBVIOUS
<1> QED BY <1>2, <1>3, <1>4, <1>5, <1>6 DEF Upto

-----------------------------------------------------------------------------
(* Every kind of period.                                                     *)

\* Whatever day a household's tax year starts on, every day is in one period of each
\* kind, the one its key names (periodKey), which begins on the day its key tells
\* (periodStart); the next begins where it ends (periodEnd); counting back from a day
\* follows the order they lie in (periodBack), and so does the order of their keys.
THEOREM PeriodsSliced ==
    ASSUME NEW period \in Periods, NEW yr \in TaxYears
    PROVE  Sliced(period, yr) /\ InOrder(period, yr)
<1>1. CASE period \in {"day", "week", "fortnight"}
  BY <1>1, SlicedDay, SlicedWeek, SlicedFortnight, OrderedDay, OrderedWeek, OrderedFortnight
<1>2. CASE period \in {"month", "quarter", "year"}
  BY <1>2, SlicedMonth, SlicedQuarter, SlicedYear, OrderedRuns
<1>3. CASE period \in {"taxmonth", "taxquarter", "taxyear"}
  BY <1>3, SlicedTaxMonth, SlicedTaxQuarter, SlicedTaxYear, OrderedRuns
<1> QED BY <1>1, <1>2, <1>3 DEF Periods, Views, TaxPeriods

\* A day is in one period only, and keys tell periods apart.
LEMMA NumberIs ==
    ASSUME NEW period \in Periods, NEW yr \in TaxYears, NEW d \in Int, NEW i \in Int
    PROVE  /\ Number(d, period, yr) = i
                 <=> FirstDay(i, period, yr) <= d /\ d < FirstDay(i + 1, period, yr)
           /\ PeriodKey(d, period, yr) = KeyNo(i, period, yr) <=> Number(d, period, yr) = i
<1> DEFINE n == Number(d, period, yr)
           S(k) == FirstDay(k, period, yr)
           K(k) == KeyNo(k, period, yr)
<1>1. n \in Int /\ PeriodKey(d, period, yr) = K(n) /\ S(n) <= d /\ d < S(n + 1)
  BY PeriodsSliced DEF Sliced, Numbers
<1>2. \A a \in Int : S(a) \in Int /\ PeriodStart(K(a), period, yr) = S(a)
  BY PeriodsSliced DEF Sliced, Starts
<1>3. \A a \in Int, b \in Int : a <= b => S(b) - S(a) >= b - a
  BY PeriodsSliced DEF Sliced, Lasts
<1> HIDE DEF n, S, K
<1>4. ASSUME S(i) <= d, d < S(i + 1) PROVE n = i
  <2> PICK a \in Int : a = n + 1 BY <1>1
  <2> PICK b \in Int : b = i + 1 OBVIOUS
  <2>1. CASE a <= i
    <3>1. S(i) - S(a) >= i - a /\ S(i) \in Int /\ S(a) \in Int BY <1>2, <1>3, <2>1
    <3>2. d < S(a) BY <1>1
    <3> QED BY <1>4, <2>1, <3>1, <3>2
  <2>2. CASE b <= n
    <3>1. S(n) - S(b) >= n - b /\ S(n) \in Int /\ S(b) \in Int BY <1>1, <1>2, <1>3, <2>2
    <3>2. d < S(b) BY <1>4
    <3> QED BY <1>1, <2>2, <3>1, <3>2
  <2> QED BY <1>1, <2>1, <2>2
<1>5. ASSUME K(n) = K(i) PROVE n = i
  <2>1. S(n) = S(i) /\ S(n) \in Int BY <1>1, <1>2, <1>5
  <2>2. n <= i => S(i) - S(n) >= i - n BY <1>1, <1>3
  <2>3. i <= n => S(n) - S(i) >= n - i BY <1>1, <1>3
  <2> PICK s \in Int : s = S(n) BY <2>1
  <2>4. s - s = 0 OBVIOUS
  <2> QED BY <1>1, <2>1, <2>2, <2>3, <2>4
<1>6. PeriodKey(d, period, yr) = K(i) <=> n = i BY <1>1, <1>5
<1>7. n = i <=> S(i) <= d /\ d < S(i + 1) BY <1>1, <1>4
<1> QED BY <1>6, <1>7 DEF n, S, K

\* The key of a period tells its first day, and the first of the next.
LEMMA PeriodSpan ==
    ASSUME NEW period \in Periods, NEW yr \in TaxYears, NEW i \in Int
    PROVE  /\ FirstDay(i, period, yr) \in Int
           /\ PeriodStart(KeyNo(i, period, yr), period, yr) = FirstDay(i, period, yr)
           /\ PeriodEnd(KeyNo(i, period, yr), period, yr) = FirstDay(i + 1, period, yr)
           /\ PeriodKey(FirstDay(i, period, yr), period, yr) = KeyNo(i, period, yr)
           /\ FirstDay(i, period, yr) < FirstDay(i + 1, period, yr)
<1> DEFINE S(k) == FirstDay(k, period, yr)
           K(k) == KeyNo(k, period, yr)
<1>1. \A a \in Int : S(a) \in Int /\ PeriodStart(K(a), period, yr) = S(a)
  BY PeriodsSliced DEF Sliced, Starts
<1>2. \A a \in Int, b \in Int : a <= b => S(b) - S(a) >= b - a
  BY PeriodsSliced DEF Sliced, Lasts
<1>3. S(i + 1) <= S(i) + Skip[period] /\ S(i) + Skip[period] < S(i + 2)
  BY PeriodsSliced DEF Sliced, Skips
<1>4. Skip[period] \in Int
  <2>1. /\ Skip["day"] = 1 /\ Skip["week"] = 7 /\ Skip["fortnight"] = 14
        /\ Skip["month"] = 32 /\ Skip["quarter"] = 93 /\ Skip["year"] = 366
        /\ Skip["taxmonth"] = 32 /\ Skip["taxquarter"] = 93 /\ Skip["taxyear"] = 366
    BY DEF Skip, Longest
  <2> QED BY <2>1 DEF Periods, Views, TaxPeriods
<1>5. \A d \in Int, k \in Int : S(k) <= d /\ d < S(k + 1) => PeriodKey(d, period, yr) = K(k)
  BY NumberIs
<1> HIDE DEF S, K
<1> PICK j \in Int : j = i + 1 OBVIOUS
<1>6. j + 1 = i + 2 /\ i <= j /\ j - i = 1 OBVIOUS
<1>7. S(i) \in Int /\ S(j) \in Int /\ S(i) < S(j)
  <2>1. S(i) \in Int /\ S(j) \in Int /\ S(j) - S(i) >= j - i BY <1>1, <1>2, <1>6
  <2> QED BY <1>6, <2>1
<1> PICK d \in Int : d = S(i) + Skip[period] BY <1>4, <1>7
<1>8. PeriodKey(d, period, yr) = K(j)
  <2>1. S(j) <= d /\ d < S(j + 1) BY <1>3, <1>6
  <2> QED BY <1>5, <2>1
<1>9. PeriodKey(S(i), period, yr) = K(i)
  <2>1. S(i) <= S(i) /\ S(i) < S(i + 1) BY <1>7
  <2> QED BY <1>5, <1>7, <2>1
<1>10. PeriodEnd(K(i), period, yr) = S(j)
  <2>1. PeriodStart(K(i), period, yr) = S(i) BY <1>1
  <2> QED BY <1>1, <1>8, <2>1 DEF PeriodEnd
<1> QED BY <1>1, <1>7, <1>9, <1>10 DEF S, K

\* A window is a row of periods that ends `offset' before the one in progress.
LEMMA WindowIs ==
    ASSUME NEW period \in Periods, NEW yr \in TaxYears, NEW today \in Int,
           NEW count \in Int, NEW offset \in Int
    PROVE  /\ Number(today, period, yr) \in Int
           /\ PeriodWindow(today, period, count, offset, yr)
                = [j \in 1..count |->
                      KeyNo(Number(today, period, yr) - (offset + count - j), period, yr)]
BY PeriodsSliced DEF Sliced, Numbers, CountsBack, PeriodWindow

\* What a page reads reaches back to the first day it shows.
LEMMA CutoffReaches ==
    ASSUME NEW period \in Periods, NEW yr \in TaxYears, NEW today \in Int, NEW c \in Int, 0 <= c,
           NEW d \in Int, FirstDay(Number(today, period, yr) - (c - 1), period, yr) <= d
    PROVE  d >= FetchCutoff(today, period, c)
<1> DEFINE n == Number(today, period, yr)
           S(k) == FirstDay(k, period, yr)
<1>1. n \in Int /\ today < S(n + 1)
  BY PeriodsSliced DEF Sliced, Numbers
<1>2. \A a \in Int : S(a) \in Int
  BY PeriodsSliced DEF Sliced, Starts
<1>3. \A a \in Int, b \in Int : a <= b => S(b) - S(a) <= Longest[period] * (b - a)
  BY PeriodsSliced DEF Sliced, Lasts
<1>4. Longest[period] \in Nat BY DEF Longest, Periods, Views, TaxPeriods
<1>5. S(n - (c - 1)) <= d OBVIOUS
<1> HIDE DEF n, S
<1> PICK a \in Int : a = n - (c - 1) BY <1>1
<1> PICK b \in Int : b = n + 1 BY <1>1
<1> PICK l \in Nat : l = Longest[period] BY <1>4
<1>6. a <= b /\ b - a = c BY <1>1
<1>7. S(b) - S(a) <= l * c BY <1>3, <1>6
<1>8. S(a) \in Int /\ S(b) \in Int /\ today < S(b) /\ S(a) <= d BY <1>1, <1>2, <1>5
<1>9. l * (c + 2) = l * c + 2 * l /\ l * c \in Int /\ (c + 2) * l = l * (c + 2) OBVIOUS
<1> PICK p \in Int : p = l * c OBVIOUS
<1>10. today - p < S(a) BY <1>7, <1>8
<1>11. today - (p + 2 * l) <= d BY <1>8, <1>10
<1> QED BY <1>9, <1>11 DEF FetchCutoff

\* A finite set of integers has a least.
LEMMA LeastOf ==
    ASSUME NEW S \in SUBSET Int, IsFiniteSet(S), S # {}
    PROVE  Min(S) \in S /\ \A y \in S : Min(S) <= y
<1> DEFINE Under(x) == {y \in S : y < x}
           sizes == {Cardinality(Under(x)) : x \in S}
<1>1. \A x \in S : IsFiniteSet(Under(x)) /\ Cardinality(Under(x)) \in Nat
  <2> SUFFICES ASSUME NEW x \in S PROVE IsFiniteSet(Under(x)) /\ Cardinality(Under(x)) \in Nat
    OBVIOUS
  <2>1. Under(x) \subseteq S OBVIOUS
  <2>2. IsFiniteSet(Under(x)) BY <2>1, FS_Subset
  <2> QED BY <2>2, FS_CardinalityType
<1>2. sizes \subseteq Nat /\ sizes # {} BY <1>1
<1>3. PICK n \in sizes : \A m \in sizes : ~(<<m, n>> \in OpToRel(<, Nat))
  BY <1>2, NatLessThanWellFounded, WFMin
<1> PICK x \in S : n = Cardinality(Under(x)) BY <1>3
<1>4. ASSUME NEW y \in S PROVE x <= y
  <2> SUFFICES ASSUME y < x PROVE FALSE OBVIOUS
  <2>1. Under(y) \subseteq Under(x) /\ y \in Under(x) /\ y \notin Under(y) OBVIOUS
  <2>2. Cardinality(Under(y)) <= Cardinality(Under(x)) /\ Cardinality(Under(y)) # Cardinality(Under(x))
    BY <1>1, <2>1, FS_Subset
  <2>3. Cardinality(Under(y)) < n /\ Cardinality(Under(y)) \in sizes
    <3> PICK c \in Nat : c = Cardinality(Under(y)) BY <1>1
    <3> PICK e \in Nat : e = Cardinality(Under(x)) BY <1>1
    <3>1. c < e BY <2>2
    <3> QED BY <3>1
  <2>4. <<Cardinality(Under(y)), n>> \in OpToRel(<, Nat) BY <1>2, <2>3 DEF OpToRel
  <2> QED BY <1>3, <2>3, <2>4
<1> QED BY <1>4 DEF Min

-----------------------------------------------------------------------------
(* Paging.                                                                   *)

\* Walking back stops at the first window that begins early enough.
LEMMA OffsetFinds ==
    ASSUME NEW n, NEW period, NEW count, NEW target, NEW t
    PROVE  LET Reached(o) == Upto(PeriodBack(n, period, o + count - 1, t), target)
               found == OffsetReaching(n, period, count, target, t)
           IN  /\ found \in Nat /\ found \in 0..(MaxOffset - 1)
               /\ found # 0 \/ (\E o \in 0..(MaxOffset - 1) : Reached(o)) =>
                      Reached(found) /\ \A e \in 0..(found - 1) : ~Reached(e)
<1> DEFINE Reached(o) == Upto(PeriodBack(n, period, o + count - 1, t), target)
           offsets == 0..(MaxOffset - 1)
           found == OffsetReaching(n, period, count, target, t)
<1>1. found = IF \E o \in offsets : Reached(o)
              THEN CHOOSE o \in offsets : Reached(o) /\ \A e \in 0..(o - 1) : ~Reached(e)
              ELSE 0
  BY DEF OffsetReaching
<1>2. offsets \subseteq Nat /\ 0 \in offsets BY DEF MaxOffset
<1>3. \A o \in offsets : \A e \in 0..(o - 1) : e \in offsets /\ e < o BY DEF MaxOffset
<1> HIDE DEF Reached, offsets, found
<1>4. CASE \E o \in offsets : Reached(o)
  <2> DEFINE all == {o \in offsets : Reached(o)}
  <2>1. all \subseteq Nat /\ all # {} BY <1>2, <1>4
  <2>2. PICK x \in all : \A y \in all : ~(<<y, x>> \in OpToRel(<, Nat))
    BY <2>1, NatLessThanWellFounded, WFMin
  <2>3. ASSUME NEW e \in 0..(x - 1) PROVE ~Reached(e)
    <3>1. x \in offsets /\ x \in Nat BY <2>1
    <3>2. e \in offsets /\ e < x /\ e \in Nat BY <1>2, <1>3, <3>1
    <3>3. <<e, x>> \in OpToRel(<, Nat) BY <3>1, <3>2 DEF OpToRel
    <3> QED BY <2>2, <3>2, <3>3
  <2>4. \E o \in offsets : Reached(o) /\ \A e \in 0..(o - 1) : ~Reached(e) BY <2>3
  <2>5. /\ found \in offsets /\ Reached(found) /\ \A e \in 0..(found - 1) : ~Reached(e)
    BY <1>1, <1>4, <2>4
  <2> QED BY <1>2, <2>5 DEF Reached, found, offsets
<1>5. CASE ~\E o \in offsets : Reached(o)
  <2>1. found = 0 BY <1>1, <1>5
  <2> QED BY <1>2, <1>5, <2>1 DEF Reached, found, offsets
<1> QED BY <1>4, <1>5

\* A window begins at the period its key numbers, and is found from any day in it.
LEMMA WindowReached ==
    ASSUME NEW period \in Periods, NEW t \in TaxYears, NEW n \in Int, NEW d \in Int, NEW i \in Int
    PROVE  Upto(PeriodBack(n, period, i, t), PeriodKey(d, period, t))
              <=> Number(n, period, t) - i <= Number(d, period, t)
<1>1. /\ Number(n, period, t) \in Int /\ Number(d, period, t) \in Int
      /\ PeriodKey(d, period, t) = KeyNo(Number(d, period, t), period, t)
      /\ PeriodBack(n, period, i, t) = KeyNo(Number(n, period, t) - i, period, t)
  BY PeriodsSliced DEF Sliced, Numbers, CountsBack
<1> PICK a \in Int : a = Number(n, period, t) - i BY <1>1
<1> PICK b \in Int : b = Number(d, period, t) BY <1>1
<1>2. Upto(KeyNo(a, period, t), KeyNo(b, period, t)) <=> a <= b BY PeriodsSliced DEF InOrder
<1> QED BY <1>1, <1>2

\* The window found for a day begins at the day's period; it is the most recent if
\* the day is later than its beginning, or out of reach.
LEMMA OffsetIs ==
    ASSUME NEW period \in Periods, NEW t \in TaxYears, NEW n \in Int, NEW d \in Int, NEW count \in Int
    PROVE  LET back == Number(n, period, t) - Number(d, period, t) - (count - 1)
               found == OffsetForStartDate(n, period, count, d, t)
           IN  /\ back \in Int
               /\ found = IF back \in 0..(MaxOffset - 1) THEN back ELSE 0
<1> DEFINE target == PeriodKey(d, period, t)
           Reached(o) == Upto(PeriodBack(n, period, o + count - 1, t), target)
           found == OffsetReaching(n, period, count, target, t)
           back == Number(n, period, t) - Number(d, period, t) - (count - 1)
<1>1. found \in Nat /\ found \in 0..(MaxOffset - 1) BY OffsetFinds
<1>2. found # 0 \/ (\E o \in 0..(MaxOffset - 1) : Reached(o)) =>
          Reached(found) /\ \A e \in 0..(found - 1) : ~Reached(e)
  BY OffsetFinds
<1>3. back \in Int BY PeriodsSliced DEF Sliced, Numbers
<1>4. ASSUME NEW o \in Int PROVE Reached(o) <=> back <= o
  <2> PICK i \in Int : i = o + count - 1 OBVIOUS
  <2>1. Reached(o) <=> Number(n, period, t) - i <= Number(d, period, t)
    BY WindowReached
  <2>2. Number(n, period, t) \in Int /\ Number(d, period, t) \in Int
    BY PeriodsSliced DEF Sliced, Numbers
  <2> QED BY <2>1, <2>2
<1>5. OffsetForStartDate(n, period, count, d, t) = found BY DEF OffsetForStartDate
<1> HIDE DEF target, Reached, found, back
<1> PICK last \in Nat : last = MaxOffset - 1 BY DEF MaxOffset
<1>6. CASE back \in 0..last
  <2>1. Reached(back) BY <1>4, <1>6
  <2>2. Reached(found) /\ \A e \in 0..(found - 1) : ~Reached(e) BY <1>2, <1>6, <2>1
  <2>3. back <= found BY <1>1, <1>4, <2>2
  <2>4. ~(back \in 0..(found - 1)) BY <2>1, <2>2
  <2>5. found = back BY <1>1, <1>6, <2>3, <2>4
  <2> QED BY <1>6, <2>5, <1>3, <1>5 DEF back
<1>7. CASE ~(back \in 0..last)
  <2>1. found = 0
    <3> SUFFICES ASSUME found # 0 PROVE FALSE OBVIOUS
    <3>1. Reached(found) /\ ~Reached(0) BY <1>1, <1>2
    <3>2. back <= found /\ ~(back <= 0) BY <1>1, <1>4, <3>1
    <3> QED BY <1>1, <1>3, <1>7, <3>2
  <2> QED BY <1>7, <2>1, <1>3, <1>5 DEF back
<1> QED BY <1>6, <1>7

\* The link to a window leads to that window: its offset is found from its first
\* day, for every window a page looks at (offsetForStartDate, "the inverse of
\* periodStart").
THEOREM WindowsFound ==
    ASSUME NEW period \in Periods, NEW t \in TaxYears, NEW n \in Int, NEW count \in Nat \ {0},
           NEW o \in 0..(MaxOffset - 1)
    PROVE  OffsetForStartDate(n, period, count,
               PeriodStart(PeriodWindow(n, period, count, o, t)[1], period, t), t) = o
<1> DEFINE first == Number(n, period, t) - (o + count - 1)
<1>1. Number(n, period, t) \in Int /\ o \in Int
  BY PeriodsSliced DEF Sliced, Numbers, MaxOffset
<1>2. PeriodWindow(n, period, count, o, t)[1] = KeyNo(first, period, t)
  <2>1. 1 \in 1..count OBVIOUS
  <2> QED BY <1>1, <2>1, WindowIs
<1> PICK f \in Int : f = first BY <1>1
<1> PICK d \in Int : d = FirstDay(f, period, t) BY PeriodSpan
<1>3. PeriodStart(KeyNo(f, period, t), period, t) = d /\ Number(d, period, t) = f
  BY PeriodSpan, NumberIs
<1>4. Number(n, period, t) - Number(d, period, t) - (count - 1) = o BY <1>1, <1>3
<1> HIDE DEF first
<1>5. OffsetForStartDate(n, period, count, d, t) = o BY <1>4, OffsetIs
<1> QED BY <1>2, <1>3, <1>5

-----------------------------------------------------------------------------
(* A window and the rows in it.                                              *)

\* What a page shows of one row: its key, if that is one of the window's.
KeysShown(entries, i) == {e.key : e \in {x \in entries : x.id = <<i>>}}
KeysMeant(row, keys, period, t) == {k \in Range(keys) : k = TransactionPeriodKey(row, period, t)}
Dated(row) == ~row.transfer /\ row.date \in Int
LEMMA EntryKeys ==
    ASSUME NEW r, NEW fx, NEW n \in Int, NEW period \in Periods, NEW count \in Nat, NEW o \in Nat,
           NEW t \in TaxYears, NEW i \in DOMAIN r, Dated(r[i])
    PROVE  KeysShown(Historic(r, fx, n, period, count, o, t), i)
              = KeysMeant(r[i], PeriodWindow(n, period, count, o, t), period, t)
<1> DEFINE keys == PeriodWindow(n, period, count, o, t)
           KeyOf(j) == TransactionPeriodKey(r[j], period, t)
           fetched == Fetched(r, keys, n, period, count, o)
           K(m) == KeyNo(m, period, t)
           S(m) == FirstDay(m, period, t)
           N(d) == Number(d, period, t)
<1>0. ~r[i].transfer /\ r[i].date \in Int BY DEF Dated
<1>1. Historic(r, fx, n, period, count, o, t) =
        {HistoricEntry(j, r[j], fx, KeyOf(j)) : j \in {h \in fetched : KeyOf(h) \in Range(keys)}}
  BY DEF Historic
<1>2. \A j, k : HistoricEntry(j, r[j], fx, k).id = <<j>> /\ HistoricEntry(j, r[j], fx, k).key = k
  BY DEF HistoricEntry
<1>3. ASSUME KeyOf(i) \in Range(keys) PROVE i \in fetched
  <2>1. CASE r[i].taxYear \notin {0, TaxYearEnd(r[i].date, t)} /\ period \in TaxPeriods
    <3>1. KeyOf(i)[1] = r[i].taxYear BY <2>1 DEF TransactionPeriodKey
    <3>2. r[i].taxYear \in {k[1] : k \in Range(keys)} BY <1>3, <3>1
    <3> QED BY <1>0, <2>1, <3>2 DEF Fetched
  <2>2. CASE ~(r[i].taxYear \notin {0, TaxYearEnd(r[i].date, t)} /\ period \in TaxPeriods)
    <3>1. KeyOf(i) = PeriodKey(r[i].date, period, t) BY <2>2 DEF TransactionPeriodKey
    <3>2. N(n) \in Int /\ keys = [j \in 1..count |-> K(N(n) - (o + count - j))] BY WindowIs
    <3> HIDE DEF keys, S
    <3>3. PICK j \in 1..count : KeyOf(i) = K(N(n) - (o + count - j)) BY <1>3, <3>2 DEF Range
    <3> PICK q \in Int : q = N(n) BY <3>2
    <3> PICK a \in Int : a = q - (o + count - j) OBVIOUS
    <3> PICK b \in Int : b = q - (count + o - 1) OBVIOUS
    <3>4. S(a) <= r[i].date
      <4>1. PeriodKey(r[i].date, period, t) = KeyNo(a, period, t) BY <3>1, <3>3
      <4> QED BY <1>0, <4>1, NumberIs DEF S
    <3>5. b <= a OBVIOUS
    <3>6. S(a) \in Int /\ S(b) \in Int /\ S(a) - S(b) >= a - b
      BY <3>5, PeriodsSliced DEF Sliced, Starts, Lasts, S
    <3>7. S(b) <= r[i].date BY <1>0, <3>4, <3>5, <3>6
    <3> PICK c \in Int : c = count + o OBVIOUS
    <3>8. 0 <= c OBVIOUS
    <3>9. r[i].date >= FetchCutoff(n, period, c) BY <1>0, <3>7, <3>8, CutoffReaches DEF S
    <3> QED BY <1>0, <3>9 DEF Fetched
  <2> QED BY <2>1, <2>2
<1> HIDE DEF keys, KeyOf, fetched
<1>4. \A j, h : <<j>> = <<h>> => j = h OBVIOUS
<1>5. ASSUME NEW x \in Historic(r, fx, n, period, count, o, t), x.id = <<i>>
      PROVE  x.key \in Range(keys) /\ x.key = KeyOf(i)
  <2> PICK j \in fetched : KeyOf(j) \in Range(keys) /\ x = HistoricEntry(j, r[j], fx, KeyOf(j)) BY <1>1
  <2>1. x.id = <<j>> /\ x.key = KeyOf(j) BY <1>2
  <2>2. j = i BY <1>4, <1>5, <2>1
  <2> QED BY <2>1, <2>2
<1>6. ASSUME KeyOf(i) \in Range(keys)
      PROVE  \E x \in Historic(r, fx, n, period, count, o, t) : x.id = <<i>> /\ x.key = KeyOf(i)
  <2>1. i \in fetched BY <1>3, <1>6
  <2>2. HistoricEntry(i, r[i], fx, KeyOf(i)) \in Historic(r, fx, n, period, count, o, t)
    BY <1>1, <1>6, <2>1
  <2> QED BY <1>2, <2>2
<1> QED BY <1>5, <1>6 DEF keys, KeyOf, KeysShown, KeysMeant

\* A row is in the period that begins at or before its date and ends after it.
LEMMA InPeriod ==
    ASSUME NEW period \in Periods, NEW t \in TaxYears, NEW m \in Int, NEW d \in Int
    PROVE  KeyNo(m, period, t) = PeriodKey(d, period, t)
              <=> /\ PeriodStart(KeyNo(m, period, t), period, t) <= d
                  /\ d < PeriodEnd(KeyNo(m, period, t), period, t)
BY NumberIs, PeriodSpan

\* The last period of a tax year is the one after which another year has begun.
LastOf(period) ==
    CASE period = "taxyear" -> 0 [] period = "taxquarter" -> 4 [] period = "taxmonth" -> 12
LEMMA ClosesYear ==
    ASSUME NEW period \in TaxPeriods, NEW t \in TaxYears, NEW m \in Int, NEW y \in Int
    PROVE  KeyNo(m, period, t) = <<y, LastOf(period)>>
              <=> /\ KeyNo(m, period, t)[1] = y
                  /\ PeriodKey(PeriodEnd(KeyNo(m, period, t), period, t), period, t)[1] > y
<1> PICK q \in Int : q = m + 1 OBVIOUS
<1>0. period \in Periods BY DEF Periods
<1>1. PeriodKey(PeriodEnd(KeyNo(m, period, t), period, t), period, t) = KeyNo(q, period, t)
  BY <1>0, PeriodSpan
<1>2. CASE period = "taxyear"
  <2>1. \A i : KeyNo(i, period, t) = <<i, 0>> BY <1>2 DEF KeyNo
  <2>2. LastOf(period) = 0 BY <1>2 DEF LastOf
  <2> QED BY <1>1, <2>1, <2>2
<1>3. CASE period = "taxquarter"
  <2>1. \A i : KeyNo(i, period, t) = <<i \div 4, (i % 4) + 1>> BY <1>3 DEF KeyNo, Numbered
  <2>2. m \div 4 = y /\ (m % 4) + 1 = 4 <=> m \div 4 = y /\ q \div 4 > y OBVIOUS
  <2>3. LastOf(period) = 4 BY <1>3 DEF LastOf
  <2> QED BY <1>1, <2>1, <2>2, <2>3
<1>4. CASE period = "taxmonth"
  <2>1. \A i : KeyNo(i, period, t) = <<i \div 12, (i % 12) + 1>> BY <1>4 DEF KeyNo, Numbered
  <2>2. m \div 12 = y /\ (m % 12) + 1 = 12 <=> m \div 12 = y /\ q \div 12 > y OBVIOUS
  <2>3. LastOf(period) = 12 BY <1>4 DEF LastOf
  <2> QED BY <1>1, <2>1, <2>2, <2>3
<1> QED BY <1>2, <1>3, <1>4 DEF TaxPeriods

-----------------------------------------------------------------------------
(* Sums over finite sets.                                                    *)

\* Among finite sets there is one with no other of them inside: what a smallest
\* counterexample rules out holds of every finite set.
LEMMA Smallest ==
    ASSUME NEW bad, bad # {}, \A s \in bad : IsFiniteSet(s)
    PROVE  \E s \in bad : \A u \in SUBSET s : u \in bad => u = s
<1> DEFINE sizes == {Cardinality(s) : s \in bad}
<1>1. sizes \subseteq Nat /\ sizes # {} BY FS_CardinalityType
<1>2. PICK n \in sizes : \A m \in sizes : ~(<<m, n>> \in OpToRel(<, Nat))
  BY <1>1, NatLessThanWellFounded, WFMin
<1>3. PICK s \in bad : Cardinality(s) = n OBVIOUS
<1>4. ASSUME NEW u \in SUBSET s, u \in bad, u # s PROVE FALSE
  <2>1. Cardinality(u) < Cardinality(s) /\ Cardinality(u) \in Nat /\ Cardinality(s) \in Nat
    BY <1>4, FS_Subset, FS_CardinalityType
  <2>2. <<Cardinality(u), n>> \in OpToRel(<, Nat) BY <1>3, <2>1 DEF OpToRel
  <2> QED BY <1>2, <1>4, <2>2
<1> QED BY <1>4

\* The fold of MapThenSumSet over a set, with the values in a function.
Picked(s) == CHOOSE x \in s : TRUE
Folded(g, f, S) ==
    g = [s \in SUBSET S |-> IF s = {} THEN 0 ELSE f[Picked(s)] + g[s \ {Picked(s)}]]
SumOf(f, S) == (CHOOSE g : Folded(g, f, S))[S]

LEMMA PickedIn == ASSUME NEW s, s # {} PROVE Picked(s) \in s
BY DEF Picked

LEMMA FoldedAt ==
    ASSUME NEW f, NEW S, NEW g, Folded(g, f, S), NEW s \in SUBSET S
    PROVE  g[s] = IF s = {} THEN 0 ELSE f[Picked(s)] + g[s \ {Picked(s)}]
BY DEF Folded

LEMMA FoldedFrom ==
    ASSUME NEW f, NEW S, NEW g, g = [s \in SUBSET S |-> g[s]],
           \A s \in SUBSET S : g[s] = IF s = {} THEN 0 ELSE f[Picked(s)] + g[s \ {Picked(s)}]
    PROVE  Folded(g, f, S)
BY Zenon DEF Folded

LEMMA FoldedOnce ==
    ASSUME NEW f, NEW S, IsFiniteSet(S), NEW g, NEW h, Folded(g, f, S), Folded(h, f, S)
    PROVE  g = h
<1> DEFINE bad == {s \in SUBSET S : g[s] # h[s]}
<1>1. bad = {}
  <2> SUFFICES ASSUME bad # {} PROVE FALSE OBVIOUS
  <2>1. bad # {} /\ \A s \in bad : IsFiniteSet(s) BY FS_Subset
  <2>s. \E s \in bad : \A u \in SUBSET s : u \in bad => u = s
    <3> HIDE DEF bad
    <3> QED BY <2>1, Smallest
  <2> PICK s \in bad : \A u \in SUBSET s : u \in bad => u = s BY <2>s
  <2> DEFINE rest == s \ {Picked(s)}
  <2>2. s # {} BY FoldedAt
  <2>3. rest \in SUBSET s /\ rest # s /\ rest \in SUBSET S BY <2>2, PickedIn
  <2>4. g[rest] = h[rest] BY <2>3
  <2> QED BY <2>2, <2>4, FoldedAt
<1>2. g = [s \in SUBSET S |-> g[s]] /\ h = [s \in SUBSET S |-> h[s]] BY DEF Folded
<1>3. \A s \in SUBSET S : g[s] = h[s] BY <1>1
<1> HIDE DEF bad
<1> QED BY <1>2, <1>3, Zenon

Summable(f, S) == \E g : Folded(g, f, S)

LEMMA FoldedWithin ==
    ASSUME NEW f, NEW S, IsFiniteSet(S), NEW T \in SUBSET S, NEW g, Folded(g, f, S)
    PROVE  Summable(f, T) /\ SumOf(f, T) = g[T]
<1> DEFINE h == [s \in SUBSET T |-> g[s]]
<1>1. Folded(h, f, T)
  <2>1. ASSUME NEW s \in SUBSET T
        PROVE  h[s] = IF s = {} THEN 0 ELSE f[Picked(s)] + h[s \ {Picked(s)}]
    <3>1. h[s] = g[s] /\ h[s \ {Picked(s)}] = g[s \ {Picked(s)}] OBVIOUS
    <3>2. s \in SUBSET S OBVIOUS
    <3> HIDE DEF h
    <3> QED BY <3>1, <3>2, FoldedAt
  <2>2. h = [s \in SUBSET T |-> h[s]] OBVIOUS
  <2> HIDE DEF h
  <2> QED BY <2>1, <2>2, FoldedFrom
<1>2. IsFiniteSet(T) BY FS_Subset
<1> HIDE DEF h
<1>3. (CHOOSE k : Folded(k, f, T)) = h BY <1>1, <1>2, FoldedOnce
<1>4. h[T] = g[T] BY DEF h
<1> QED BY <1>1, <1>3, <1>4 DEF Summable, SumOf

LEMMA SumUnfolds ==
    ASSUME NEW f, NEW S, IsFiniteSet(S), Summable(f, S)
    PROVE  SumOf(f, S) = IF S = {} THEN 0 ELSE f[Picked(S)] + SumOf(f, S \ {Picked(S)})
<1> PICK g : Folded(g, f, S) BY DEF Summable
<1>1. SumOf(f, S) = g[S] BY FoldedWithin
<1>2. SumOf(f, S \ {Picked(S)}) = g[S \ {Picked(S)}] BY FoldedWithin
<1> QED BY <1>1, <1>2, FoldedAt

LEMMA AllSummable ==
    ASSUME NEW f, NEW S, IsFiniteSet(S)
    PROVE  Summable(f, S)
<1> DEFINE bad == {s \in SUBSET S : ~Summable(f, s)}
<1> SUFFICES bad = {} OBVIOUS
<1> SUFFICES ASSUME bad # {} PROVE FALSE OBVIOUS
<1>1. \A s \in bad : IsFiniteSet(s) BY FS_Subset
<1>s. \E s \in bad : \A u \in SUBSET s : u \in bad => u = s
  <2> HIDE DEF bad
  <2> QED BY <1>1, Smallest
<1> PICK T \in bad : \A u \in SUBSET T : u \in bad => u = T BY <1>s
<1>2. IsFiniteSet(T) BY <1>1
<1> DEFINE sum(s) == IF s = {} THEN 0 ELSE f[Picked(s)] + SumOf(f, s \ {Picked(s)})
           g == [s \in SUBSET T |-> sum(s)]
<1>3. ASSUME NEW u \in SUBSET T, u # T PROVE SumOf(f, u) = sum(u)
  <2>1. Summable(f, u) BY <1>3
  <2>2. IsFiniteSet(u) BY <1>2, FS_Subset
  <2> QED BY <2>1, <2>2, SumUnfolds
<1>4. ASSUME NEW s \in SUBSET T, s # {} PROVE g[s \ {Picked(s)}] = SumOf(f, s \ {Picked(s)})
  <2>1. s \ {Picked(s)} \in SUBSET T /\ s \ {Picked(s)} # T BY <1>4, PickedIn
  <2> QED BY <1>3, <2>1
<1>5. ASSUME NEW s \in SUBSET T
      PROVE  g[s] = IF s = {} THEN 0 ELSE f[Picked(s)] + g[s \ {Picked(s)}]
  <2>1. CASE s = {} BY <2>1
  <2>2. CASE s # {}
    <3>1. g[s] = f[Picked(s)] + SumOf(f, s \ {Picked(s)}) BY <2>2
    <3> HIDE DEF g
    <3> QED BY <1>4, <2>2, <3>1
  <2> QED BY <2>1, <2>2
<1>6. g = [s \in SUBSET T |-> g[s]] OBVIOUS
<1> HIDE DEF g
<1>7. Folded(g, f, T)
  <2> HIDE DEF sum, bad
  <2> QED BY <1>5, <1>6, FoldedFrom
<1> QED BY <1>7 DEF Summable

LEMMA SumNone == ASSUME NEW f PROVE SumOf(f, {}) = 0
<1>1. IsFiniteSet({}) BY FS_EmptySet
<1> PICK g : Folded(g, f, {}) BY <1>1, AllSummable DEF Summable
<1>2. SumOf(f, {}) = g[{}] BY <1>1, FoldedWithin
<1> QED BY <1>2, FoldedAt

LEMMA SumPicked ==
    ASSUME NEW f, NEW S, IsFiniteSet(S), S # {}
    PROVE  SumOf(f, S) = f[Picked(S)] + SumOf(f, S \ {Picked(S)})
BY AllSummable, SumUnfolds

LEMMA SumTyped ==
    ASSUME NEW f, NEW S, IsFiniteSet(S), \A x \in S : f[x] \in Int
    PROVE  SumOf(f, S) \in Int
<1> DEFINE bad == {s \in SUBSET S : SumOf(f, s) \notin Int}
<1> SUFFICES ASSUME bad # {} PROVE FALSE OBVIOUS
<1>1. \A s \in bad : IsFiniteSet(s) BY FS_Subset
<1>s. \E s \in bad : \A u \in SUBSET s : u \in bad => u = s
  <2> HIDE DEF bad
  <2> QED BY <1>1, Smallest
<1> PICK s \in bad : \A u \in SUBSET s : u \in bad => u = s BY <1>s
<1>2. s # {}
  <2>1. 0 \in Int /\ SumOf(f, s) \notin Int OBVIOUS
  <2> QED BY <2>1, SumNone
<1>3. Picked(s) \in s BY <1>2, PickedIn
<1>4. SumOf(f, s \ {Picked(s)}) \in Int BY <1>3
<1>5. SumOf(f, s) = f[Picked(s)] + SumOf(f, s \ {Picked(s)}) BY <1>1, <1>2, SumPicked
<1> QED BY <1>3, <1>4, <1>5

LEMMA SumSame ==
    ASSUME NEW f, NEW g, NEW S, IsFiniteSet(S), \A x \in S : f[x] = g[x]
    PROVE  SumOf(f, S) = SumOf(g, S)
<1> DEFINE bad == {s \in SUBSET S : SumOf(f, s) # SumOf(g, s)}
<1> SUFFICES ASSUME bad # {} PROVE FALSE OBVIOUS
<1>1. \A s \in bad : IsFiniteSet(s) BY FS_Subset
<1>s. \E s \in bad : \A u \in SUBSET s : u \in bad => u = s
  <2> HIDE DEF bad
  <2> QED BY <1>1, Smallest
<1> PICK s \in bad : \A u \in SUBSET s : u \in bad => u = s BY <1>s
<1>2. s # {} BY SumNone
<1>3. Picked(s) \in s BY <1>2, PickedIn
<1>4. SumOf(f, s \ {Picked(s)}) = SumOf(g, s \ {Picked(s)}) BY <1>3
<1>5. SumOf(f, s) = f[Picked(s)] + SumOf(f, s \ {Picked(s)}) BY <1>1, <1>2, SumPicked
<1>6. SumOf(g, s) = g[Picked(s)] + SumOf(g, s \ {Picked(s)}) BY <1>1, <1>2, SumPicked
<1> QED BY <1>3, <1>4, <1>5, <1>6

\* Whichever is taken first.
LEMMA SumWith ==
    ASSUME NEW f, NEW S, IsFiniteSet(S), \A x \in S : f[x] \in Int, NEW x \in S
    PROVE  SumOf(f, S) = f[x] + SumOf(f, S \ {x})
<1> DEFINE bad == {s \in SUBSET S : \E y \in s : SumOf(f, s) # f[y] + SumOf(f, s \ {y})}
<1> SUFFICES ASSUME bad # {} PROVE FALSE OBVIOUS
<1>1. \A s \in SUBSET S : IsFiniteSet(s) BY FS_Subset
<1>11. \A s \in bad : IsFiniteSet(s) BY <1>1
<1>s. \E s \in bad : \A u \in SUBSET s : u \in bad => u = s
  <2> HIDE DEF bad
  <2> QED BY <1>11, Smallest
<1> PICK s \in bad : \A u \in SUBSET s : u \in bad => u = s BY <1>s
<1> PICK y \in s : SumOf(f, s) # f[y] + SumOf(f, s \ {y}) OBVIOUS
<1> DEFINE c == Picked(s)
           both == s \ {c, y}
<1>2. c \in s BY PickedIn
<1>3. SumOf(f, s) = f[c] + SumOf(f, s \ {c}) BY <1>1, SumPicked
<1>4. c # y BY <1>3
<1>5. SumOf(f, s \ {c}) = f[y] + SumOf(f, both)
  <2>1. s \ {c} \notin bad /\ y \in s \ {c} BY <1>2, <1>4
  <2>2. (s \ {c}) \ {y} = both OBVIOUS
  <2> HIDE DEF c, both
  <2> QED BY <2>1, <2>2
<1>6. SumOf(f, s \ {y}) = f[c] + SumOf(f, both)
  <2>1. s \ {y} \notin bad /\ c \in s \ {y} BY <1>2, <1>4
  <2>2. (s \ {y}) \ {c} = both OBVIOUS
  <2> HIDE DEF c, both
  <2> QED BY <2>1, <2>2
<1>7. f[c] \in Int /\ f[y] \in Int BY <1>2
<1>8. SumOf(f, both) \in Int BY <1>1, SumTyped
<1> HIDE DEF c, both
<1> QED BY <1>3, <1>5, <1>6, <1>7, <1>8

LEMMA SumApart ==
    ASSUME NEW f, NEW S, IsFiniteSet(S), \A x \in S : f[x] \in Int,
           NEW A \in SUBSET S, NEW B \in SUBSET S, A \cap B = {}
    PROVE  SumOf(f, A \cup B) = SumOf(f, A) + SumOf(f, B)
<1> DEFINE bad == {s \in SUBSET A : SumOf(f, s \cup B) # SumOf(f, s) + SumOf(f, B)}
<1> SUFFICES ASSUME bad # {} PROVE FALSE OBVIOUS
<1>1. \A s \in SUBSET S : IsFiniteSet(s) /\ SumOf(f, s) \in Int BY FS_Subset, SumTyped
<1>2. \A s \in bad : IsFiniteSet(s) BY <1>1
<1>s. \E s \in bad : \A u \in SUBSET s : u \in bad => u = s
  <2> HIDE DEF bad
  <2> QED BY <1>2, Smallest
<1> PICK s \in bad : \A u \in SUBSET s : u \in bad => u = s BY <1>s
<1>3. s # {}
  <2>1. SumOf(f, s \cup B) # SumOf(f, s) + SumOf(f, B) OBVIOUS
  <2> HIDE DEF bad
  <2>2. s = {} => s \cup B = B OBVIOUS
  <2>3. SumOf(f, {}) = 0 /\ SumOf(f, B) \in Int BY <1>1, SumNone
  <2> SUFFICES ASSUME s = {} PROVE FALSE OBVIOUS
  <2>4. SumOf(f, s \cup B) = SumOf(f, B) /\ SumOf(f, s) = 0 BY <2>2, <2>3
  <2> QED BY <2>1, <2>3, <2>4
<1> PICK x \in s : TRUE BY <1>3
<1>4. SumOf(f, (s \ {x}) \cup B) = SumOf(f, s \ {x}) + SumOf(f, B) OBVIOUS
<1>5. SumOf(f, s) = f[x] + SumOf(f, s \ {x})
  <2>1. s \in SUBSET S OBVIOUS
  <2> HIDE DEF bad
  <2> QED BY <1>1, <2>1, SumWith
<1>6. SumOf(f, s \cup B) = f[x] + SumOf(f, (s \ {x}) \cup B)
  <2>1. s \cup B \in SUBSET S /\ x \in s \cup B /\ (s \cup B) \ {x} = (s \ {x}) \cup B OBVIOUS
  <2> QED BY <1>1, <2>1, SumWith
<1>7. f[x] \in Int /\ SumOf(f, s \ {x}) \in Int /\ SumOf(f, B) \in Int BY <1>1
<1> QED BY <1>4, <1>5, <1>6, <1>7

\* Added up by parts.
LEMMA SumByParts ==
    ASSUME NEW f, NEW S, IsFiniteSet(S), \A x \in S : f[x] \in Int,
           NEW R, IsFiniteSet(R), NEW part \in [R -> SUBSET S],
           \A x \in S : \E r \in R : x \in part[r],
           \A q, r \in R : q # r => part[q] \cap part[r] = {}
    PROVE  SumOf([r \in R |-> SumOf(f, part[r])], R) = SumOf(f, S)
<1> DEFINE sums == [r \in R |-> SumOf(f, part[r])]
           All(Q) == UNION {part[r] : r \in Q}
           bad == {Q \in SUBSET R : SumOf(sums, Q) # SumOf(f, All(Q))}
<1>0. All(R) = S OBVIOUS
<1>00. R \in SUBSET R OBVIOUS
<1> HIDE DEF sums
<1> SUFFICES bad = {} BY <1>0, <1>00, Zenon DEF sums
<1> SUFFICES ASSUME bad # {} PROVE FALSE OBVIOUS
<1>1. \A Q \in SUBSET R : IsFiniteSet(Q) BY FS_Subset
<1>11. \A Q \in bad : IsFiniteSet(Q) BY <1>1
<1>2. \A s \in SUBSET S : IsFiniteSet(s) /\ SumOf(f, s) \in Int BY FS_Subset, SumTyped
<1>s. \E s \in bad : \A u \in SUBSET s : u \in bad => u = s
  <2> HIDE DEF bad
  <2> QED BY <1>11, Smallest
<1> PICK Q \in bad : \A u \in SUBSET Q : u \in bad => u = Q BY <1>s
<1>3. Q # {}
  <2>1. All({}) = {} OBVIOUS
  <2> QED BY <2>1, SumNone
<1> PICK r \in Q : TRUE BY <1>3
<1>4. r \in R /\ part[r] \in SUBSET S /\ All(Q \ {r}) \in SUBSET S /\ All(Q) \in SUBSET S OBVIOUS
<1>5. SumOf(sums, Q \ {r}) = SumOf(f, All(Q \ {r})) OBVIOUS
<1>6. \A q \in R : sums[q] = SumOf(f, part[q]) BY DEF sums
<1>7. SumOf(sums, Q) = sums[r] + SumOf(sums, Q \ {r})
  <2>1. \A q \in Q : sums[q] \in Int BY <1>2, <1>6
  <2> QED BY <1>1, <2>1, SumWith
<1>8. SumOf(f, All(Q)) = SumOf(f, part[r]) + SumOf(f, All(Q \ {r}))
  <2>1. part[r] \cap All(Q \ {r}) = {} OBVIOUS
  <2>2. part[r] \cup All(Q \ {r}) = All(Q) OBVIOUS
  <2> HIDE DEF All, bad
  <2>3. SumOf(f, part[r] \cup All(Q \ {r})) = SumOf(f, part[r]) + SumOf(f, All(Q \ {r}))
    <3>1. \A A, B \in SUBSET S : A \cap B = {} => SumOf(f, A \cup B) = SumOf(f, A) + SumOf(f, B)
      BY SumApart
    <3> QED BY <1>4, <2>1, <3>1
  <2> QED BY <2>2, <2>3
<1> QED BY <1>4, <1>5, <1>6, <1>7, <1>8

-----------------------------------------------------------------------------
(* Amounts.                                                                  *)

\* Of finitely many numbers one is the greatest.
LEMMA GreatestOf ==
    ASSUME NEW S, IsFiniteSet(S), S # {}, S \subseteq Int
    PROVE  \E m \in S : \A n \in S : n <= m
<1> DEFINE bad == {s \in SUBSET S : s # {} /\ ~\E m \in s : \A n \in s : n <= m}
<1> SUFFICES ASSUME bad # {} PROVE FALSE OBVIOUS
<1>1. \A s \in bad : IsFiniteSet(s) BY FS_Subset
<1>2. \E s \in bad : \A u \in SUBSET s : u \in bad => u = s
  <2> HIDE DEF bad
  <2> QED BY <1>1, Smallest
<1> PICK s \in bad : \A u \in SUBSET s : u \in bad => u = s BY <1>2
<1>3. s \in SUBSET S /\ s # {} /\ ~\E m \in s : \A n \in s : n <= m BY Zenon
<1> PICK m : m \in s BY <1>3
<1>4. CASE s = {m}
  <2>1. m \in Int BY <1>3
  <2> QED BY <1>3, <1>4, <2>1
<1>5. CASE s # {m}
  <2>1. s \ {m} # {} BY <1>5
  <2>2. s \ {m} \in SUBSET s /\ s \ {m} # s /\ s \ {m} \in SUBSET S BY <1>3
  <2>3. s \ {m} \notin bad
    <3> HIDE DEF bad
    <3> QED BY <2>2
  <2>4. \E k \in s \ {m} : \A n \in s \ {m} : n <= k BY <2>1, <2>2, <2>3
  <2> PICK k \in s \ {m} : \A n \in s \ {m} : n <= k BY <2>4
  <2>5. k \in Int /\ m \in Int /\ \A n \in s : n \in Int BY <1>3
  <2>6. (\A n \in s : n <= k) \/ (\A n \in s : n <= m) BY <2>5
  <2> QED BY <1>3, <2>6
<1> QED BY <1>4, <1>5

LEMMA RateTyped ==
    ASSUME NEW c, NEW day \in Int
    PROVE  RateOn(Fx.rates, c, day) \in Nat
<1> DEFINE known == {r \in Fx.rates : r.currency = c /\ r.day <= day}
           days == {r.day : r \in known}
           latest == CHOOSE r \in known : \A s \in known : s.day <= r.day
<1>1. CASE c = FxBase BY <1>1 DEF RateOn
<1>2. CASE c # FxBase /\ known = {} BY <1>2 DEF RateOn
<1>3. CASE c # FxBase /\ known # {}
  <2>1. IsFiniteSet(known) /\ \A r \in known : r.day \in Int /\ r.rate \in Nat
    BY FxAssumption, FS_Subset
  <2>2. IsFiniteSet(days)
    <3> DEFINE dayOf == [r \in known |-> r.day]
    <3>1. dayOf \in Surjection(known, days) BY DEF Surjection
    <3> QED BY <2>1, <3>1, FS_Surjection
  <2>3. days # {} /\ days \subseteq Int BY <1>3, <2>1
  <2>4. \E m \in days : \A n \in days : n <= m
    <3> HIDE DEF days
    <3> QED BY <2>2, <2>3, GreatestOf
  <2>5. \E r \in known : \A s \in known : s.day <= r.day BY <2>4
  <2>6. latest \in known BY <2>5
  <2>7. RateOn(Fx.rates, c, day) = latest.rate BY <1>3 DEF RateOn
  <2> HIDE DEF latest, known
  <2> QED BY <2>1, <2>6, <2>7
<1> QED BY <1>1, <1>2, <1>3

LEMMA DisplayTyped ==
    ASSUME NEW amount \in Int, NEW currency, NEW day \in Int
    PROVE  ToDisplay(Fx, amount, currency, day) \in Int
<1> PICK from \in Nat : from = RateOn(Fx.rates, currency, day) BY RateTyped
<1> PICK to \in Nat : to = RateOn(Fx.rates, Fx.display, day) BY RateTyped
<1>1. ToDisplay(Fx, amount, currency, day)
        = IF currency \in {Unset, Fx.display} \/ 0 \in {from, to} THEN amount
          ELSE (amount * to) \div from
  BY DEF ToDisplay
<1> PICK v \in Int : v = amount * to OBVIOUS
<1>2. from # 0 => v \div from \in Int OBVIOUS
<1> QED BY <1>1, <1>2

-----------------------------------------------------------------------------
(* The entries of a window.                                                  *)

Valued(entries) == IsFiniteSet(entries) /\ \A e \in entries : e.value \in Int
LEMMA EntriesTyped ==
    ASSUME NEW r, IsFiniteSet(DOMAIN r), r \in [DOMAIN r -> Recorded],
           NEW n, NEW period, NEW count, NEW o, NEW t
    PROVE  LET entries == Historic(r, Fx, n, period, count, o, t)
           IN  /\ Valued(entries)
               /\ \A e \in entries : e.side \in {"in", "out"}
               /\ \A e \in entries : e.side = "in" => e.group \in IncomeGroups \cup {Unset}
<1> DEFINE KeyOf(i) == TransactionPeriodKey(r[i], period, t)
           ids == {j \in Fetched(r, PeriodWindow(n, period, count, o, t), n, period, count, o) :
                      KeyOf(j) \in Range(PeriodWindow(n, period, count, o, t))}
           entry == [i \in ids |-> HistoricEntry(i, r[i], Fx, KeyOf(i))]
           entries == Historic(r, Fx, n, period, count, o, t)
<1>1. entries = {HistoricEntry(i, r[i], Fx, KeyOf(i)) : i \in ids} BY DEF Historic
<1>2. ids \in SUBSET DOMAIN r BY DEF Fetched
<1> HIDE DEF ids, KeyOf
<1>3. entries = {entry[i] : i \in ids} BY <1>1
<1>4. IsFiniteSet(entries)
  <2>1. entry \in Surjection(ids, entries) BY <1>3 DEF Surjection
  <2>2. IsFiniteSet(ids) BY <1>2, FS_Subset
  <2> HIDE DEF entry, entries
  <2> QED BY <2>1, <2>2, FS_Surjection
<1>5. ASSUME NEW e \in entries
      PROVE  /\ e.value \in Int /\ e.side \in {"in", "out"}
             /\ e.side = "in" => e.group \in IncomeGroups \cup {Unset}
  <2> PICK i \in ids : e = HistoricEntry(i, r[i], Fx, KeyOf(i)) BY <1>1
  <2>1. r[i] \in Recorded BY <1>2
  <2> PICK k : k = KeyOf(i) OBVIOUS
  <2> PICK row \in Recorded : row = r[i] BY <2>1
  <2> PICK signed \in Int : signed = ToDisplay(Fx, row.amount, row.currency, row.date)
    BY DisplayTyped DEF Recorded
  <2>2. /\ e.value = signed \/ e.value = 0 - signed
        /\ e.side = IF (IF row.group = Unset THEN signed > 0 ELSE row.group \in IncomeGroups)
                    THEN "in" ELSE "out"
        /\ (IF row.group = Unset THEN signed > 0 ELSE row.group \in IncomeGroups)
              => e.group = row.group
    BY DEF HistoricEntry
  <2> QED BY <2>2
<1> QED BY <1>4, <1>5 DEF Valued

-----------------------------------------------------------------------------
(* Sums of entries.                                                          *)

ValueOf(S) == [e \in S |-> e.value]
LEMMA SumIs ==
    ASSUME NEW S, IsFiniteSet(S)
    PROVE  Sum(S) = SumOf(ValueOf(S), S)
<1> DEFINE Body(g) == g = [s \in SUBSET S |-> IF s = {} THEN 0
                          ELSE (CHOOSE x \in s : TRUE).value + g[s \ {CHOOSE x \in s : TRUE}]]
<1>1. Sum(S) = (CHOOSE g : Body(g))[S] BY DEF MapThenSumSet, MapThenFoldSet, Sum
<1>2. ASSUME NEW g PROVE Body(g) <=> Folded(g, ValueOf(S), S)
  <2>1. \A s \in SUBSET S : s # {} => ValueOf(S)[Picked(s)] = (CHOOSE x \in s : TRUE).value
    BY PickedIn DEF ValueOf, Picked
  <2> QED BY <2>1 DEF Folded, Picked
<1> HIDE DEF Body
<1>3. \E g : Body(g) BY <1>2, AllSummable DEF Summable
<1> PICK g : g = CHOOSE h : Body(h) OBVIOUS
<1>4. Folded(g, ValueOf(S), S) BY <1>2, <1>3
<1>5. S \in SUBSET S OBVIOUS
<1> QED BY <1>1, <1>4, <1>5, FoldedWithin

-----------------------------------------------------------------------------
(* The income table.                                                         *)

RowsSum(in, R) == MapThenSumSet(LAMBDA r : RowTotal(in, r), R)
LEMMA RowsSumIs ==
    ASSUME NEW in, NEW R, IsFiniteSet(R)
    PROVE  RowsSum(in, R) = SumOf([r \in R |-> RowTotal(in, r)], R)
<1> DEFINE f == [r \in R |-> RowTotal(in, r)]
           Body(g) == g = [s \in SUBSET R |-> IF s = {} THEN 0
                              ELSE RowTotal(in, CHOOSE x \in s : TRUE) + g[s \ {CHOOSE x \in s : TRUE}]]
<1>1. RowsSum(in, R) = (CHOOSE g : Body(g))[R] BY DEF MapThenSumSet, MapThenFoldSet, RowsSum
<1>2. ASSUME NEW g PROVE Body(g) <=> Folded(g, f, R)
  <2>1. \A s \in SUBSET R : s # {} => f[Picked(s)] = RowTotal(in, CHOOSE x \in s : TRUE)
    BY PickedIn DEF Picked
  <2> HIDE DEF f
  <2> QED BY <2>1 DEF Folded, Picked
<1> HIDE DEF Body, f
<1>3. \E g : Body(g) BY <1>2, AllSummable DEF Summable
<1> PICK g : g = CHOOSE h : Body(h) OBVIOUS
<1>4. Folded(g, f, R) BY <1>2, <1>3
<1>5. R \in SUBSET R OBVIOUS
<1>6. SumOf(f, R) = g[R] BY <1>4, <1>5, FoldedWithin
<1> QED BY <1>1, <1>6 DEF f

\* What is added up by parts of a set of entries comes to the whole of it.
LEMMA Regrouped ==
    ASSUME NEW S, Valued(S), NEW R, IsFiniteSet(R), NEW part \in [R -> SUBSET S],
           \A e \in S : \E r \in R : e \in part[r],
           \A q, r \in R : q # r => part[q] \cap part[r] = {}
    PROVE  SumOf([r \in R |-> Sum(part[r])], R) = Sum(S)
<1> DEFINE f == ValueOf(S)
<1>1. IsFiniteSet(S) /\ \A e \in S : f[e] \in Int BY DEF Valued, ValueOf
<1>2. ASSUME NEW T \in SUBSET S PROVE Sum(T) = SumOf(f, T)
  <2>1. IsFiniteSet(T) BY <1>1, FS_Subset
  <2>2. \A e \in T : ValueOf(T)[e] = f[e] BY DEF ValueOf
  <2> QED BY <2>1, <2>2, SumIs, SumSame
<1> HIDE DEF f
<1>3. SumOf([r \in R |-> SumOf(f, part[r])], R) = SumOf(f, S) BY <1>1, SumByParts
<1>4. [r \in R |-> SumOf(f, part[r])] = [r \in R |-> Sum(part[r])] BY <1>2
<1> QED BY <1>2, <1>3, <1>4

\* Every income row of a period is under one row of the table.
LEMMA IncomeTold ==
    ASSUME NEW in, Valued(in),
           \A e \in in : e.side = "in" => e.group \in IncomeGroups \cup {Unset}
    PROVE  RowsSum(in, IncomeRows(in, IncomeGroups)) = SideTotal(in, "in")
<1> DEFINE Under(g) == {l \in IncomeLabels(in) : IncomeGroupOf(in, l) = g}
           R == IncomeRows(in, IncomeGroups)
           S == {e \in in : e.side = "in"}
           part == [r \in R |-> {e \in in : e.side = "in" /\ e.label \in r.under}]
<1>1. R = {[row |-> g, under |-> Under(g)] : g \in IncomeGroups}
           \cup {[row |-> l, under |-> {l}] : l \in Under(Unset)}
  BY DEF IncomeRows
<1>2. ASSUME NEW l \in IncomeLabels(in) PROVE IncomeGroupOf(in, l) \in IncomeGroups \cup {Unset}
  <2>1. \E e \in in : e.side = "in" /\ e.label = l BY DEF IncomeLabels
  <2> PICK e : e = CHOOSE x \in in : x.side = "in" /\ x.label = l OBVIOUS
  <2>2. e \in in /\ e.side = "in" BY <2>1
  <2> QED BY <2>2 DEF IncomeGroupOf
<1>3. Unset \notin IncomeGroups BY DEF IncomeGroups, Unset, PeriodicIncome, OtherIncomeGroup
<1>4. IsFiniteSet(S) /\ Valued(S) BY FS_Subset DEF Valued
<1>5. IsFiniteSet(R)
  <2> DEFINE L == Under(Unset)
             top == [g \in IncomeGroups |-> [row |-> g, under |-> Under(g)]]
             alone == [l \in L |-> [row |-> l, under |-> {l}]]
             labelOf == [e \in S |-> e.label]
  <2>1. IsFiniteSet(IncomeLabels(in))
    <3>1. labelOf \in Surjection(S, IncomeLabels(in)) BY DEF Surjection, IncomeLabels
    <3> QED BY <1>4, <3>1, FS_Surjection
  <2>2. IsFiniteSet(L)
    <3>1. L \in SUBSET IncomeLabels(in) OBVIOUS
    <3> QED BY <2>1, <3>1, FS_Subset
  <2>3. IsFiniteSet(IncomeGroups)
    <3>1. IsFiniteSet({PeriodicIncome}) BY FS_Singleton
    <3>2. IncomeGroups = {PeriodicIncome} \cup {OtherIncomeGroup} BY DEF IncomeGroups
    <3> QED BY <3>1, <3>2, FS_AddElement
  <2>4. IsFiniteSet({[row |-> g, under |-> Under(g)] : g \in IncomeGroups})
    <3>1. top \in Surjection(IncomeGroups, {[row |-> g, under |-> Under(g)] : g \in IncomeGroups})
      BY DEF Surjection
    <3> QED BY <2>3, <3>1, FS_Surjection
  <2>5. IsFiniteSet({[row |-> l, under |-> {l}] : l \in L})
    <3>1. alone \in Surjection(L, {[row |-> l, under |-> {l}] : l \in L}) BY DEF Surjection
    <3> QED BY <2>2, <3>1, FS_Surjection
  <2> QED BY <1>1, <2>4, <2>5, FS_Union
<1> HIDE DEF R
<1>6. part \in [R -> SUBSET S] OBVIOUS
<1>7. ASSUME NEW e \in S PROVE \E r \in R : e \in part[r]
  <2>1. e.label \in IncomeLabels(in) BY DEF IncomeLabels
  <2>2. CASE IncomeGroupOf(in, e.label) = Unset
    <3> DEFINE r == [row |-> e.label, under |-> {e.label}]
    <3>1. r \in R BY <1>1, <2>1, <2>2
    <3>2. e.label \in r.under OBVIOUS
    <3> QED BY <3>1, <3>2
  <2>3. CASE IncomeGroupOf(in, e.label) \in IncomeGroups
    <3> DEFINE r == [row |-> IncomeGroupOf(in, e.label), under |-> Under(IncomeGroupOf(in, e.label))]
    <3>1. r \in R BY <1>1, <2>3
    <3>2. e.label \in r.under BY <2>1
    <3> QED BY <3>1, <3>2
  <2> QED BY <1>2, <2>1, <2>2, <2>3
<1>8. ASSUME NEW q \in R, NEW r \in R, q # r PROVE part[q] \cap part[r] = {}
  <2> SUFFICES ASSUME NEW l \in q.under, l \in r.under PROVE FALSE OBVIOUS
  <2>1. (\E g \in IncomeGroups : q = [row |-> g, under |-> Under(g)])
        \/ (\E k \in Under(Unset) : q = [row |-> k, under |-> {k}])
    BY <1>1
  <2>2. (\E g \in IncomeGroups : r = [row |-> g, under |-> Under(g)])
        \/ (\E k \in Under(Unset) : r = [row |-> k, under |-> {k}])
    BY <1>1
  <2>3. ASSUME NEW g \in IncomeGroups, q = [row |-> g, under |-> Under(g)],
               NEW h \in IncomeGroups, r = [row |-> h, under |-> Under(h)]
        PROVE  FALSE
    <3>1. IncomeGroupOf(in, l) = g /\ IncomeGroupOf(in, l) = h BY <2>3
    <3> QED BY <1>8, <2>3, <3>1
  <2>4. ASSUME NEW g \in IncomeGroups, NEW k \in Under(Unset), l \in Under(g), l \in {k} PROVE FALSE
    BY <1>3, <2>4
  <2>5. ASSUME NEW h \in Under(Unset), q = [row |-> h, under |-> {h}],
               NEW k \in Under(Unset), r = [row |-> k, under |-> {k}]
        PROVE  FALSE
    <3>1. l = h /\ l = k BY <2>5
    <3> QED BY <1>8, <2>5, <3>1
  <2> HIDE DEF Under
  <2>6. (\E g \in IncomeGroups : q = [row |-> g, under |-> Under(g)])
           => ~\E k \in Under(Unset) : r = [row |-> k, under |-> {k}]
    BY <2>4
  <2>7. (\E k \in Under(Unset) : q = [row |-> k, under |-> {k}])
           => ~\E g \in IncomeGroups : r = [row |-> g, under |-> Under(g)]
    BY <2>4
  <2> QED BY <2>1, <2>2, <2>3, <2>5, <2>6, <2>7
<1> HIDE DEF part, S
<1>9. SumOf([r \in R |-> Sum(part[r])], R) = Sum(S) BY <1>4, <1>5, <1>6, <1>7, <1>8, Regrouped
<1>10. [r \in R |-> Sum(part[r])] = [r \in R |-> RowTotal(in, r)] BY DEF part, RowTotal
<1>11. RowsSum(in, R) = SumOf([r \in R |-> RowTotal(in, r)], R) BY <1>5, RowsSumIs
<1> QED BY <1>9, <1>10, <1>11 DEF SideTotal, S, R

-----------------------------------------------------------------------------
(* Who a row was paid to.                                                    *)

MerchantsSum(entries, side, g, l, M) ==
    MapThenSumSet(LAMBDA m : MerchantTotal(entries, side, g, l, m), M)
LEMMA MerchantsSumIs ==
    ASSUME NEW entries, NEW side, NEW g, NEW l, NEW M, IsFiniteSet(M)
    PROVE  MerchantsSum(entries, side, g, l, M)
              = SumOf([m \in M |-> MerchantTotal(entries, side, g, l, m)], M)
<1> DEFINE Paid(m) == MerchantTotal(entries, side, g, l, m)
           f == [m \in M |-> Paid(m)]
           Body(h) == h = [s \in SUBSET M |-> IF s = {} THEN 0
                              ELSE Paid(CHOOSE x \in s : TRUE) + h[s \ {CHOOSE x \in s : TRUE}]]
<1>1. MerchantsSum(entries, side, g, l, M) = (CHOOSE h : Body(h))[M]
  BY DEF MapThenSumSet, MapThenFoldSet, MerchantsSum
<1>2. ASSUME NEW h PROVE Body(h) <=> Folded(h, f, M)
  <2>1. \A s \in SUBSET M : s # {} => f[Picked(s)] = Paid(CHOOSE x \in s : TRUE)
    BY PickedIn DEF Picked
  <2> HIDE DEF f, Paid
  <2> QED BY <2>1 DEF Folded, Picked
<1> HIDE DEF Body, f
<1>3. \E h : Body(h) BY <1>2, AllSummable DEF Summable
<1> PICK h : h = CHOOSE k : Body(k) OBVIOUS
<1>4. Folded(h, f, M) BY <1>2, <1>3
<1>5. M \in SUBSET M OBVIOUS
<1>6. SumOf(f, M) = h[M] BY <1>4, <1>5, FoldedWithin
<1> QED BY <1>1, <1>6 DEF f

LEMMA MerchantsTold ==
    ASSUME NEW entries, Valued(entries), NEW side, NEW g, NEW l
    PROVE  MerchantsSum(entries, side, g, l, MerchantRows(entries, side, g, l))
              \in {0, Sum({e \in entries : e.side = side /\ e.label = l /\ (side = "out" => e.group = g)})}
<1> DEFINE S == {e \in entries : e.side = side /\ e.label = l /\ (side = "out" => e.group = g)}
           known == {e.merchant : e \in S}
           M == MerchantRows(entries, side, g, l)
           To(m) == {e \in entries : /\ e.side = side /\ e.label = l /\ e.merchant = m
                                     /\ (side = "out" => e.group = g)}
           part == [m \in M |-> To(m)]
<1>1. M = {} \/ M = known BY DEF MerchantRows
<1>2. IsFiniteSet(S) /\ Valued(S) BY FS_Subset DEF Valued
<1>3. IsFiniteSet(M)
  <2> DEFINE merchantOf == [e \in S |-> e.merchant]
  <2>1. merchantOf \in Surjection(S, known) BY DEF Surjection
  <2>2. IsFiniteSet(known)
    <3> HIDE DEF merchantOf, known
    <3> QED BY <1>2, <2>1, FS_Surjection
  <2> QED BY <1>1, <2>2, FS_EmptySet
<1>0. \A m : /\ To(m) \in SUBSET S
             /\ \A e \in To(m) : e.merchant = m
             /\ \A e \in S : e.merchant = m => e \in To(m)
             /\ Sum(To(m)) = MerchantTotal(entries, side, g, l, m)
  <2>1. \A m : To(m) \in SUBSET S OBVIOUS
  <2>2. \A m : \A e \in To(m) : e.merchant = m OBVIOUS
  <2>3. \A m : \A e \in S : e.merchant = m => e \in To(m) OBVIOUS
  <2>4. \A m : Sum(To(m)) = MerchantTotal(entries, side, g, l, m) BY Zenon DEF MerchantTotal
  <2> QED BY <2>1, <2>2, <2>3, <2>4
<1> HIDE DEF M, To
<1>4. MerchantsSum(entries, side, g, l, M)
        = SumOf([m \in M |-> MerchantTotal(entries, side, g, l, m)], M)
  BY <1>3, MerchantsSumIs
<1>5. CASE M = {}
  <2>1. MerchantsSum(entries, side, g, l, M) = 0 BY <1>4, <1>5, SumNone
  <2> QED BY <2>1 DEF M
<1>6. CASE M = known
  <2>0. \A m \in M : part[m] = To(m) OBVIOUS
  <2>1. part \in [M -> SUBSET S]
    <3> HIDE DEF S
    <3> QED BY <1>0
  <2>2. \A e \in S : \E m \in M : e \in part[m]
    <3>1. \A e \in S : e.merchant \in M BY <1>6
    <3> HIDE DEF S, part
    <3> QED BY <1>0, <2>0, <3>1
  <2>3. \A q, r \in M : q # r => part[q] \cap part[r] = {}
    <3> HIDE DEF part
    <3> QED BY <1>0, <2>0
  <2> HIDE DEF part, S, known
  <2>4. SumOf([m \in M |-> Sum(part[m])], M) = Sum(S) BY <1>2, <1>3, <2>1, <2>2, <2>3, Regrouped
  <2>5. [m \in M |-> Sum(part[m])] = [m \in M |-> MerchantTotal(entries, side, g, l, m)]
    BY <1>0, <2>0
  <2> QED BY <1>4, <2>4, <2>5 DEF M, S
<1> QED BY <1>1, <1>5, <1>6

-----------------------------------------------------------------------------
(* Dates and steps.                                                          *)

\* What is left over, and how often a step goes into a number.
LEMMA Divided ==
    ASSUME NEW s \in Int, s >= 1, NEW n \in Int
    PROVE  /\ n \div s \in Int /\ n % s \in Int
           /\ n = s * (n \div s) + (n % s) /\ 0 <= n % s /\ n % s < s
<1>1. n \div s \in Int OBVIOUS
<1>2. n % s \in 0..(s - 1) OBVIOUS
<1>3. n = s * (n \div s) + (n % s) OBVIOUS
<1> QED BY <1>1, <1>2, <1>3

LEMMA Grows ==
    ASSUME NEW s \in Int, s >= 1, NEW i \in Int, NEW j \in Int, i <= j
    PROVE  s * i \in Int /\ s * j \in Int /\ s * i <= s * j
BY SMTT(30)

\* A step goes into a number as often as it fits.
LEMMA Goes ==
    ASSUME NEW s \in Int, s >= 1, NEW n \in Int, NEW i \in Int
    PROVE  s * i <= n <=> i <= n \div s
<1> PICK q \in Int : q = n \div s BY Divided
<1> PICK p \in Int : p = q + 1 OBVIOUS
<1>1. s * q <= n /\ n < s * p
  <2>1. n = s * q + (n % s) /\ 0 <= n % s /\ n % s < s /\ n % s \in Int BY Divided
  <2>2. s * p = s * q + s BY SMTT(30)
  <2>3. s * q \in Int OBVIOUS
  <2> QED BY <2>1, <2>2, <2>3
<1>2. ASSUME i <= q PROVE s * i <= n
  <2>1. s * i \in Int /\ s * q \in Int /\ s * i <= s * q BY <1>2, Grows
  <2> QED BY <1>1, <2>1
<1>3. ASSUME i > q PROVE s * i > n
  <2>1. p <= i BY <1>3
  <2>2. s * i \in Int /\ s * p \in Int /\ s * p <= s * i BY <2>1, Grows
  <2> QED BY <1>1, <2>2
<1> QED BY <1>2, <1>3

LEMMA Multiples ==
    ASSUME NEW s \in Int, s >= 1, NEW n \in Int
    PROVE  n % s = 0 <=> \E j \in Int : n = s * j
<1>1. ASSUME n % s = 0 PROVE \E j \in Int : n = s * j
  <2> PICK j \in Int : j = n \div s BY Divided
  <2>1. n = s * j + (n % s) /\ s * j \in Int BY Divided
  <2> PICK m \in Int : m = s * j BY <2>1
  <2>2. n = s * j
    <3>1. n = m + 0 BY <1>1, <2>1
    <3> QED BY <3>1
  <2> WITNESS j \in Int
  <2> QED BY <2>2
<1>2. ASSUME NEW j \in Int, n = s * j PROVE n % s = 0
  <2>1. (s * j) % s = 0 BY SMTT(30)
  <2> QED BY <1>2, <2>1
<1> QED BY <1>1, <1>2

\* The month of a date, counted from March of year 0.
MonthOf(y, m) == 12 * y + m - 3

LEMMA DayOn ==
    ASSUME NEW y \in Int, NEW m \in Int, NEW k \in Int
    PROVE  Day(y, m, k) = MonthStart(MonthOf(y, m)) + k - 1
<1> PICK n \in Int : n = 12 * y + m - 3 OBVIOUS
<1>1. DayOfMonth(n, k) = MonthStart(n) + k - 1 BY MonthSplit
<1> QED BY <1>1 DEF Day, MonthOf

LEMMA DayIs ==
    ASSUME NEW y \in Int, NEW m \in Int
    PROVE  /\ MonthOf(y, m) \in Int /\ MonthStart(MonthOf(y, m)) \in Int
           /\ DaysInMonth(y, m) = MonthStart(MonthOf(y, m) + 1) - MonthStart(MonthOf(y, m))
           /\ DaysInMonth(y, m) \in 28..31 /\ DaysInMonth(y, m) \in Int
<1> PICK n \in Int : n = 12 * y + m - 3 OBVIOUS
<1> PICK p \in Int : p = n + 1 OBVIOUS
<1>1. MonthOf(y, m) = n BY DEF MonthOf
<1>2. \A k \in Int : Day(y, m, k) = MonthStart(n) + k - 1 BY MonthSplit DEF Day
<1>3. Day(y, m + 1, 1) = MonthStart(p) + 1 - 1
  <2>1. 12 * y + (m + 1) - 3 = p OBVIOUS
  <2> QED BY <2>1, MonthSplit DEF Day
<1>4. /\ MonthStart(n) \in Int /\ MonthStart(p) \in Int
      /\ MonthStart(p) - MonthStart(n) >= 28 /\ MonthStart(p) - MonthStart(n) <= 31
  <2>1. n <= p /\ p - n = 1 OBVIOUS
  <2>2. /\ MonthStart(n) \in Int /\ MonthStart(p) \in Int
        /\ MonthStart(p) - MonthStart(n) >= 28 * (p - n)
        /\ MonthStart(p) - MonthStart(n) <= 31 * (p - n)
    BY <2>1, MonthsLong
  <2> QED BY <2>1, <2>2
<1>5. DaysInMonth(y, m) = MonthStart(p) - MonthStart(n) BY <1>2, <1>3, <1>4 DEF DaysInMonth
<1> QED BY <1>1, <1>2, <1>4, <1>5

\* A day is the day of its date.
LEMMA DateIs ==
    ASSUME NEW d \in Int
    PROVE  LET x == Ymd(d) IN
           /\ x.year \in Int /\ x.month \in 1..12 /\ x.day \in 1..DaysInMonth(x.year, x.month)
           /\ d = Day(x.year, x.month, x.day)
<1> DEFINE x == Ymd(d)
<1>1. /\ x.year \in Int /\ x.month \in 1..12 /\ x.day \in 1..31 /\ DateMonth(x) \in Int
      /\ x.day = d - MonthStart(DateMonth(x)) + 1
      /\ MonthStart(DateMonth(x)) <= d /\ d < MonthStart(DateMonth(x) + 1)
  BY DateOf
<1>2. DateMonth(x) = MonthOf(x.year, x.month) BY DEF DateMonth, MonthOf
<1> HIDE DEF x
<1> PICK y \in Int : y = x.year BY <1>1
<1> PICK m \in Int : m = x.month BY <1>1
<1> PICK k \in Int : k = x.day BY <1>1
<1>3. /\ MonthStart(MonthOf(y, m)) \in Int /\ Day(y, m, k) = MonthStart(MonthOf(y, m)) + k - 1
      /\ DaysInMonth(y, m) = MonthStart(MonthOf(y, m) + 1) - MonthStart(MonthOf(y, m))
      /\ DaysInMonth(y, m) \in Int
  <2>1. DaysInMonth(y, m) \in Int BY DayIs
  <2>2. MonthStart(MonthOf(y, m)) \in Int BY DayIs
  <2>3. DaysInMonth(y, m) = MonthStart(MonthOf(y, m) + 1) - MonthStart(MonthOf(y, m)) BY DayIs
  <2>4. Day(y, m, k) = MonthStart(MonthOf(y, m)) + k - 1 BY DayOn, SMTT(30)
  <2> QED BY <2>1, <2>2, <2>3, <2>4
<1> PICK a \in Int : a = MonthStart(MonthOf(y, m)) BY <1>3
<1> PICK b \in Int : b = DaysInMonth(y, m) BY <1>3
<1>4. k = d - a + 1 /\ a <= d BY <1>1, <1>2
<1>5. d < a + b
  <2> PICK c : c = MonthStart(MonthOf(y, m) + 1) OBVIOUS
  <2>1. d < c BY <1>1, <1>2
  <2>2. b = c - a BY <1>3
  <2>3. c \in Int
    <3> PICK n \in Int : n = MonthOf(y, m) BY DayIs
    <3> PICK e \in Int : e = n + 1 OBVIOUS
    <3>1. MonthStart(e) \in Int BY MonthInt
    <3> QED BY <3>1
  <2> QED BY <2>1, <2>2, <2>3
<1>6. k \in 1..b /\ Day(y, m, k) = d BY <1>3, <1>4, <1>5
<1> QED BY <1>1, <1>6 DEF x

\* And the date of a day of a month is that day of that month.
LEMMA DayFound ==
    ASSUME NEW y \in Int, NEW m \in 1..12, NEW k \in 1..DaysInMonth(y, m)
    PROVE  /\ Day(y, m, k) \in Int
           /\ Ymd(Day(y, m, k)).year = y /\ Ymd(Day(y, m, k)).month = m
           /\ Ymd(Day(y, m, k)).day = k
<1>0. m \in Int /\ DaysInMonth(y, m) \in Int
  <2>1. m \in Int OBVIOUS
  <2> QED BY <2>1, DayIs
<1> PICK n \in Int : n = MonthOf(y, m) BY <1>0, DayIs
<1> PICK a \in Int : a = MonthStart(n) BY MonthInt
<1> PICK b \in Int : b = DaysInMonth(y, m) BY <1>0
<1>1. k \in Int /\ 1 <= k /\ k <= b OBVIOUS
<1> PICK d \in Int : d = a + k - 1 BY <1>1
<1>2. Day(y, m, k) = d BY <1>0, <1>1, DayOn
<1>3. MonthStart(n + 1) = a + b
  <2> PICK c : c = MonthStart(n + 1) OBVIOUS
  <2>1. c \in Int
    <3> PICK e \in Int : e = n + 1 OBVIOUS
    <3>1. MonthStart(e) \in Int BY MonthInt
    <3> QED BY <3>1
  <2>2. b = c - a BY DayIs
  <2> QED BY <2>1, <2>2
<1>4. MonthStart(n) <= d /\ d < MonthStart(n + 1) BY <1>1, <1>3
<1> PICK x : x = Ymd(d) OBVIOUS
<1>5. /\ x.year \in Int /\ x.month \in 1..12 /\ DateMonth(x) \in Int
      /\ x.day = d - MonthStart(DateMonth(x)) + 1
      /\ MonthStart(DateMonth(x)) <= d /\ d < MonthStart(DateMonth(x) + 1)
  BY DateOf
<1>6. DateMonth(x) = n BY <1>4, <1>5, MonthUnique
<1>7. x.year = y /\ x.month = m
  <2> PICK u \in Int : u = x.year BY <1>5
  <2> PICK v \in 1..12 : v = x.month BY <1>5
  <2>1. 12 * u + v - 3 = 12 * y + m - 3 BY <1>6 DEF DateMonth, MonthOf
  <2> QED BY <2>1
<1>8. x.day = k BY <1>1, <1>5, <1>6
<1> QED BY <1>2, <1>7, <1>8

-----------------------------------------------------------------------------
(* When an item falls due.                                                   *)

\* Every so many days, from an anchor on.
DaysFrom(a, step, from, to) ==
    LET first == a + Ceil(from - a, step) * step
    IN  {first + step * i : i \in 0..((to - first) \div step)}
LEMMA DaysReached ==
    ASSUME NEW step \in Int, step >= 1, NEW a \in Int, NEW from \in Int, NEW to \in Int,
           NEW d \in Int, from <= d, d < to
    PROVE  (d - a) % step = 0 <=> d \in DaysFrom(a, step, from, to)
<1> PICK g \in Int : g = a - from OBVIOUS
<1> PICK q \in Int : q = g \div step BY Divided
<1> PICK r \in Int : r = g % step BY Divided
<1>1. g = step * q + r /\ 0 <= r /\ r < step BY Divided
<1>b. PICK b \in Int : b = step * q OBVIOUS
<1>f. PICK f \in Int : f = a - b OBVIOUS
<1>2. a + Ceil(from - a, step) * step = f
  <2>1. 0 - (from - a) = g OBVIOUS
  <2>2. Ceil(from - a, step) = 0 - q BY <2>1 DEF Ceil
  <2>3. (0 - q) * step = 0 - b BY <1>b, SMTT(30)
  <2> QED BY <1>f, <2>2, <2>3
<1>3. f = from + r BY <1>1, <1>b, <1>f
<1> PICK h \in Int : h = d - f OBVIOUS
<1> PICK last \in Int : last = (to - f) \div step
  <2>1. to - f \in Int OBVIOUS
  <2> QED BY <2>1, Divided
<1>4. ASSUME (d - a) % step = 0 PROVE \E i \in 0..last : d = f + step * i
  <2> PICK e \in Int : e = d - a OBVIOUS
  <2>p. PICK p \in Int : e = step * p BY <1>4, Multiples
  <2> PICK i \in Int : i = p + q OBVIOUS
  <2>1. step * i = e + b BY <1>b, <2>p, SMTT(30)
  <2>2. step * i = h BY <1>f, <2>1
  <2>3. i >= 0
    <3> SUFFICES ASSUME i <= -1 PROVE FALSE OBVIOUS
    <3>1. step * i <= step * (-1) /\ step * (-1) = 0 - step BY Grows
    <3> QED BY <1>1, <1>3, <2>2, <3>1
  <2>4. i <= last
    <3> PICK n \in Int : n = to - f OBVIOUS
    <3>1. step * i <= n BY <2>2
    <3> QED BY <3>1, Goes
  <2>5. i \in 0..last /\ d = f + step * i BY <2>2, <2>3, <2>4
  <2> QED BY <2>5
<1>5. ASSUME NEW i \in 0..last, d = f + step * i PROVE (d - a) % step = 0
  <2> PICK e \in Int : e = d - a OBVIOUS
  <2> PICK j \in Int : j = i - q OBVIOUS
  <2>1. step * j = step * i - b BY <1>b, SMTT(30)
  <2>i. step * i \in Int OBVIOUS
  <2>2. e = step * j BY <1>5, <1>f, <2>1, <2>i
  <2>3. \E k \in Int : e = step * k BY <2>2
  <2> QED BY <2>3, Multiples
<1>6. DaysFrom(a, step, from, to) = {f + step * i : i \in 0..last} BY <1>2 DEF DaysFrom
<1> QED BY <1>4, <1>5, <1>6

\* Every so many months: what is looked at is enough.
MonthsFrom(base, step, mf, mt) ==
    LET back == (mf - base) \div step - 1
    IN  {base + step * (back + i) : i \in 0..((mt - mf) \div step + 2)}
LEMMA MonthsReached ==
    ASSUME NEW step \in Int, step >= 1, NEW base \in Int, NEW mf \in Int, NEW mt \in Int,
           NEW m \in Int, mf <= m, m <= mt
    PROVE  (m - base) % step = 0 <=> m \in MonthsFrom(base, step, mf, mt)
<1> PICK g \in Int : g = mf - base OBVIOUS
<1> PICK q \in Int : q = g \div step BY Divided
<1> PICK b \in Int : b = q - 1 OBVIOUS
<1> PICK w \in Int : w = mt - mf OBVIOUS
<1> PICK k \in Int : k = w \div step BY Divided
<1> PICK e \in Int : e = m - base OBVIOUS
<1>1. ASSUME e % step = 0 PROVE \E i \in 0..(k + 2) : m = base + step * (b + i)
  <2>p. PICK p \in Int : e = step * p BY <1>1, Multiples
  <2> PICK i \in Int : i = p - b OBVIOUS
  <2>1. q <= p
    <3> PICK c \in Int : c = step * p OBVIOUS
    <3>1. step * q <= g BY Goes
    <3>4. c <= c /\ e = c BY <2>p
    <3> SUFFICES ASSUME p + 1 <= q PROVE FALSE OBVIOUS
    <3>2. p + 1 \in Int /\ step * (p + 1) = c + step BY SMTT(30)
    <3>3. step * (p + 1) <= step * q /\ step * q \in Int BY <3>2, Grows
    <3> QED BY <3>1, <3>2, <3>3, <3>4
  <2>2. p <= q + k + 1
    <3> PICK q1 \in Int : q1 = q + 1 OBVIOUS
    <3> PICK k1 \in Int : k1 = k + 1 OBVIOUS
    <3>1. ~(step * q1 <= g) /\ ~(step * k1 <= w) BY Goes
    <3> SUFFICES ASSUME q1 + k1 <= p PROVE FALSE OBVIOUS
    <3> PICK u \in Int : u = step * q1 OBVIOUS
    <3> PICK v \in Int : v = step * k1 OBVIOUS
    <3>2. step * (q1 + k1) = u + v BY SMTT(30)
    <3>3. step * (q1 + k1) <= step * p BY Grows
    <3> QED BY <2>p, <3>1, <3>2, <3>3
  <2>3. i \in 0..(k + 2) /\ b + i = p BY <2>1, <2>2
  <2>4. m = base + step * (b + i) BY <2>3, <2>p
  <2> QED BY <2>3, <2>4
<1>2. ASSUME NEW i \in 0..(k + 2), m = base + step * (b + i) PROVE e % step = 0
  <2> PICK j \in Int : j = b + i OBVIOUS
  <2>1. step * j \in Int OBVIOUS
  <2>2. e = step * j BY <1>2, <2>1
  <2>3. \E n \in Int : e = step * n BY <2>2
  <2> QED BY <2>3, Multiples
<1>3. MonthsFrom(base, step, mf, mt) = {base + step * (b + i) : i \in 0..(k + 2)} BY DEF MonthsFrom
<1> QED BY <1>1, <1>2, <1>3

LEMMA MonthsFromTyped ==
    ASSUME NEW step \in Int, step >= 1, NEW base \in Int, NEW mf \in Int, NEW mt \in Int,
           NEW m \in MonthsFrom(base, step, mf, mt)
    PROVE  m \in Int
<1> PICK g \in Int : g = mf - base OBVIOUS
<1> PICK q \in Int : q = g \div step BY Divided
<1> PICK i \in 0..((mt - mf) \div step + 2) : m = base + step * (q - 1 + i) BY DEF MonthsFrom
<1>1. i \in Int OBVIOUS
<1> QED BY <1>1

LEMMA DaysFromTyped ==
    ASSUME NEW step \in Int, step >= 1, NEW a \in Int, NEW from \in Int, NEW to \in Int,
           NEW d \in DaysFrom(a, step, from, to)
    PROVE  d \in Int
<1> PICK g \in Int : g = 0 - (from - a) OBVIOUS
<1> PICK q \in Int : q = g \div step BY Divided
<1> PICK first \in Int : first = a + (0 - q) * step OBVIOUS
<1>1. first = a + Ceil(from - a, step) * step BY DEF Ceil
<1> PICK i \in 0..((to - first) \div step) : d = first + step * i BY <1>1 DEF DaysFrom
<1>2. i \in Int OBVIOUS
<1> QED BY <1>2

LEMMA MonthsApart ==
    ASSUME NEW u \in Int, NEW v \in 1..12, NEW y \in Int, NEW m \in 1..12,
           MonthOf(u, v) = MonthOf(y, m)
    PROVE  u = y /\ v = m
BY DEF MonthOf

MonthNo(d) == LET x == Ymd(d) IN 12 * x.year + x.month - 1

\* The occurrence in a month is the day of the month it says.
LEMMA InMonthIs ==
    ASSUME NEW m \in Int, NEW ad \in Int, ad >= 1, NEW d \in Int
    PROVE  LET x == Ymd(d) IN
           d = InMonth(m, ad) <=> MonthNo(d) = m /\ x.day = Least(ad, DaysInMonth(x.year, x.month))
<1> PICK y \in Int : y = m \div 12 OBVIOUS
<1> PICK mm \in 1..12 : mm = (m % 12) + 1 OBVIOUS
<1>0. m = 12 * y + mm - 1 OBVIOUS
<1> PICK z \in 28..31 : z = DaysInMonth(y, mm)
  <2>1. mm \in Int OBVIOUS
  <2> QED BY <2>1, DayIs
<1> PICK k \in 1..z : k = Least(ad, z) BY DEF Least
<1>1. InMonth(m, ad) = Day(y, mm, k) BY DEF InMonth
<1> PICK x : x = Ymd(d) OBVIOUS
<1>2. ASSUME d = Day(y, mm, k)
      PROVE  MonthNo(d) = m /\ x.day = Least(ad, DaysInMonth(x.year, x.month))
  <2>1. k \in 1..DaysInMonth(y, mm) OBVIOUS
  <2>2. x = Ymd(Day(y, mm, k)) BY <1>2
  <2>3. Ymd(Day(y, mm, k)).year = y /\ Ymd(Day(y, mm, k)).month = mm /\ Ymd(Day(y, mm, k)).day = k
    BY ONLY <2>1, DayFound
  <2>4. x.year = y /\ x.month = mm /\ x.day = k BY ONLY <2>2, <2>3
  <2> QED BY <1>0, <2>4 DEF MonthNo
<1>3. ASSUME MonthNo(d) = m, x.day = Least(ad, DaysInMonth(x.year, x.month))
      PROVE  d = Day(y, mm, k)
  <2> PICK u \in Int : u = x.year BY DateIs
  <2> PICK v \in 1..12 : v = x.month BY DateIs
  <2>1. 12 * u + v - 1 = 12 * y + mm - 1 BY <1>0, <1>3 DEF MonthNo
  <2>2. u = y /\ v = mm
    <3>1. MonthOf(u, v) = MonthOf(y, mm) BY <2>1 DEF MonthOf
    <3> QED BY <3>1, MonthsApart
  <2>3. x.day = k BY <1>3, <2>2
  <2>4. d = Day(x.year, x.month, x.day) BY DateIs
  <2> QED BY <2>2, <2>3, <2>4
<1> QED BY <1>1, <1>2, <1>3

\* What an item's frequency says of a day, whether or not its plan is active.
FallsOn(item, day) ==
    LET x == Ymd(day)  a == Ymd(item.anchor)
        apart == 12 * (x.year - a.year) + x.month - a.month
    IN  CASE item.frequency = "once" -> day = item.anchor
          [] item.frequency \in DOMAIN DaysPerStep ->
               (day - item.anchor) % (DaysPerStep[item.frequency] * Most(1, item.interval)) = 0
          [] OTHER -> /\ apart % (MonthsPerStep[item.frequency] * Most(1, item.interval)) = 0
                      /\ x.day = Least(a.day, DaysInMonth(x.year, x.month))
\* The days OccurrencesIn looks at, before it asks whether the plan is active.
Stepped(item, from, to) ==
    LET anchor == Ymd(item.anchor)
        n == Most(1, item.interval)
        base == 12 * anchor.year + anchor.month - 1
    IN  CASE item.frequency = "once" -> {item.anchor}
          [] item.frequency \in DOMAIN DaysPerStep ->
               LET step == DaysPerStep[item.frequency] * n
                   first == item.anchor + Ceil(from - item.anchor, step) * step
               IN  {first + step * i : i \in 0..((to - first) \div step)}
          [] OTHER ->
               LET step == MonthsPerStep[item.frequency] * n
                   back == (MonthNo(from) - base) \div step - 1
               IN  {InMonth(base + step * (back + i), anchor.day) :
                       i \in 0..((MonthNo(to) - MonthNo(from)) \div step + 2)}

LEMMA DueIs ==
    ASSUME NEW item, NEW span, NEW day
    PROVE  DueOn(item, span, day) <=> ActiveOn(span, day) /\ FallsOn(item, day)
BY Zenon DEF DueOn, FallsOn

LEMMA OccurrencesAre ==
    ASSUME NEW item, NEW span, NEW from, NEW to
    PROVE  OccurrencesIn(item, span, from, to)
              = {d \in Stepped(item, from, to) : from <= d /\ d < to /\ ActiveOn(span, d)}
BY Zenon DEF OccurrencesIn, Stepped, MonthNo

\* The step an item is counted in.
StepsOf(item) ==
    IF item.frequency \in {"day", "week"} THEN DaysPerStep[item.frequency] * Most(1, item.interval)
    ELSE MonthsPerStep[item.frequency] * Most(1, item.interval)
LEMMA StepsTyped ==
    ASSUME NEW item \in Items, item.frequency # "once"
    PROVE  StepsOf(item) \in Int /\ StepsOf(item) >= 1
<1> PICK n \in Int : n = Most(1, item.interval) /\ n >= 1 BY DEF Items, Most
<1>1. /\ DaysPerStep["day"] = 1 /\ DaysPerStep["week"] = 7
      /\ MonthsPerStep["month"] = 1 /\ MonthsPerStep["quarter"] = 3 /\ MonthsPerStep["year"] = 12
  BY DEF DaysPerStep, MonthsPerStep
<1>2. item.frequency \in {"day", "week", "month", "quarter", "year"} BY DEF Items
<1>3. StepsOf(item) \in {1 * n, 7 * n, 3 * n, 12 * n} BY <1>1, <1>2 DEF StepsOf
<1> QED BY <1>3

LEMMA SteppedIs ==
    ASSUME NEW item \in Items, NEW from, NEW to
    PROVE  /\ item.frequency = "once" => Stepped(item, from, to) = {item.anchor}
           /\ item.frequency \in {"day", "week"} =>
                 Stepped(item, from, to) = DaysFrom(item.anchor, StepsOf(item), from, to)
           /\ item.frequency \in {"month", "quarter", "year"} =>
                 Stepped(item, from, to)
                   = {InMonth(m, Ymd(item.anchor).day) :
                         m \in MonthsFrom(MonthNo(item.anchor), StepsOf(item), MonthNo(from), MonthNo(to))}
<1>0. DOMAIN DaysPerStep = {"day", "week"} BY DEF DaysPerStep
<1>1. CASE item.frequency = "once"
  <2>1. Stepped(item, from, to) = {item.anchor} BY <1>0, <1>1 DEF Stepped
  <2> QED BY <1>1, <2>1
<1>2. CASE item.frequency \in {"day", "week"}
  <2>1. item.frequency # "once" /\ item.frequency \in DOMAIN DaysPerStep BY <1>0, <1>2
  <2>2. StepsOf(item) = DaysPerStep[item.frequency] * Most(1, item.interval) BY <1>2 DEF StepsOf
  <2>3. Stepped(item, from, to) = DaysFrom(item.anchor, StepsOf(item), from, to)
    BY <2>1, <2>2 DEF Stepped, DaysFrom
  <2> QED BY <1>2, <2>3
<1>3. CASE item.frequency \in {"month", "quarter", "year"}
  <2>1. item.frequency # "once" /\ item.frequency \notin DOMAIN DaysPerStep BY <1>0, <1>3
  <2>2. StepsOf(item) = MonthsPerStep[item.frequency] * Most(1, item.interval) BY <1>3 DEF StepsOf
  <2> DEFINE base == MonthNo(item.anchor)
             back == (MonthNo(from) - base) \div StepsOf(item) - 1
             looked == 0..((MonthNo(to) - MonthNo(from)) \div StepsOf(item) + 2)
  <2>3. Stepped(item, from, to)
          = {InMonth(base + StepsOf(item) * (back + i), Ymd(item.anchor).day) : i \in looked}
    BY <2>1, <2>2 DEF Stepped, MonthNo
  <2>4. MonthsFrom(base, StepsOf(item), MonthNo(from), MonthNo(to))
          = {base + StepsOf(item) * (back + i) : i \in looked}
    BY DEF MonthsFrom
  <2> HIDE DEF base, back, looked
  <2>5. Stepped(item, from, to)
          = {InMonth(m, Ymd(item.anchor).day) :
               m \in MonthsFrom(base, StepsOf(item), MonthNo(from), MonthNo(to))}
    BY <2>3, <2>4
  <2> QED BY <1>3, <2>5 DEF base
<1> QED BY <1>1, <1>2, <1>3 DEF Items

LEMMA FallsOnIs ==
    ASSUME NEW item \in Items, NEW d \in Int
    PROVE  /\ item.frequency = "once" => (FallsOn(item, d) <=> d = item.anchor)
           /\ item.frequency \in {"day", "week"} =>
                 (FallsOn(item, d) <=> (d - item.anchor) % StepsOf(item) = 0)
           /\ item.frequency \in {"month", "quarter", "year"} =>
                 (FallsOn(item, d) <=>
                     /\ (MonthNo(d) - MonthNo(item.anchor)) % StepsOf(item) = 0
                     /\ Ymd(d).day = Least(Ymd(item.anchor).day,
                                           DaysInMonth(Ymd(d).year, Ymd(d).month)))
<1>0. DOMAIN DaysPerStep = {"day", "week"} BY DEF DaysPerStep
<1>1. CASE item.frequency = "once"
  <2>1. FallsOn(item, d) <=> d = item.anchor BY <1>0, <1>1 DEF FallsOn
  <2> QED BY <1>1, <2>1
<1>2. CASE item.frequency \in {"day", "week"}
  <2>1. item.frequency # "once" /\ item.frequency \in DOMAIN DaysPerStep BY <1>0, <1>2
  <2>2. StepsOf(item) = DaysPerStep[item.frequency] * Most(1, item.interval) BY <1>2 DEF StepsOf
  <2>3. FallsOn(item, d) <=> (d - item.anchor) % StepsOf(item) = 0 BY <2>1, <2>2 DEF FallsOn
  <2> QED BY <1>2, <2>3
<1>3. CASE item.frequency \in {"month", "quarter", "year"}
  <2>1. item.frequency # "once" /\ item.frequency \notin DOMAIN DaysPerStep BY <1>0, <1>3
  <2>2. StepsOf(item) = MonthsPerStep[item.frequency] * Most(1, item.interval) BY <1>3 DEF StepsOf
  <2> PICK a : a = Ymd(item.anchor) OBVIOUS
  <2> PICK x : x = Ymd(d) OBVIOUS
  <2>3. 12 * (x.year - a.year) + x.month - a.month = MonthNo(d) - MonthNo(item.anchor)
    <3>1. item.anchor \in Int BY DEF Items
    <3>2. a.month \in 1..12 /\ a.year \in Int /\ x.month \in 1..12 /\ x.year \in Int
      BY <3>1, DateOf
    <3> QED BY <3>2 DEF MonthNo
  <2>4. FallsOn(item, d) <=>
          /\ (12 * (x.year - a.year) + x.month - a.month) % StepsOf(item) = 0
          /\ x.day = Least(a.day, DaysInMonth(x.year, x.month))
    BY <2>1, <2>2 DEF FallsOn
  <2> QED BY <1>3, <2>3, <2>4
<1> QED BY <1>1, <1>2, <1>3 DEF Items

LEMMA MonthNoTyped ==
    ASSUME NEW e \in Int
    PROVE  MonthNo(e) \in Int /\ MonthNo(e) = DateMonth(Ymd(e)) + 2
<1>1. Ymd(e).month \in 1..12 /\ Ymd(e).year \in Int BY DateOf
<1> QED BY <1>1 DEF MonthNo, DateMonth

LEMMA SteppedTyped ==
    ASSUME NEW item \in Items, NEW from \in Int, NEW to \in Int, NEW d \in Stepped(item, from, to)
    PROVE  d \in Int
<1>0. item.anchor \in Int BY DEF Items
<1>1. CASE item.frequency = "once" BY <1>0, <1>1, SteppedIs
<1>2. CASE item.frequency \in {"day", "week"}
  <2> PICK step \in Int : step = StepsOf(item) /\ step >= 1 BY <1>2, StepsTyped
  <2>1. d \in DaysFrom(item.anchor, step, from, to) BY <1>2, SteppedIs
  <2> QED BY <1>0, <2>1, DaysFromTyped
<1>3. CASE item.frequency \in {"month", "quarter", "year"}
  <2> PICK step \in Int : step = StepsOf(item) /\ step >= 1 BY <1>3, StepsTyped
  <2> PICK base \in Int : base = MonthNo(item.anchor) BY <1>0, MonthNoTyped
  <2> PICK mf \in Int : mf = MonthNo(from) BY MonthNoTyped
  <2> PICK mt \in Int : mt = MonthNo(to) BY MonthNoTyped
  <2>1. PICK m \in MonthsFrom(base, step, mf, mt) : d = InMonth(m, Ymd(item.anchor).day)
    BY <1>3, SteppedIs
  <2>2. m \in Int BY MonthsFromTyped
  <2> PICK ad \in Int : ad = Ymd(item.anchor).day /\ ad >= 1
    <3>1. Ymd(item.anchor).day \in 1..31 BY <1>0, DateOf
    <3> QED BY <3>1
  <2> PICK y \in Int : y = m \div 12 BY <2>2
  <2> PICK mm \in 1..12 : mm = (m % 12) + 1 BY <2>2
  <2> PICK z \in 28..31 : z = DaysInMonth(y, mm)
    <3>1. mm \in Int OBVIOUS
    <3> QED BY <3>1, DayIs
  <2> PICK k \in 1..z : k = Least(ad, z) BY DEF Least
  <2>3. d = Day(y, mm, k) BY <2>1 DEF InMonth
  <2> QED BY <2>3, DayFound
<1> QED BY <1>1, <1>2, <1>3 DEF Items

LEMMA SteppedFalls ==
    ASSUME NEW item \in Items, NEW from \in Int, NEW to \in Int,
           NEW d \in Int, from <= d, d < to
    PROVE  d \in Stepped(item, from, to) <=> FallsOn(item, d)
<1>0. item.anchor \in Int BY DEF Items
<1>1. CASE item.frequency = "once" BY <1>1, SteppedIs, FallsOnIs
<1>2. CASE item.frequency \in {"day", "week"}
  <2>1. PICK step \in Int : step = StepsOf(item) /\ step >= 1 BY <1>2, StepsTyped
  <2>2. PICK a \in Int : a = item.anchor BY <1>0
  <2>3. Stepped(item, from, to) = DaysFrom(a, step, from, to) BY <1>2, <2>1, <2>2, SteppedIs
  <2>4. FallsOn(item, d) <=> (d - a) % step = 0 BY <1>2, <2>1, <2>2, FallsOnIs
  <2>5. step >= 1 BY <2>1
  <2>6. (d - a) % step = 0 <=> d \in DaysFrom(a, step, from, to) BY <2>5, DaysReached
  <2> QED BY <2>3, <2>4, <2>6
<1>3. CASE item.frequency \in {"month", "quarter", "year"}
  <2>1. PICK step \in Int : step = StepsOf(item) /\ step >= 1 BY <1>3, StepsTyped
  <2>2. PICK base \in Int : base = MonthNo(item.anchor) BY <1>0, MonthNoTyped
  <2>3. PICK mf \in Int : mf = MonthNo(from) BY MonthNoTyped
  <2>4. PICK mt \in Int : mt = MonthNo(to) BY MonthNoTyped
  <2>5. PICK m \in Int : m = MonthNo(d) BY MonthNoTyped
  <2>6. PICK ad \in Int : ad = Ymd(item.anchor).day /\ ad >= 1
    <3>1. Ymd(item.anchor).day \in 1..31 BY <1>0, DateOf
    <3> QED BY <3>1
  <2> DEFINE good == Ymd(d).day = Least(ad, DaysInMonth(Ymd(d).year, Ymd(d).month))
  <2>7. mf <= m /\ m <= mt
    <3>1. DateMonth(Ymd(from)) <= DateMonth(Ymd(d)) /\ DateMonth(Ymd(d)) <= DateMonth(Ymd(to))
      BY MonthsInOrder
    <3>2. DateMonth(Ymd(from)) \in Int /\ DateMonth(Ymd(d)) \in Int /\ DateMonth(Ymd(to)) \in Int
      BY DateOf
    <3> QED BY <2>3, <2>4, <2>5, <3>1, <3>2, MonthNoTyped
  <2>8. Stepped(item, from, to) = {InMonth(n, ad) : n \in MonthsFrom(base, step, mf, mt)}
    <3>1. Stepped(item, from, to)
            = {InMonth(n, Ymd(item.anchor).day) :
                 n \in MonthsFrom(MonthNo(item.anchor), StepsOf(item), MonthNo(from), MonthNo(to))}
      BY <1>3, SteppedIs
    <3> QED BY <2>1, <2>2, <2>3, <2>4, <2>6, <3>1
  <2>9. FallsOn(item, d) <=> (m - base) % step = 0 /\ good
    BY <1>3, <2>1, <2>2, <2>5, <2>6, FallsOnIs
  <2>10. step >= 1 /\ ad >= 1 BY <2>1, <2>6
  <2>11. (m - base) % step = 0 <=> m \in MonthsFrom(base, step, mf, mt)
    BY <2>7, <2>10, MonthsReached
  <2>12. ASSUME NEW n \in MonthsFrom(base, step, mf, mt)
         PROVE  d = InMonth(n, ad) <=> m = n /\ good
    <3>1. n \in Int BY <2>10, MonthsFromTyped
    <3>2. d = InMonth(n, ad) <=> MonthNo(d) = n /\ good BY <2>10, <3>1, InMonthIs
    <3> QED BY <2>5, <3>2
  <2> HIDE DEF good
  <2> QED BY <2>8, <2>9, <2>11, <2>12
<1> QED BY <1>1, <1>2, <1>3 DEF Items

\* What the code steps to is what falls due, day by day (occurrencesIn).
LEMMA OccurrencesDue ==
    ASSUME NEW item \in Items, NEW span, NEW from \in Int, NEW to \in Int
    PROVE  OccurrencesIn(item, span, from, to) = {d \in from..(to - 1) : DueOn(item, span, d)}
<1>1. ASSUME NEW d
      PROVE  d \in OccurrencesIn(item, span, from, to)
                <=> d \in from..(to - 1) /\ DueOn(item, span, d)
  <2>1. d \in from..(to - 1) <=> d \in Int /\ from <= d /\ d < to OBVIOUS
  <2>2. d \in OccurrencesIn(item, span, from, to)
          <=> d \in Stepped(item, from, to) /\ from <= d /\ d < to /\ ActiveOn(span, d)
    BY OccurrencesAre
  <2>3. d \in Stepped(item, from, to) => d \in Int BY SteppedTyped
  <2>4. d \in Int /\ from <= d /\ d < to =>
          (d \in Stepped(item, from, to) <=> FallsOn(item, d))
    BY SteppedFalls
  <2> QED BY <2>1, <2>2, <2>3, <2>4, DueIs
<1> QED BY <1>1

-----------------------------------------------------------------------------
(* A plan that comes back every year.                                        *)

\* A month is never a day longer than itself in another year, and more.
LEMMA MonthsAlike ==
    ASSUME NEW y \in Int, NEW z \in Int, NEW m \in 1..12
    PROVE  DaysInMonth(z, m) <= DaysInMonth(y, m) + 1
<1> DEFINE i == IF m >= 3 THEN m - 3 ELSE m + 9
<1>1. i \in Int /\ 0 <= i /\ i <= 11 OBVIOUS
<1>2. ASSUME NEW v \in Int
      PROVE  \E w \in Int : MonthOf(v, m) = 12 * w + i
  <2> PICK w \in Int : w = IF m >= 3 THEN v ELSE v - 1 OBVIOUS
  <2>1. MonthOf(v, m) = 12 * w + i BY DEF MonthOf
  <2> QED BY <2>1
<1> HIDE DEF i
<1>3. /\ Before(0) = 0 /\ Before(11) = 337 /\ Before(i) \in Int
      /\ i < 11 => Before(i + 1) \in Int
  BY <1>1 DEF Before
<1>4. ASSUME NEW v \in Int
      PROVE  /\ i < 11 => DaysInMonth(v, m) = Before(i + 1) - Before(i)
             /\ i = 11 => DaysInMonth(v, m) \in 28..29
  <2>0. m \in Int OBVIOUS
  <2>1. PICK w \in Int : MonthOf(v, m) = 12 * w + i BY <1>2
  <2>2. MonthStart(12 * w + i) = FloorDays(w) + Before(i) - Epoch /\ 12 * w + i \in Int
    BY <1>1, MonthStartOf
  <2>3. FloorDays(w) \in Int BY YearsLong
  <2>4. DaysInMonth(v, m) = MonthStart(12 * w + i + 1) - MonthStart(12 * w + i)
    BY <2>0, <2>1, DayIs
  <2>5. CASE i < 11
    <3> PICK j \in Int : j = i + 1 BY <1>1
    <3>1. MonthStart(12 * w + j) = FloorDays(w) + Before(j) - Epoch BY <1>1, <2>5, MonthStartOf
    <3>2. 12 * w + j = 12 * w + i + 1 BY <1>1
    <3>3. Before(j) \in Int BY <1>3, <2>5
    <3> QED BY <1>3, <2>2, <2>3, <2>4, <2>5, <3>1, <3>2, <3>3 DEF Epoch
  <2>6. CASE i = 11
    <3> PICK u \in Int : u = w + 1 OBVIOUS
    <3>1. MonthStart(12 * u + 0) = FloorDays(u) + Before(0) - Epoch BY MonthStartOf
    <3>2. 12 * u + 0 = 12 * w + i + 1 BY <2>6
    <3>3. w <= u /\ u - w = 1 OBVIOUS
    <3>4. /\ FloorDays(u) \in Int /\ FloorDays(u) - FloorDays(w) >= 365 * (u - w)
          /\ FloorDays(u) - FloorDays(w) <= 366 * (u - w)
      BY <3>3, YearsLong
    <3>5. FloorDays(u) - FloorDays(w) >= 365 /\ FloorDays(u) - FloorDays(w) <= 366 BY <3>3, <3>4
    <3>6. MonthStart(12 * w + i + 1) = FloorDays(u) - Epoch BY <1>3, <3>1, <3>2, <3>4 DEF Epoch
    <3>7. MonthStart(12 * w + i) = FloorDays(w) + 337 - Epoch BY <1>3, <2>2, <2>6
    <3> QED BY <2>3, <2>4, <2>6, <3>4, <3>5, <3>6, <3>7 DEF Epoch
  <2> QED BY <2>5, <2>6
<1>5. CASE i < 11 BY <1>3, <1>4, <1>5
<1>6. CASE i = 11
  <2>1. DaysInMonth(z, m) \in 28..29 /\ DaysInMonth(y, m) \in 28..29 BY <1>4, <1>6
  <2> QED BY <2>1
<1> QED BY <1>1, <1>5, <1>6

\* A date, as it stands to a month and a day of a year.
NotBefore(x, y, n) == x.year > y \/ (x.year = y /\ 100 * x.month + x.day >= n)
LEMMA DatesInOrder ==
    ASSUME NEW d \in Int, NEW y \in Int, NEW m \in 1..12, NEW k \in Int,
           1 <= k, k <= DaysInMonth(y, m) + 1
    PROVE  d >= Day(y, m, k) <=> NotBefore(Ymd(d), y, 100 * m + k)
<1>0. m \in Int OBVIOUS
<1>1. PICK n \in Int : n = MonthOf(y, m) BY <1>0, DayIs
<1>2. PICK x : x = Ymd(d) OBVIOUS
<1>3. /\ x.year \in Int /\ x.month \in 1..12 /\ x.day \in 1..31
      /\ DateMonth(x) \in Int /\ x.day = d - MonthStart(DateMonth(x)) + 1
      /\ MonthStart(DateMonth(x)) <= d /\ d < MonthStart(DateMonth(x) + 1)
  BY <1>2, DateOf
<1>4. PICK p \in Int : p = DateMonth(x) BY <1>3
<1>5. PICK u \in Int : u = x.year BY <1>3
<1>6. PICK v \in 1..12 : v = x.month BY <1>3
<1>7. PICK t \in 1..31 : t = x.day BY <1>3
<1>8. p = 12 * u + v - 3 /\ n = 12 * y + m - 3 BY <1>1, <1>4, <1>5, <1>6 DEF DateMonth, MonthOf
<1>9. PICK a \in Int : a = MonthStart(n) BY MonthInt
<1>10. PICK b \in Int : b = MonthStart(p) BY MonthInt
<1>11. PICK len \in 28..31 : len = DaysInMonth(y, m) BY <1>0, DayIs
<1>12. MonthStart(n + 1) = a + len
  <2> PICK e \in Int : e = n + 1 OBVIOUS
  <2>1. MonthStart(e) \in Int BY MonthInt
  <2>2. len = MonthStart(e) - a BY <1>0, <1>1, <1>9, <1>11, DayIs
  <2> QED BY <2>1, <2>2
<1>13. Day(y, m, k) = a + k - 1 BY <1>0, <1>1, <1>9, DayOn
<1>14. NotBefore(x, y, 100 * m + k) <=> u > y \/ (u = y /\ 100 * v + t >= 100 * m + k)
  BY <1>5, <1>6, <1>7 DEF NotBefore
<1>15. k <= len + 1 BY <1>11
<1>16. b <= d /\ t = d - b + 1 BY <1>3, <1>4, <1>7, <1>10
<1>17. CASE p = n
  <2>1. u = y /\ v = m BY <1>8, <1>17
  <2>2. a = b BY <1>9, <1>10, <1>17
  <2>3. d >= a + k - 1 <=> 100 * v + t >= 100 * m + k BY <1>16, <2>1, <2>2
  <2> QED BY <1>2, <1>13, <1>14, <2>1, <2>3
<1>18. CASE p > n
  <2>1. u > y \/ (u = y /\ v > m) BY <1>8, <1>18
  <2>2. a + len <= b
    <3> PICK e \in Int : e = n + 1 OBVIOUS
    <3>1. e <= p /\ p - e >= 0 BY <1>18
    <3>2. MonthStart(e) \in Int /\ MonthStart(p) - MonthStart(e) >= 28 * (p - e) BY <3>1, MonthsLong
    <3> QED BY <1>10, <1>12, <3>1, <3>2
  <2>3. d >= a + k - 1 BY <1>15, <1>16, <2>2
  <2>4. u > y \/ (u = y /\ 100 * v + t >= 100 * m + k) BY <1>15, <2>1
  <2> QED BY <1>2, <1>13, <1>14, <2>3, <2>4
<1>19. CASE p < n
  <2>1. u < y \/ (u = y /\ v < m) BY <1>8, <1>19
  <2>2. d < a
    <3> PICK e \in Int : e = p + 1 OBVIOUS
    <3>1. e <= n /\ n - e >= 0 BY <1>19
    <3>2. MonthStart(e) \in Int /\ MonthStart(n) - MonthStart(e) >= 28 * (n - e) BY <3>1, MonthsLong
    <3>3. d < MonthStart(e) BY <1>3, <1>4
    <3> QED BY <1>9, <3>1, <3>2, <3>3
  <2>3. ~(d >= a + k - 1) BY <2>2
  <2>4. ~(u > y \/ (u = y /\ 100 * v + t >= 100 * m + k)) BY <2>1
  <2> QED BY <1>2, <1>13, <1>14, <2>3, <2>4
<1> QED BY <1>17, <1>18, <1>19

LEMMA OpensBy ==
    ASSUME NEW span, span.starts \in Int, NEW d \in Int, NEW y \in Int, NEW z \in Int
    PROVE  /\ Instance(span, y, z).from <= d <=> NotBefore(Ymd(d), y, MonthDay(span.starts))
           /\ Instance(span, y, z).from \in Int
<1>1. PICK s \in Int : s = span.starts OBVIOUS
<1>2. /\ Ymd(s).year \in Int /\ Ymd(s).month \in 1..12
      /\ Ymd(s).day \in 1..DaysInMonth(Ymd(s).year, Ymd(s).month)
  BY DateIs
<1>3. PICK u \in Int, m \in 1..12 : u = Ymd(s).year /\ m = Ymd(s).month BY <1>2
<1>0. m \in Int OBVIOUS
<1>4. DaysInMonth(u, m) \in 28..31 /\ DaysInMonth(y, m) \in 28..31 BY <1>0, DayIs
<1>5. PICK k \in Int : k = Ymd(s).day /\ 1 <= k /\ k <= DaysInMonth(u, m) BY <1>2, <1>3, <1>4
<1>6. DaysInMonth(u, m) <= DaysInMonth(y, m) + 1 BY MonthsAlike
<1>7. k <= DaysInMonth(y, m) + 1 BY <1>4, <1>5, <1>6
<1>8. d >= Day(y, m, k) <=> NotBefore(Ymd(d), y, 100 * m + k) BY <1>5, <1>7, DatesInOrder
<1>9. Day(y, m, k) \in Int
  <2>1. MonthStart(MonthOf(y, m)) \in Int BY DayIs
  <2> QED BY <2>1, DayOn
<1>10. Instance(span, y, z).from = Day(y, m, k) BY <1>1, <1>3, <1>5 DEF Instance
<1>11. MonthDay(span.starts) = 100 * m + k BY <1>1, <1>3, <1>5 DEF MonthDay
<1> QED BY <1>8, <1>9, <1>10, <1>11

\* On or before the day of a year with this month and day.
NotAfter(x, z, n) == x.year < z \/ (x.year = z /\ 100 * x.month + x.day <= n)
LEMMA ClosesBy ==
    ASSUME NEW span, span.ends \in Int, NEW d \in Int, NEW y \in Int, NEW z \in Int
    PROVE  /\ Instance(span, y, z).to >= d <=> NotAfter(Ymd(d), z, MonthDay(span.ends))
           /\ Instance(span, y, z).to \in Int
<1>1. PICK e \in Int : e = span.ends OBVIOUS
<1>2. /\ Ymd(e).year \in Int /\ Ymd(e).month \in 1..12
      /\ Ymd(e).day \in 1..DaysInMonth(Ymd(e).year, Ymd(e).month)
  BY DateIs
<1>3. PICK u \in Int, m \in 1..12 : u = Ymd(e).year /\ m = Ymd(e).month BY <1>2
<1>0. m \in Int OBVIOUS
<1>4. DaysInMonth(u, m) \in 28..31 /\ DaysInMonth(z, m) \in 28..31 BY <1>0, DayIs
<1>5. PICK b \in Int : b = Ymd(e).day /\ 1 <= b /\ b <= DaysInMonth(u, m) BY <1>2, <1>3, <1>4
<1>6. PICK len \in 28..31 : len = DaysInMonth(z, m) BY <1>4
<1>7. PICK k \in 1..31 : k = Least(b, len) BY <1>4, <1>5, <1>6 DEF Least
<1>8. d >= Day(z, m, k + 1) <=> NotBefore(Ymd(d), z, 100 * m + (k + 1))
  <2>1. k + 1 \in Int /\ 1 <= k + 1 /\ k + 1 <= len + 1 BY <1>5, <1>7 DEF Least
  <2> QED BY <1>6, <2>1, DatesInOrder
<1>9. Day(z, m, k) \in Int /\ Day(z, m, k + 1) = Day(z, m, k) + 1
  <2>1. PICK c \in Int : c = MonthStart(MonthOf(z, m)) BY <1>0, DayIs
  <2>2. k \in Int /\ k + 1 \in Int OBVIOUS
  <2>3. Day(z, m, k) = c + k - 1 BY <1>0, <2>1, <2>2, DayOn
  <2>4. Day(z, m, k + 1) = c + (k + 1) - 1 BY <1>0, <2>1, <2>2, DayOn
  <2> QED BY <2>3, <2>4
<1>10. Instance(span, y, z).to = Day(z, m, k) BY <1>1, <1>3, <1>5, <1>6, <1>7 DEF Instance
<1>11. MonthDay(span.ends) = 100 * m + b BY <1>1, <1>3, <1>5 DEF MonthDay
<1>12. /\ Ymd(d).year \in Int /\ Ymd(d).month \in 1..12
       /\ Ymd(d).day \in 1..DaysInMonth(Ymd(d).year, Ymd(d).month)
       /\ DaysInMonth(Ymd(d).year, Ymd(d).month) \in 28..31
  <2>1. Ymd(d).year \in Int /\ Ymd(d).month \in 1..12 BY DateIs
  <2>3. Ymd(d).month \in Int BY <2>1
  <2>2. DaysInMonth(Ymd(d).year, Ymd(d).month) \in 28..31 BY <2>1, <2>3, DayIs
  <2> QED BY <2>1, <2>2, DateIs
<1>13. PICK p \in Int, q \in 1..12, t \in 1..31 : p = Ymd(d).year /\ q = Ymd(d).month /\ t = Ymd(d).day
  BY <1>12
<1>14. p = z /\ q = m => t <= len BY <1>6, <1>12, <1>13
<1>15. NotBefore(Ymd(d), z, 100 * m + (k + 1)) <=> p > z \/ (p = z /\ 100 * q + t >= 100 * m + k + 1)
  BY <1>13 DEF NotBefore
<1>16. NotAfter(Ymd(d), z, 100 * m + b) <=> p < z \/ (p = z /\ 100 * q + t <= 100 * m + b)
  BY <1>13 DEF NotAfter
<1>17. p = z => (100 * q + t <= 100 * m + b <=> 100 * q + t <= 100 * m + k)
  BY <1>4, <1>5, <1>7, <1>14 DEF Least
<1>18. d <= Day(z, m, k) <=> ~(d >= Day(z, m, k + 1)) BY <1>9
<1>19. d <= Day(z, m, k) <=> NotAfter(Ymd(d), z, 100 * m + b) BY <1>8, <1>15, <1>16, <1>17, <1>18
<1> QED BY <1>9, <1>10, <1>11, <1>19

\* A yearly plan is in a window of its own exactly when it is active (currentOrNextWindow).
LEMMA WindowsOfYears ==
    ASSUME NEW span, span.yearly, span.starts \in Int, span.ends \in Int,
           Open \notin {span.starts, span.ends}, NEW d \in Int
    PROVE  LET window == CurrentOrNextWindow(span, d)
           IN  ActiveOn(span, d) <=> window.from <= d /\ d <= window.to
<1>1. PICK year \in Int : year = Ymd(d).year BY DateIs
<1>2. PICK on \in Int : on = MonthDay(d)
  <2>0. Ymd(d).month \in 1..12 /\ Ymd(d).day \in 1..31 BY DateOf
  <2>1. Ymd(d).month \in Int /\ Ymd(d).day \in Int BY <2>0
  <2> QED BY <2>1 DEF MonthDay
<1>3. PICK a \in Int : a = MonthDay(span.starts)
  <2>0. Ymd(span.starts).month \in 1..12 /\ Ymd(span.starts).day \in 1..31 BY DateOf
  <2>1. Ymd(span.starts).month \in Int /\ Ymd(span.starts).day \in Int BY <2>0
  <2> QED BY <2>1 DEF MonthDay
<1>4. PICK b \in Int : b = MonthDay(span.ends)
  <2>0. Ymd(span.ends).month \in 1..12 /\ Ymd(span.ends).day \in 1..31 BY DateOf
  <2>1. Ymd(span.ends).month \in Int /\ Ymd(span.ends).day \in Int BY <2>0
  <2> QED BY <2>1 DEF MonthDay
<1>5. ASSUME NEW y \in Int, NEW z \in Int
      PROVE  /\ Instance(span, y, z).from <= d <=> year > y \/ (year = y /\ on >= a)
             /\ d <= Instance(span, y, z).to <=> year < z \/ (year = z /\ on <= b)
             /\ Instance(span, y, z).to >= d <=> year < z \/ (year = z /\ on <= b)
  <2>1. Instance(span, y, z).from <= d <=> year > y \/ (year = y /\ on >= a)
    <3>1. Instance(span, y, z).from <= d <=> NotBefore(Ymd(d), y, a) BY <1>3, OpensBy
    <3> QED BY <1>1, <1>2, <3>1 DEF NotBefore, MonthDay
  <2>2. Instance(span, y, z).to >= d <=> year < z \/ (year = z /\ on <= b)
    <3>1. Instance(span, y, z).to >= d <=> NotAfter(Ymd(d), z, b) BY <1>4, ClosesBy
    <3> QED BY <1>1, <1>2, <3>1 DEF NotAfter, MonthDay
  <2>3. Instance(span, y, z).to \in Int BY ClosesBy
  <2> QED BY <2>1, <2>2, <2>3
<1> DEFINE wraps == IF MonthDay(span.starts) > MonthDay(span.ends) THEN 1 ELSE 0
           ahead == {y \in (Ymd(d).year - 1)..(Ymd(d).year + 1) : Instance(span, y, y + wraps).to >= d}
           first == IF ahead = {} THEN Ymd(d).year ELSE CHOOSE y \in ahead : \A z \in ahead : y <= z
<1>6. CurrentOrNextWindow(span, d) = Instance(span, first, first + wraps)
  BY Zenon DEF CurrentOrNextWindow
<1>7. ActiveOn(span, d) <=> IF a <= b THEN a <= on /\ on <= b ELSE a <= on \/ on <= b
  BY <1>2, <1>3, <1>4 DEF ActiveOn
<1>8. wraps \in {0, 1} OBVIOUS
<1>9. \A y : y \in ahead <=> /\ y \in (year - 1)..(year + 1)
                             /\ year < y + wraps \/ (year = y + wraps /\ on <= b)
  <2>1. ASSUME NEW y \in (year - 1)..(year + 1)
        PROVE  Instance(span, y, y + wraps).to >= d <=> year < y + wraps \/ (year = y + wraps /\ on <= b)
    <3>1. PICK z \in Int : z = y + wraps BY <1>8
    <3> QED BY <1>5, <3>1
  <2> QED BY <1>1, <2>1
<1>10. a > b <=> wraps = 1 BY <1>3, <1>4
<1>11. first = (IF on <= b THEN year ELSE year + 1) - wraps
  <2>0. (IF on <= b THEN year ELSE year + 1) - wraps \in Int BY <1>8
  <2>1. PICK c \in Int : c = (IF on <= b THEN year ELSE year + 1) - wraps BY <2>0
  <2> HIDE DEF ahead, wraps
  <2>2. c \in (year - 1)..(year + 1) BY <1>8, <2>1
  <2>3. c \in ahead BY <1>2, <1>4, <1>8, <1>9, <2>1, <2>2
  <2>4. \A z \in ahead : c <= z BY <1>2, <1>4, <1>8, <1>9, <2>1
  <2>5. \A z \in ahead : z \in Int BY <1>9
  <2>6. PICK f : f = CHOOSE y \in ahead : \A z \in ahead : y <= z OBVIOUS
  <2>7. f \in ahead /\ \A z \in ahead : f <= z BY <2>3, <2>4, <2>6
  <2>8. f = c BY <2>3, <2>4, <2>5, <2>7
  <2>9. first = f BY <2>3, <2>6
  <2> QED BY <2>1, <2>8, <2>9
<1>12. PICK f \in Int, z \in Int : f = first /\ z = first + wraps
  <2> HIDE DEF first, wraps, ahead
  <2>1. first \in Int BY <1>8, <1>11
  <2>2. first + wraps \in Int BY <1>8, <2>1
  <2> QED BY <2>1, <2>2
<1> HIDE DEF ahead, first, wraps
<1>13. /\ Instance(span, f, z).from <= d <=> year > f \/ (year = f /\ on >= a)
       /\ d <= Instance(span, f, z).to <=> year < z \/ (year = z /\ on <= b)
  BY <1>5
<1>14. f = (IF on <= b THEN year ELSE year + 1) - wraps /\ z = f + wraps BY <1>11, <1>12
<1>15. (IF a <= b THEN a <= on /\ on <= b ELSE a <= on \/ on <= b)
         <=> (year > f \/ (year = f /\ on >= a)) /\ (year < z \/ (year = z /\ on <= b))
  BY <1>8, <1>10, <1>14
<1> QED BY <1>6, <1>7, <1>12, <1>13, <1>15

-----------------------------------------------------------------------------
(* The entries of a plan.                                                    *)

LEMMA PlanTyped ==
    ASSUME NEW b \in DOMAIN Plans
    PROVE  /\ IsFiniteSet(DOMAIN Plans[b].items)
           /\ \A n \in DOMAIN Plans[b].items : Plans[b].items[n] \in Items
           /\ Lifespan(Plans[b]).starts \in Int /\ Lifespan(Plans[b]).ends \in Int
<1>1. PICK s \in Seq(Items) : s = Plans[b].items BY PlansAssumption
<1>2. DOMAIN s = 1..Len(s) /\ Len(s) \in Nat /\ \A n \in DOMAIN s : s[n] \in Items OBVIOUS
<1>3. IsFiniteSet(1..Len(s)) BY <1>2, FS_Interval
<1> QED BY <1>1, <1>2, <1>3, PlansAssumption DEF Lifespan

\* Whether an item of a plan is due on a day of a stretch.
IsDue(b, n, d, from, to) ==
    /\ n \in DOMAIN Plans[b].items /\ d \in from..(to - 1)
    /\ DueOn(Plans[b].items[n], Lifespan(Plans[b]), d)
LEMMA DueIn ==
    ASSUME NEW b, NEW from, NEW to, NEW x
    PROVE  x \in Due(b, from, to) <=> \E n, d : x = <<b, n, d>> /\ IsDue(b, n, d, from, to)
<1> DEFINE On(n) == {e \in from..(to - 1) : DueOn(Plans[b].items[n], Lifespan(Plans[b]), e)}
           N == DOMAIN Plans[b].items
<1>1. Due(b, from, to) = UNION {{<<b, n, d>> : d \in On(n)} : n \in N} BY Zenon DEF Due
<1>2. \A n, d : IsDue(b, n, d, from, to) <=> n \in N /\ d \in On(n)
  <2> SUFFICES ASSUME NEW n, NEW d PROVE IsDue(b, n, d, from, to) <=> n \in N /\ d \in On(n) OBVIOUS
  <2>1. d \in On(n) <=> d \in from..(to - 1) /\ DueOn(Plans[b].items[n], Lifespan(Plans[b]), d)
    BY Zenon
  <2> QED BY <2>1, Zenon DEF IsDue
<1> HIDE DEF On, N
<1> QED BY <1>1, <1>2

LEMMA OccurringDue ==
    ASSUME NEW b \in DOMAIN Plans, NEW from \in Int, NEW to \in Int
    PROVE  Occurring(b, Plans[b], from, to) = Due(b, from, to)
<1>1. ASSUME NEW n \in DOMAIN Plans[b].items
      PROVE  OccurrencesIn(Plans[b].items[n], Lifespan(Plans[b]), from, to)
               = {e \in from..(to - 1) : DueOn(Plans[b].items[n], Lifespan(Plans[b]), e)}
  BY PlanTyped, OccurrencesDue
<1> QED BY <1>1, Zenon DEF Occurring, Due

LEMMA DueFinite ==
    ASSUME NEW b \in DOMAIN Plans, NEW from \in Int, NEW to \in Int
    PROVE  IsFiniteSet(Due(b, from, to))
<1> DEFINE N == DOMAIN Plans[b].items  D == from..(to - 1)
           f == [p \in N \X D |-> <<b, p[1], p[2]>>]
<1>1. IsFiniteSet(N \X D)
  <2>1. IsFiniteSet(N) BY PlanTyped
  <2>2. to - 1 \in Int OBVIOUS
  <2>3. IsFiniteSet(D) BY <2>2, FS_Interval
  <2> QED BY <2>1, <2>3, FS_Product
<1> DEFINE T == {f[p] : p \in N \X D}
<1>2. f \in Surjection(N \X D, T) BY DEF Surjection
<1>3. IsFiniteSet(T)
  <2> HIDE DEF f, T, N, D
  <2> QED BY <1>1, <1>2, FS_Surjection
<1>4. Due(b, from, to) \in SUBSET T
  <2> SUFFICES ASSUME NEW x \in Due(b, from, to) PROVE x \in T OBVIOUS
  <2>1. PICK n, d : x = <<b, n, d>> /\ IsDue(b, n, d, from, to) BY DueIn
  <2>2. n \in N /\ d \in D BY <2>1 DEF IsDue
  <2>3. PICK p \in N \X D : p = <<n, d>> BY <2>2
  <2>4. f[p] = x BY <2>1, <2>3
  <2> QED BY <2>4
<1> QED BY <1>3, <1>4, FS_Subset

DueAll(ids, from, to) == UNION {Due(b, from, to) : b \in ids}
LEMMA DueAllFinite ==
    ASSUME NEW ids \in SUBSET DOMAIN Plans, NEW from \in Int, NEW to \in Int
    PROVE  IsFiniteSet(DueAll(ids, from, to))
<1> DEFINE f == [b \in ids |-> Due(b, from, to)]
           T == {Due(b, from, to) : b \in ids}
<1>1. IsFiniteSet(ids) BY PlansAssumption, FS_Subset
<1>2. f \in Surjection(ids, T) BY DEF Surjection
<1>3. IsFiniteSet(T)
  <2> HIDE DEF f, T
  <2> QED BY <1>1, <1>2, FS_Surjection
<1>4. \A s \in T : IsFiniteSet(s) BY DueFinite
<1> HIDE DEF T
<1>5. IsFiniteSet(UNION T) BY <1>3, <1>4, FS_UNION
<1> QED BY <1>5 DEF DueAll, T

LEMMA DueAllIn ==
    ASSUME NEW ids, NEW from, NEW to, NEW x
    PROVE  x \in DueAll(ids, from, to)
              <=> \E b, n, d : b \in ids /\ x = <<b, n, d>> /\ IsDue(b, n, d, from, to)
<1>1. x \in DueAll(ids, from, to) <=> \E b \in ids : x \in Due(b, from, to) BY DEF DueAll
<1> QED BY <1>1, DueIn

PlanEntry(b, n, d) == PlannedEntry(b, n, Plans[b].items[n], d, Fx, PeriodKey(d, Period, tax))
LEMMA PlanEntryIs ==
    ASSUME NEW b \in DOMAIN Plans, NEW n \in DOMAIN Plans[b].items, NEW d \in Int
    PROVE  LET e == PlanEntry(b, n, d)  item == Plans[b].items[n]
           IN  /\ e = [id |-> e.id, key |-> e.key, side |-> e.side, group |-> e.group,
                       label |-> e.label, merchant |-> e.merchant, value |-> e.value]
               /\ e.id = <<b, n, d>> /\ e.id[1] = b /\ e.id[2] = n /\ e.id[3] = d
               /\ e.key = PeriodKey(d, Period, tax)
               /\ e.label # Unset /\ e.value \in Int
               /\ item.currency \in {Unset, Fx.display} => e.value = Magnitude(item.amount)
<1> DEFINE e == PlanEntry(b, n, d)
<1>1. PICK item \in Items : item = Plans[b].items[n] BY PlanTyped
<1>2. PICK k : k = PeriodKey(d, Period, tax) OBVIOUS
<1>3. item.amount \in Int BY DEF Items
<1>4. PICK v \in Int : v = ToDisplay(Fx, item.amount, item.currency, d) BY <1>3, DisplayTyped
<1>5. PICK side : side = IF item.amount > 0 THEN "in" ELSE "out" OBVIOUS
<1>6. PICK label : label = Named(item.category, Uncategorised) OBVIOUS
<1>7. PICK merchant : merchant = Named(item.merchant, Unknown) OBVIOUS
<1>8. PICK value \in Int : value = Magnitude(v) BY DEF Magnitude
<1>9. e = [id |-> <<b, n, d>>, key |-> k, side |-> side, group |-> item.group,
           label |-> label, merchant |-> merchant, value |-> value]
  BY <1>1, <1>2, <1>4, <1>5, <1>6, <1>7, <1>8, Zenon DEF PlanEntry, PlannedEntry
<1>10. label # Unset BY <1>6 DEF Named, Uncategorised, Unset
<1>11. item.currency \in {Unset, Fx.display} => v = item.amount BY <1>4 DEF ToDisplay
<1> HIDE DEF e
<1>12. /\ e.id = <<b, n, d>> /\ e.key = k /\ e.side = side /\ e.group = item.group
       /\ e.label = label /\ e.merchant = merchant /\ e.value = value
  BY <1>9
<1>13. e.id[1] = b /\ e.id[2] = n /\ e.id[3] = d BY <1>12
<1>14. e = [id |-> e.id, key |-> e.key, side |-> e.side, group |-> e.group,
            label |-> e.label, merchant |-> e.merchant, value |-> e.value]
  BY <1>9, <1>12
<1> QED BY <1>1, <1>2, <1>8, <1>10, <1>11, <1>12, <1>13, <1>14 DEF e

\* What is due of some plans in a stretch of days, an entry a day.
Planned(ids, from, to) == {PlanEntry(x[1], x[2], x[3]) : x \in DueAll(ids, from, to)}
LEMMA PlannedHas ==
    ASSUME NEW ids, NEW from, NEW to, NEW e
    PROVE  e \in Planned(ids, from, to)
              <=> \E b, n, d : b \in ids /\ e = PlanEntry(b, n, d) /\ IsDue(b, n, d, from, to)
<1>1. ASSUME e \in Planned(ids, from, to)
      PROVE  \E b, n, d : b \in ids /\ e = PlanEntry(b, n, d) /\ IsDue(b, n, d, from, to)
  <2>1. PICK x \in DueAll(ids, from, to) : e = PlanEntry(x[1], x[2], x[3]) BY <1>1 DEF Planned
  <2>2. PICK b, n, d : b \in ids /\ x = <<b, n, d>> /\ IsDue(b, n, d, from, to) BY DueAllIn
  <2>3. x[1] = b /\ x[2] = n /\ x[3] = d BY <2>2
  <2> QED BY <2>1, <2>2, <2>3
<1>2. ASSUME NEW b \in ids, NEW n, NEW d, e = PlanEntry(b, n, d), IsDue(b, n, d, from, to)
      PROVE  e \in Planned(ids, from, to)
  <2>1. PICK x : x = <<b, n, d>> OBVIOUS
  <2>2. x \in DueAll(ids, from, to) BY <1>2, <2>1, DueAllIn
  <2>3. x[1] = b /\ x[2] = n /\ x[3] = d BY <2>1
  <2> QED BY <1>2, <2>2, <2>3 DEF Planned
<1> QED BY <1>1, <1>2

LEMMA PlannedTyped ==
    ASSUME NEW ids \in SUBSET DOMAIN Plans, NEW from \in Int, NEW to \in Int
    PROVE  /\ Valued(Planned(ids, from, to))
           /\ \A e \in Planned(ids, from, to) : e.label # Unset
<1> DEFINE D == DueAll(ids, from, to)
           P == Planned(ids, from, to)
           f == [x \in D |-> PlanEntry(x[1], x[2], x[3])]
<1>1. IsFiniteSet(P)
  <2>1. f \in Surjection(D, P) BY DEF Surjection, Planned
  <2>2. IsFiniteSet(D) BY DueAllFinite
  <2> HIDE DEF f, D, P
  <2> QED BY <2>1, <2>2, FS_Surjection
<1>2. ASSUME NEW e \in P PROVE e.value \in Int /\ e.label # Unset
  <2>1. PICK b, n, d : b \in ids /\ e = PlanEntry(b, n, d) /\ IsDue(b, n, d, from, to) BY PlannedHas
  <2>2. b \in DOMAIN Plans /\ n \in DOMAIN Plans[b].items /\ d \in Int BY <2>1 DEF IsDue
  <2> QED BY <2>1, <2>2, PlanEntryIs
<1> QED BY <1>1, <1>2 DEF Valued

-----------------------------------------------------------------------------
(* What a plan costs.                                                        *)

\* The entries of the days from `mid' on are what is due from then on.
LEMMA AskedDue ==
    ASSUME NEW ids \in SUBSET DOMAIN Plans, NEW from \in Int, NEW to \in Int, NEW mid \in Int, from <= mid
    PROVE  {e.id : e \in {x \in Planned(ids, from, to) : x.id[3] >= mid}}
              = UNION {Due(b, mid, to) : b \in ids}
<1> DEFINE L == {e.id : e \in {x \in Planned(ids, from, to) : x.id[3] >= mid}}
<1>1. ASSUME NEW i \in L PROVE i \in DueAll(ids, mid, to)
  <2>1. PICK e \in Planned(ids, from, to) : e.id = i /\ e.id[3] >= mid BY <1>1
  <2>2. PICK b, n, d : b \in ids /\ e = PlanEntry(b, n, d) /\ IsDue(b, n, d, from, to)
    BY <2>1, PlannedHas
  <2>3. n \in DOMAIN Plans[b].items /\ d \in Int BY <2>2 DEF IsDue
  <2>4. e.id = <<b, n, d>> /\ e.id[3] = d BY <2>2, <2>3, PlanEntryIs
  <2>5. IsDue(b, n, d, mid, to) BY <2>1, <2>2, <2>4 DEF IsDue
  <2> QED BY <2>1, <2>2, <2>4, <2>5, DueAllIn
<1>2. ASSUME NEW i \in DueAll(ids, mid, to) PROVE i \in L
  <2>1. PICK b, n, d : b \in ids /\ i = <<b, n, d>> /\ IsDue(b, n, d, mid, to) BY DueAllIn
  <2>2. n \in DOMAIN Plans[b].items /\ d \in Int /\ d >= mid BY <2>1 DEF IsDue
  <2>3. IsDue(b, n, d, from, to) BY <2>1, <2>2 DEF IsDue
  <2>4. PICK e : e = PlanEntry(b, n, d) OBVIOUS
  <2>5. e \in Planned(ids, from, to) BY <2>1, <2>3, <2>4, PlannedHas
  <2>6. e.id = i /\ e.id[3] = d BY <2>1, <2>2, <2>4, PlanEntryIs
  <2> QED BY <2>2, <2>5, <2>6
<1> HIDE DEF L
<1>3. L = DueAll(ids, mid, to) BY <1>1, <1>2
<1> QED BY <1>3 DEF L, DueAll

\* An entry of a plan is in the period that holds its day.
LEMMA PlannedInPeriod ==
    ASSUME NEW ids \in SUBSET DOMAIN Plans, NEW from, NEW to,
           Period \in Periods, tax \in TaxYears, NEW e \in Planned(ids, from, to)
    PROVE  PeriodStart(e.key, Period, tax) <= e.id[3] /\ e.id[3] < PeriodEnd(e.key, Period, tax)
<1>1. PICK b, n, d : b \in ids /\ e = PlanEntry(b, n, d) /\ IsDue(b, n, d, from, to) BY PlannedHas
<1>2. n \in DOMAIN Plans[b].items /\ d \in Int BY <1>1 DEF IsDue
<1>3. e.key = PeriodKey(d, Period, tax) /\ e.id[3] = d BY <1>1, <1>2, PlanEntryIs
<1>4. PICK m \in Int : PeriodKey(d, Period, tax) = KeyNo(m, Period, tax)
  BY <1>2, PeriodsSliced DEF Sliced, Numbers
<1> QED BY <1>2, <1>3, <1>4, InPeriod

-----------------------------------------------------------------------------
(* Groups and what is under them.                                            *)

LabelsSum(entries, g, L) == MapThenSumSet(LAMBDA l : SpendTotal(entries, g, l), L)
LEMMA LabelsSumIs ==
    ASSUME NEW entries, NEW g, NEW L, IsFiniteSet(L)
    PROVE  LabelsSum(entries, g, L) = SumOf([l \in L |-> SpendTotal(entries, g, l)], L)
<1> DEFINE Spent(l) == SpendTotal(entries, g, l)
           f == [l \in L |-> Spent(l)]
           Body(h) == h = [s \in SUBSET L |-> IF s = {} THEN 0
                              ELSE Spent(CHOOSE x \in s : TRUE) + h[s \ {CHOOSE x \in s : TRUE}]]
<1>1. LabelsSum(entries, g, L) = (CHOOSE h : Body(h))[L]
  BY DEF MapThenSumSet, MapThenFoldSet, LabelsSum
<1>2. ASSUME NEW h PROVE Body(h) <=> Folded(h, f, L)
  <2>1. \A s \in SUBSET L : s # {} => f[Picked(s)] = Spent(CHOOSE x \in s : TRUE)
    BY PickedIn DEF Picked
  <2> HIDE DEF f, Spent
  <2> QED BY <2>1 DEF Folded, Picked
<1> HIDE DEF Body, f
<1>3. \E h : Body(h) BY <1>2, AllSummable DEF Summable
<1> PICK h : h = CHOOSE k : Body(k) OBVIOUS
<1>4. Folded(h, f, L) BY <1>2, <1>3
<1>5. L \in SUBSET L OBVIOUS
<1>6. SumOf(f, L) = h[L] BY <1>4, <1>5, FoldedWithin
<1> QED BY <1>1, <1>6 DEF f

\* A group costs what is under it, if nothing in it is without a label.
LEMMA GroupsTold ==
    ASSUME NEW entries, Valued(entries), \A e \in entries : e.label # Unset, NEW g
    PROVE  GroupTotal(entries, g) = LabelsSum(entries, g, LabelsUnder(entries, g))
<1> DEFINE S == {e \in entries : e.side = "out" /\ e.group = g}
           L == LabelsUnder(entries, g)
           To(l) == {e \in entries : e.side = "out" /\ e.group = g /\ e.label = l}
           part == [l \in L |-> To(l)]
<1>1. IsFiniteSet(S) /\ Valued(S) BY FS_Subset DEF Valued
<1>2. L = {e.label : e \in S} BY DEF LabelsUnder
<1>3. IsFiniteSet(L)
  <2> DEFINE labelOf == [e \in S |-> e.label]
  <2>1. labelOf \in Surjection(S, L) BY <1>2 DEF Surjection
  <2> HIDE DEF labelOf, L, S
  <2> QED BY <1>1, <2>1, FS_Surjection
<1>4. \A l : /\ To(l) \in SUBSET S
             /\ \A e \in To(l) : e.label = l
             /\ \A e \in S : e.label = l => e \in To(l)
  OBVIOUS
<1>5. \A l : Sum(To(l)) = SpendTotal(entries, g, l) BY Zenon DEF SpendTotal
<1> HIDE DEF L, To
<1>6. \A l \in L : part[l] = To(l) OBVIOUS
<1>7. part \in [L -> SUBSET S]
  <2> HIDE DEF S
  <2> QED BY <1>4
<1>8. \A e \in S : \E l \in L : e \in part[l]
  <2>1. \A e \in S : e.label \in L BY <1>2
  <2> HIDE DEF S, part
  <2> QED BY <1>4, <1>6, <2>1
<1>9. \A q, r \in L : q # r => part[q] \cap part[r] = {}
  <2> HIDE DEF part
  <2> QED BY <1>4, <1>6
<1> HIDE DEF part, S
<1>10. SumOf([l \in L |-> Sum(part[l])], L) = Sum(S) BY <1>1, <1>3, <1>7, <1>8, <1>9, Regrouped
<1>11. [l \in L |-> Sum(part[l])] = [l \in L |-> SpendTotal(entries, g, l)] BY <1>5, <1>6
<1>12. LabelsSum(entries, g, L) = SumOf([l \in L |-> SpendTotal(entries, g, l)], L)
  BY <1>3, LabelsSumIs
<1> QED BY <1>10, <1>11, <1>12 DEF GroupTotal, S, L

-----------------------------------------------------------------------------
(* What an item comes to.                                                    *)

LEMMA OnceMore ==
    ASSUME NEW c \in Int, NEW n \in Int
    PROVE  c * n \in Int /\ c * (n + 1) = c + c * n
BY SMTT(30)
LEMMA NoTimes == ASSUME NEW c \in Int PROVE c * 0 = 0
OBVIOUS

\* The same amount, as often as it falls due.
LEMMA SumOfSame ==
    ASSUME NEW S, IsFiniteSet(S), NEW c \in Int, \A e \in S : e.value = c
    PROVE  Sum(S) = c * Cardinality(S)
<1> DEFINE f == ValueOf(S)
           bad == {s \in SUBSET S : SumOf(f, s) # c * Cardinality(s)}
<1>1. \A e \in S : f[e] = c BY DEF ValueOf
<1> HIDE DEF f
<1>2. bad = {}
  <2> SUFFICES ASSUME bad # {} PROVE FALSE OBVIOUS
  <2>1. \A s \in bad : IsFiniteSet(s) BY FS_Subset
  <2>2. \E s \in bad : \A u \in SUBSET s : u \in bad => u = s
    <3> HIDE DEF bad
    <3> QED BY <2>1, Smallest
  <2>3. PICK s \in bad : \A u \in SUBSET s : u \in bad => u = s BY <2>2
  <2>4. SumOf(f, s) # c * Cardinality(s) /\ s \in SUBSET S /\ IsFiniteSet(s) BY <2>1
  <2>5. s # {}
    <3>1. Cardinality({}) = 0 BY FS_EmptySet
    <3>2. SumOf(f, {}) = 0 BY SumNone
    <3>3. c * 0 = 0 BY NoTimes
    <3> SUFFICES ASSUME s = {} PROVE FALSE OBVIOUS
    <3> HIDE DEF bad
    <3> QED BY <2>4, <3>1, <3>2, <3>3
  <2>6. PICK r : r = s \ {Picked(s)} OBVIOUS
  <2>7. Picked(s) \in s BY <2>5, PickedIn
  <2>8. r \in SUBSET s /\ r \in SUBSET S /\ r # s BY <2>4, <2>6, <2>7
  <2>9. SumOf(f, r) = c * Cardinality(r) BY <2>3, <2>8
  <2>10. SumOf(f, s) = f[Picked(s)] + SumOf(f, r) BY <2>4, <2>5, <2>6, SumPicked
  <2>11. f[Picked(s)] = c BY <1>1, <2>4, <2>7
  <2>12. Cardinality(r) = Cardinality(s) - 1 BY <2>4, <2>6, <2>7, FS_RemoveElement
  <2>13. PICK n \in Nat : n = Cardinality(r) BY <2>4, <2>8, FS_Subset, FS_CardinalityType
  <2>14. Cardinality(s) = n + 1
    <3>1. Cardinality(s) \in Nat BY <2>4, FS_CardinalityType
    <3> QED BY <2>12, <2>13, <3>1
  <2>15. c * (n + 1) = c + c * n BY OnceMore
  <2> HIDE DEF bad
  <2> QED BY <2>4, <2>9, <2>10, <2>11, <2>13, <2>14, <2>15
<1>3. SumOf(f, S) = c * Cardinality(S) BY <1>2
<1> QED BY <1>3, SumIs DEF f

LEMMA MagnitudeTimes ==
    ASSUME NEW a \in Int, NEW n \in Nat
    PROVE  Magnitude(a * n) = Magnitude(a) * n
<1>1. CASE a < 0
  <2>1. (0 - a) * n = 0 - a * n BY SMTT(30)
  <2>2. a * n <= 0 BY <1>1, SMTT(30)
  <2>3. PICK p \in Int : p = a * n OBVIOUS
  <2>4. Magnitude(a) = 0 - a BY <1>1 DEF Magnitude
  <2>5. Magnitude(p) = 0 - p BY <2>2, <2>3 DEF Magnitude
  <2> QED BY <2>1, <2>3, <2>4, <2>5
<1>2. CASE a >= 0
  <2>1. a * n >= 0 BY <1>2, SMTT(30)
  <2>2. PICK p \in Int : p = a * n OBVIOUS
  <2>3. Magnitude(a) = a BY <1>2 DEF Magnitude
  <2>4. Magnitude(p) = p BY <2>1, <2>2 DEF Magnitude
  <2> QED BY <2>2, <2>3, <2>4
<1> QED BY <1>1, <1>2

ItemEntries(entries, k, b, n) == {e \in entries : e.key = k /\ e.id[1] = b /\ e.id[2] = n}
LEMMA ItemAmount ==
    ASSUME NEW ids \in SUBSET DOMAIN Plans, NEW from \in Int, NEW to \in Int,
           NEW b \in ids, NEW n \in DOMAIN Plans[b].items, NEW k,
           Plans[b].items[n].currency \in {Unset, Fx.display}
    PROVE  Magnitude(AmountInPeriod(Plans[b].items[n], Lifespan(Plans[b]), k, Period, from, to, tax))
              = Sum(ItemEntries(Planned(ids, from, to), k, b, n))
<1>1. PICK item \in Items : item = Plans[b].items[n] BY PlanTyped
<1>2. item.amount \in Int BY DEF Items
<1> DEFINE D == {d \in OccurrencesIn(item, Lifespan(Plans[b]), from, to) : PeriodKey(d, Period, tax) = k}
           E == {e \in Planned(ids, from, to) : e.key = k /\ e.id[1] = b /\ e.id[2] = n}
           f == [d \in D |-> PlanEntry(b, n, d)]
<1>3. \A d : d \in D <=> IsDue(b, n, d, from, to) /\ PeriodKey(d, Period, tax) = k
  BY <1>1, OccurrencesDue DEF IsDue
<1> HIDE DEF D
<1>4. \A d \in D : d \in Int /\ IsDue(b, n, d, from, to) BY <1>3 DEF IsDue
<1>5. \A d \in D : /\ PlanEntry(b, n, d).id = <<b, n, d>> /\ PlanEntry(b, n, d).id[1] = b
                   /\ PlanEntry(b, n, d).id[2] = n /\ PlanEntry(b, n, d).id[3] = d
                   /\ PlanEntry(b, n, d).key = k
  BY <1>3, <1>4, PlanEntryIs
<1>6. ASSUME NEW d \in D PROVE PlanEntry(b, n, d) \in E
  <2>1. PlanEntry(b, n, d) \in Planned(ids, from, to) BY <1>4, PlannedHas
  <2> QED BY <1>5, <2>1
<1>7. ASSUME NEW e \in E PROVE \E d \in D : f[d] = e
  <2>1. PICK c, m, d : c \in ids /\ e = PlanEntry(c, m, d) /\ IsDue(c, m, d, from, to)
    <3>1. e \in Planned(ids, from, to) OBVIOUS
    <3> QED BY <3>1, PlannedHas
  <2>2. c \in DOMAIN Plans /\ m \in DOMAIN Plans[c].items /\ d \in Int BY <2>1 DEF IsDue
  <2>3. e.id[1] = c /\ e.id[2] = m /\ e.key = PeriodKey(d, Period, tax) BY <2>1, <2>2, PlanEntryIs
  <2>4. c = b /\ m = n /\ PeriodKey(d, Period, tax) = k BY <2>3
  <2>5. d \in D BY <1>3, <2>1, <2>4
  <2> QED BY <2>1, <2>4, <2>5
<1>8. f \in Surjection(D, E)
  <2>1. \A d \in D : f[d] \in E BY <1>6
  <2>2. f \in [D -> E]
    <3> HIDE DEF E
    <3> QED BY <2>1
  <2> HIDE DEF f, E
  <2> QED BY <1>7, <2>2 DEF Surjection
<1>9. f \in Injection(D, E)
  <2>1. \A d, e \in D : f[d] = f[e] => d = e BY <1>5
  <2>2. f \in [D -> E] BY <1>8 DEF Surjection
  <2> HIDE DEF f, E
  <2> QED BY <2>1, <2>2 DEF Injection, IsInjective
<1>10. IsFiniteSet(D)
  <2>1. D \in SUBSET (from..(to - 1)) BY <1>4 DEF IsDue
  <2>2. to - 1 \in Int OBVIOUS
  <2> QED BY <2>1, <2>2, FS_Interval, FS_Subset
<1>11. IsFiniteSet(E) /\ Cardinality(E) = Cardinality(D)
  <2> HIDE DEF f, E
  <2> QED BY <1>8, <1>9, <1>10, FS_Surjection
<1>12. PICK v \in Int : v = Magnitude(item.amount) BY <1>2 DEF Magnitude
<1>13. \A e \in E : e.value = v
  <2> SUFFICES ASSUME NEW e \in E PROVE e.value = v OBVIOUS
  <2>1. PICK d \in D : f[d] = e BY <1>7
  <2>2. d \in Int /\ e = PlanEntry(b, n, d) BY <1>4, <2>1
  <2> HIDE DEF E, f
  <2> QED BY <1>1, <1>12, <2>2, PlanEntryIs
<1>14. Sum(E) = v * Cardinality(E)
  <2> HIDE DEF E
  <2> QED BY <1>11, <1>13, SumOfSame
<1>15. AmountInPeriod(item, Lifespan(Plans[b]), k, Period, from, to, tax) = item.amount * Cardinality(D)
  BY Zenon DEF AmountInPeriod, D
<1>16. Cardinality(D) \in Nat BY <1>10, FS_CardinalityType
<1>17. Magnitude(item.amount * Cardinality(D)) = v * Cardinality(D)
  BY <1>2, <1>12, <1>16, MagnitudeTimes
<1> HIDE DEF E
<1>18. Magnitude(AmountInPeriod(item, Lifespan(Plans[b]), k, Period, from, to, tax)) = Sum(E)
  BY <1>11, <1>14, <1>15, <1>17
<1> QED BY <1>1, <1>18 DEF E, ItemEntries

LEMMA NextIs ==
    ASSUME NEW item \in Items, NEW span, NEW d0 \in Int, d0 > Open
    PROVE  LET next == NextOccurrence(item, span, d0)
           IN  \A d \in d0..(IF next = Open THEN d0 + AskedDays ELSE next) :
                  DueOn(item, span, d) <=> d = next
<1> DEFINE found == OccurrencesIn(item, span, d0, d0 + 732)
           next == NextOccurrence(item, span, d0)
<1>1. PICK last \in Int : last = d0 + 732 OBVIOUS
<1>2. found = {d \in d0..(last - 1) : DueOn(item, span, d)} BY <1>1, OccurrencesDue
<1>3. next = IF found = {} THEN Open ELSE Min(found) BY Zenon DEF NextOccurrence
<1>4. Open \in Int /\ AskedDays \in Int /\ AskedDays < 732 BY DEF Open, AskedDays
<1>5. IsFiniteSet(found) /\ found \in SUBSET Int
  <2>1. found \in SUBSET (d0..(last - 1)) BY <1>2
  <2>2. last - 1 \in Int OBVIOUS
  <2>3. IsFiniteSet(d0..(last - 1)) BY <2>2, FS_Interval
  <2>4. found \in SUBSET Int BY <1>2
  <2> HIDE DEF found
  <2>5. IsFiniteSet(found) BY <2>1, <2>3, FS_Subset
  <2> QED BY <2>4, <2>5
<1> HIDE DEF found
<1>6. found # {} => Min(found) \in found /\ \A y \in found : Min(found) <= y BY <1>5, LeastOf
<1> HIDE DEF next
<1>7. CASE found = {}
  <2>1. next = Open BY <1>3, <1>7
  <2>2. ASSUME NEW d \in d0..(d0 + AskedDays) PROVE ~DueOn(item, span, d) /\ d # Open
    <3>1. d \in d0..(last - 1) BY <1>1, <1>4, <2>2
    <3> QED BY <1>2, <1>4, <1>7, <3>1
  <2> QED BY <2>1, <2>2 DEF next
<1>8. CASE found # {}
  <2>1. next \in found /\ (\A y \in found : next <= y) /\ next # Open
    BY <1>2, <1>3, <1>4, <1>6, <1>8
  <2>2. ASSUME NEW d \in d0..next PROVE DueOn(item, span, d) <=> d = next
    <3>1. next \in d0..(last - 1) /\ DueOn(item, span, next) BY <1>2, <2>1
    <3>2. d \in d0..(last - 1) BY <3>1
    <3>3. d # next => d < next /\ next \in Int /\ d \in Int BY <3>1
    <3> QED BY <1>2, <2>1, <3>1, <3>2, <3>3
  <2> QED BY <2>1, <2>2 DEF next
<1> QED BY <1>7, <1>8

-----------------------------------------------------------------------------
(* A plan against what happened.                                             *)

LEMMA SumOfTwo ==
    ASSUME NEW A, NEW B, Valued(A), Valued(B), A \cap B = {}
    PROVE  Sum(A \cup B) = Sum(A) + Sum(B) /\ Valued(A \cup B)
<1>1. PICK S : S = A \cup B OBVIOUS
<1>2. IsFiniteSet(S) /\ IsFiniteSet(A) /\ IsFiniteSet(B) BY <1>1, FS_Union DEF Valued
<1>3. PICK f : f = ValueOf(S) OBVIOUS
<1>4. \A e \in S : f[e] = e.value /\ f[e] \in Int BY <1>1, <1>3 DEF ValueOf, Valued
<1>5. A \in SUBSET S /\ B \in SUBSET S BY <1>1
<1>6. SumOf(f, A \cup B) = SumOf(f, A) + SumOf(f, B) BY <1>2, <1>4, <1>5, SumApart
<1>7. Sum(A) = SumOf(f, A)
  <2>1. \A e \in A : ValueOf(A)[e] = f[e] BY <1>4, <1>5 DEF ValueOf
  <2> QED BY <1>2, <2>1, SumIs, SumSame
<1>8. Sum(B) = SumOf(f, B)
  <2>1. \A e \in B : ValueOf(B)[e] = f[e] BY <1>4, <1>5 DEF ValueOf
  <2> QED BY <1>2, <2>1, SumIs, SumSame
<1>9. Sum(S) = SumOf(f, S) BY <1>2, <1>3, SumIs
<1>10. Valued(S) BY <1>2, <1>4 DEF Valued
<1> QED BY <1>1, <1>6, <1>7, <1>8, <1>9, <1>10

LEMMA SumOfOne ==
    ASSUME NEW e, e.value \in Int
    PROVE  Sum({e}) = e.value /\ Valued({e})
<1>1. PICK S : S = {e} OBVIOUS
<1>2. IsFiniteSet(S) BY <1>1, FS_Singleton
<1>3. PICK f : f = ValueOf(S) OBVIOUS
<1>4. \A x \in S : f[x] \in Int BY <1>1, <1>3 DEF ValueOf
<1>5. f[e] = e.value BY <1>1, <1>3 DEF ValueOf
<1>6. e \in S /\ S \ {e} = {} BY <1>1
<1>7. SumOf(f, S) = f[e] + SumOf(f, S \ {e}) BY <1>2, <1>4, <1>6, SumWith
<1>8. SumOf(f, {}) = 0 BY SumNone
<1>9. SumOf(f, S) = e.value
  <2>1. SumOf(f, S \ {e}) = 0 BY <1>6, <1>8
  <2>2. SumOf(f, S) = e.value + 0 BY <1>5, <1>7, <2>1
  <2> QED BY <2>2
<1>10. Sum(S) = SumOf(f, S) BY <1>2, <1>3, SumIs
<1>11. Valued(S) BY <1>1, <1>2 DEF Valued
<1> QED BY <1>1, <1>9, <1>10, <1>11

LEMMA SumOfNone == Sum({}) = 0 /\ Valued({})
<1>1. PICK S : S = {} OBVIOUS
<1>2. IsFiniteSet(S) BY <1>1, FS_EmptySet
<1>3. Sum(S) = SumOf(ValueOf(S), S) BY <1>2, SumIs
<1>4. SumOf(ValueOf(S), {}) = 0 BY SumNone
<1> QED BY <1>1, <1>2, <1>3, <1>4 DEF Valued

LEMMA SumInt == ASSUME NEW S, Valued(S) PROVE Sum(S) \in Int
<1>1. \A e \in S : ValueOf(S)[e] \in Int BY DEF Valued, ValueOf
<1>2. IsFiniteSet(S) BY DEF Valued
<1>3. SumOf(ValueOf(S), S) \in Int BY <1>1, <1>2, SumTyped
<1> QED BY <1>2, <1>3, SumIs

Negated(e) == [e EXCEPT !.value = 0 - e.value]
IsEntry(e) ==
    /\ e = [id |-> e.id, key |-> e.key, side |-> e.side, group |-> e.group,
            label |-> e.label, merchant |-> e.merchant, value |-> e.value]
    /\ e.value \in Int
LEMMA NegatedIs ==
    ASSUME NEW e, IsEntry(e)
    PROVE  /\ Negated(e).value = 0 - e.value /\ Negated(e).value \in Int
           /\ Negated(e).side = e.side /\ Negated(e).id = e.id
           /\ \A x : IsEntry(x) /\ Negated(x) = Negated(e) => x = e
<1>1. ASSUME NEW x, IsEntry(x)
      PROVE  Negated(x) = [id |-> x.id, key |-> x.key, side |-> x.side, group |-> x.group,
                           label |-> x.label, merchant |-> x.merchant, value |-> 0 - x.value]
  BY <1>1 DEF IsEntry, Negated
<1>2. ASSUME NEW x, IsEntry(x)
      PROVE  /\ Negated(x).id = x.id /\ Negated(x).key = x.key /\ Negated(x).side = x.side
             /\ Negated(x).group = x.group /\ Negated(x).label = x.label
             /\ Negated(x).merchant = x.merchant /\ Negated(x).value = 0 - x.value
  BY <1>1, <1>2
<1>3. ASSUME NEW x, IsEntry(x), Negated(x) = Negated(e) PROVE x = e
  <2>1. /\ x.id = e.id /\ x.key = e.key /\ x.side = e.side /\ x.group = e.group
        /\ x.label = e.label /\ x.merchant = e.merchant /\ 0 - x.value = 0 - e.value
    BY <1>2, <1>3
  <2>2. x.value \in Int /\ e.value \in Int BY <1>3 DEF IsEntry
  <2>3. x.value = e.value BY <2>1, <2>2
  <2> QED BY <1>3, <2>1, <2>3 DEF IsEntry
<1>4. e.value \in Int BY DEF IsEntry
<1> QED BY <1>2, <1>3, <1>4

LEMMA SumNegated ==
    ASSUME NEW B, IsFiniteSet(B), \A e \in B : IsEntry(e)
    PROVE  Sum({Negated(e) : e \in B}) = 0 - Sum(B) /\ Valued({Negated(e) : e \in B})
<1> DEFINE Neg(s) == {Negated(e) : e \in s}
           bad == {s \in SUBSET B : ~(Valued(Neg(s)) /\ Sum(Neg(s)) = 0 - Sum(s))}
<1>1. \A s \in SUBSET B : Valued(s)
  <2>1. \A s \in SUBSET B : IsFiniteSet(s) BY FS_Subset
  <2> QED BY <2>1 DEF Valued, IsEntry
<1>2. bad = {}
  <2> SUFFICES ASSUME bad # {} PROVE FALSE OBVIOUS
  <2>1. \A s \in bad : IsFiniteSet(s) BY <1>1 DEF Valued
  <2>2. \E s \in bad : \A u \in SUBSET s : u \in bad => u = s
    <3> HIDE DEF bad
    <3> QED BY <2>1, Smallest
  <2>3. PICK s \in bad : \A u \in SUBSET s : u \in bad => u = s BY <2>2
  <2>4. s \in SUBSET B /\ ~(Valued(Neg(s)) /\ Sum(Neg(s)) = 0 - Sum(s)) BY <2>3
  <2>5. s # {}
    <3>1. Neg({}) = {} OBVIOUS
    <3> HIDE DEF Neg, bad
    <3> QED BY <2>4, <3>1, SumOfNone
  <2>6. PICK x \in s : TRUE BY <2>5
  <2>7. PICK r : r = s \ {x} OBVIOUS
  <2>8. r \in SUBSET s /\ r \in SUBSET B /\ r # s BY <2>4, <2>6, <2>7
  <2>9. Valued(Neg(r)) /\ Sum(Neg(r)) = 0 - Sum(r) BY <2>3, <2>8
  <2>10. IsEntry(x) BY <2>4, <2>6
  <2>11. x.value \in Int /\ Negated(x).value \in Int /\ Negated(x).value = 0 - x.value
    BY <2>10, NegatedIs DEF IsEntry
  <2>12. Sum({x}) = x.value /\ Valued({x}) BY <2>11, SumOfOne
  <2>13. Sum({Negated(x)}) = 0 - x.value /\ Valued({Negated(x)}) BY <2>11, SumOfOne
  <2>14. Neg(s) = Neg(r) \cup {Negated(x)} BY <2>6, <2>7
  <2>15. Neg(r) \cap {Negated(x)} = {}
    <3> SUFFICES ASSUME NEW e \in r, Negated(e) = Negated(x) PROVE FALSE OBVIOUS
    <3>1. IsEntry(e) /\ e # x BY <2>7, <2>8
    <3> QED BY <2>10, <3>1, NegatedIs
  <2>16. s = r \cup {x} /\ r \cap {x} = {} BY <2>6, <2>7
  <2>17. Valued(r) BY <1>1, <2>8
  <2>18. Sum(s) = Sum(r) + x.value
    <3>1. Sum(r \cup {x}) = Sum(r) + Sum({x}) BY <2>12, <2>16, <2>17, SumOfTwo
    <3> QED BY <2>12, <2>16, <3>1
  <2> HIDE DEF Neg, bad
  <2>19. Sum(Neg(s)) = Sum(Neg(r)) + (0 - x.value) /\ Valued(Neg(s))
    <3>1. Sum(Neg(r) \cup {Negated(x)}) = Sum(Neg(r)) + Sum({Negated(x)})
          /\ Valued(Neg(r) \cup {Negated(x)})
      BY <2>9, <2>13, <2>15, SumOfTwo
    <3> QED BY <2>13, <2>14, <3>1
  <2>20. Sum(r) \in Int BY <2>17, SumInt
  <2> QED BY <2>4, <2>9, <2>11, <2>18, <2>19, <2>20
<1> QED BY <1>2

LEMMA EntryIds ==
    ASSUME NEW r, NEW n, NEW period, NEW count, NEW o, NEW t,
           NEW e \in Historic(r, Fx, n, period, count, o, t)
    PROVE  \E i : e.id = <<i>>
<1>1. \E i : e = HistoricEntry(i, r[i], Fx, TransactionPeriodKey(r[i], period, t))
  BY DEF Historic
<1>2. PICK i : e = HistoricEntry(i, r[i], Fx, TransactionPeriodKey(r[i], period, t)) BY <1>1
<1>3. e.id = <<i>> BY <1>2 DEF HistoricEntry
<1> QED BY <1>3

\* What is due before a day is what is due up to that day.
LEMMA PlannedBefore ==
    ASSUME NEW ids \in SUBSET DOMAIN Plans, NEW from \in Int, NEW to \in Int, NEW day \in Int, NEW s
    PROVE  {e \in Planned(ids, from, IF day < to THEN day ELSE to) : e.side = s}
              = {e \in Planned(ids, from, to) : e.side = s /\ e.id[3] < day}
<1>1. PICK z \in Int : z = IF day < to THEN day ELSE to OBVIOUS
<1>2. ASSUME NEW e PROVE e \in Planned(ids, from, z) <=> e \in Planned(ids, from, to) /\ e.id[3] < day
  <2>1. ASSUME e \in Planned(ids, from, z) PROVE e \in Planned(ids, from, to) /\ e.id[3] < day
    <3>1. PICK b, n, d : b \in ids /\ e = PlanEntry(b, n, d) /\ IsDue(b, n, d, from, z)
      BY <2>1, PlannedHas
    <3>2. n \in DOMAIN Plans[b].items /\ d \in Int /\ d < z BY <3>1 DEF IsDue
    <3>3. d < to /\ d < day BY <1>1, <3>2
    <3>4. IsDue(b, n, d, from, to) BY <3>1, <3>2, <3>3 DEF IsDue
    <3>5. e.id[3] = d BY <3>1, <3>2, PlanEntryIs
    <3> QED BY <3>1, <3>3, <3>4, <3>5, PlannedHas
  <2>2. ASSUME e \in Planned(ids, from, to), e.id[3] < day PROVE e \in Planned(ids, from, z)
    <3>1. PICK b, n, d : b \in ids /\ e = PlanEntry(b, n, d) /\ IsDue(b, n, d, from, to)
      BY <2>2, PlannedHas
    <3>2. n \in DOMAIN Plans[b].items /\ d \in Int /\ d < to BY <3>1 DEF IsDue
    <3>3. e.id[3] = d BY <3>1, <3>2, PlanEntryIs
    <3>4. IsDue(b, n, d, from, z) BY <1>1, <2>2, <3>1, <3>2, <3>3 DEF IsDue
    <3> QED BY <3>1, <3>4, PlannedHas
  <2> QED BY <2>1, <2>2
<1> QED BY <1>1, <1>2

LEMMA PlannedEntriesAre ==
    ASSUME NEW ids \in SUBSET DOMAIN Plans, NEW from, NEW to, NEW e \in Planned(ids, from, to)
    PROVE  IsEntry(e) /\ \E b, n, d : e.id = <<b, n, d>>
<1>1. PICK b, n, d : b \in ids /\ e = PlanEntry(b, n, d) /\ IsDue(b, n, d, from, to) BY PlannedHas
<1>2. n \in DOMAIN Plans[b].items /\ d \in Int BY <1>1 DEF IsDue
<1>3. e.id = <<b, n, d>> BY <1>1, <1>2, PlanEntryIs
<1>4. IsEntry(e) BY <1>1, <1>2, PlanEntryIs DEF IsEntry
<1> QED BY <1>3, <1>4

LEMMA VarianceIs ==
    ASSUME NEW due, NEW entries, Valued(entries), IsFiniteSet(due),
           \A e \in entries : \E i : e.id = <<i>>,
           \A e \in due : IsEntry(e) /\ \E b, n, d : e.id = <<b, n, d>>,
           NEW s
    PROVE  SideTotal(Variance(due, entries), s) = SideTotal(entries, s) - SideTotal(due, s)
<1> DEFINE A == {e \in entries : e.side = s}
           B == {e \in due : e.side = s}
           N == {Negated(e) : e \in B}
<1>1. Variance(due, entries) = entries \cup {Negated(e) : e \in due} BY DEF Variance, Negated
<1>2. {e \in Variance(due, entries) : e.side = s} = A \cup N
  <2>1. \A e \in due : Negated(e).side = e.side BY NegatedIs
  <2> QED BY <1>1, <2>1
<1>3. Valued(A)
  <2>1. IsFiniteSet(A) BY FS_Subset DEF Valued
  <2> QED BY <2>1 DEF Valued
<1>4. IsFiniteSet(B) /\ \A e \in B : IsEntry(e)
  <2>1. IsFiniteSet(B) BY FS_Subset
  <2> QED BY <2>1
<1>5. Valued(B) BY <1>4 DEF Valued, IsEntry
<1>6. A \cap N = {}
  <2> SUFFICES ASSUME NEW e \in B, Negated(e) \in A PROVE FALSE OBVIOUS
  <2>1. Negated(e).id = e.id BY NegatedIs
  <2>2. PICK i : Negated(e).id = <<i>> OBVIOUS
  <2>3. PICK b, n, d : e.id = <<b, n, d>> OBVIOUS
  <2>4. <<i>> = <<b, n, d>> BY <2>1, <2>2, <2>3
  <2>5. Len(<<i>>) = 1 /\ Len(<<b, n, d>>) = 3 OBVIOUS
  <2> QED BY <2>4, <2>5
<1> HIDE DEF A, B
<1>7. Sum(N) = 0 - Sum(B) /\ Valued(N) BY <1>4, SumNegated
<1> HIDE DEF N
<1>8. Sum(A \cup N) = Sum(A) + Sum(N) BY <1>3, <1>6, <1>7, SumOfTwo
<1>9. Sum(A) \in Int /\ Sum(B) \in Int BY <1>3, <1>5, SumInt
<1>10. Sum(A \cup N) = Sum(A) - Sum(B) BY <1>7, <1>8, <1>9
<1> QED BY <1>2, <1>10 DEF SideTotal, A, B

-----------------------------------------------------------------------------
(* The pages.                                                                *)

UrlTyped(u) ==
    /\ u.from \in Int /\ u.page \in Pages /\ u.view \in Views /\ u.basis \in Bases
    /\ u = [page |-> u.page, view |-> u.view, basis |-> u.basis, from |-> u.from, base |-> u.base]
RowsTyped(r) == IsFiniteSet(DOMAIN r) /\ r \in [DOMAIN r -> Recorded]
Typed ==
    /\ now \in Days /\ tax \in Taxes /\ arrived \in 1..Len(Batches)
    /\ UrlTyped(url) /\ RowsTyped(rows)
Loaded == Page(now, tax, rows, url, shown)

LEMMA Resolved ==
    ASSUME NEW view \in Views, NEW basis \in Bases
    PROVE  ResolvePeriod(view, basis) \in Periods
BY DEF ResolvePeriod, HasTaxForm, TaxForm, Periods, Views, TaxPeriods

\* What is on the screen, as computed for its url.
OpenedAt(n, t, u) ==
    IF u.from = Open THEN 0
    ELSE OffsetForStartDate(n, ResolvePeriod(u.view, u.basis), PeriodsShown[u.page], u.from, t)
\* The plan whose budgets a window of a page counts.
IdsIn(u, span) ==
    IF BaseIn(u, BudgetsInWindow(Plans, span)) = Unset THEN {}
    ELSE BaseWithActiveLayers(BaseIn(u, BudgetsInWindow(Plans, span)), Plans, span)
LEMMA PageIs ==
    ASSUME NEW n, NEW t, NEW r, NEW u, NEW screen, Page(n, t, r, u, screen)
    PROVE  LET period == ResolvePeriod(u.view, u.basis)
               count == PeriodsShown[u.page]
               o == OpenedAt(n, t, u)
               span == Spanned(n, period, count, o, t)
           IN  screen = [offset |-> o, keys |-> PeriodWindow(n, period, count, o, t), span |-> span,
                      entries |-> Historic(r, Fx, n, period, count, o, t),
                      older |-> HasOlder(r, n, period, count, o, t),
                      base |-> BaseIn(u, BudgetsInWindow(Plans, span)), ids |-> IdsIn(u, span),
                      planned |-> PlannedFor(IdsIn(u, span), Plans, Fx, n, period, count, o, t, FALSE),
                      due |-> PlannedFor(IdsIn(u, span), Plans, Fx, n, period, count, o, t, TRUE)]
<1> DEFINE period == ResolvePeriod(u.view, u.basis)
           count == PeriodsShown[u.page]
           O == IF u.from = Open THEN 0 ELSE OffsetForStartDate(n, period, count, u.from, t)
           S(o) == Spanned(n, period, count, o, t)
           B(span) == BaseIn(u, BudgetsInWindow(Plans, span))
           I(base, span) == IF base = Unset THEN {} ELSE BaseWithActiveLayers(base, Plans, span)
           R(o, span, base, ids) ==
               [offset |-> o, keys |-> PeriodWindow(n, period, count, o, t), span |-> span,
                entries |-> Historic(r, Fx, n, period, count, o, t),
                older |-> HasOlder(r, n, period, count, o, t),
                base |-> base, ids |-> ids,
                planned |-> PlannedFor(ids, Plans, Fx, n, period, count, o, t, FALSE),
                due |-> PlannedFor(ids, Plans, Fx, n, period, count, o, t, TRUE)]
<1>1. \E o \in {O} : \E span \in {S(o)} : \E base \in {B(span)} : \E ids \in {I(base, span)} :
         screen = R(o, span, base, ids)
  BY Zenon DEF Page
<1>2. O = OpenedAt(n, t, u) BY DEF OpenedAt
<1>3. \A span : I(B(span), span) = IdsIn(u, span) BY DEF IdsIn
<1> HIDE DEF O, S, B, I, R
<1>4. screen = R(O, S(O), B(S(O)), I(B(S(O)), S(O))) BY <1>1
<1>5. screen = R(O, S(O), B(S(O)), IdsIn(u, S(O))) BY <1>3, <1>4
<1> QED BY <1>2, <1>5, ZenonT(40) DEF O, S, B, R

\* The same, as a function of the offset its page is opened at.
LEMMA PageShows ==
    ASSUME NEW n, NEW t, NEW r, NEW u, NEW screen, Page(n, t, r, u, screen)
    PROVE  LET period == ResolvePeriod(u.view, u.basis)
               count == PeriodsShown[u.page]
           IN  \E o \in Nat : /\ o = IF u.from = Open THEN 0
                                     ELSE OffsetForStartDate(n, period, count, u.from, t)
                             /\ screen.offset = o
                             /\ screen.keys = PeriodWindow(n, period, count, o, t)
                             /\ screen.span = Spanned(n, period, count, o, t)
                             /\ screen.entries = Historic(r, Fx, n, period, count, o, t)
                             /\ screen.older = HasOlder(r, n, period, count, o, t)
<1>1. OpenedAt(n, t, u) \in Nat BY OffsetFinds DEF OffsetForStartDate, OpenedAt
<1> DEFINE period == ResolvePeriod(u.view, u.basis)
           count == PeriodsShown[u.page]
           o == OpenedAt(n, t, u)
           span == Spanned(n, period, count, o, t)
           keys == PeriodWindow(n, period, count, o, t)
           entries == Historic(r, Fx, n, period, count, o, t)
           older == HasOlder(r, n, period, count, o, t)
           base == BaseIn(u, BudgetsInWindow(Plans, span))
           ids == IdsIn(u, span)
           planned == PlannedFor(ids, Plans, Fx, n, period, count, o, t, FALSE)
           due == PlannedFor(ids, Plans, Fx, n, period, count, o, t, TRUE)
<1>2. screen = [offset |-> o, keys |-> keys, span |-> span, entries |-> entries, older |-> older,
                base |-> base, ids |-> ids, planned |-> planned, due |-> due]
  BY PageIs
<1>3. /\ screen.offset = o /\ screen.keys = keys /\ screen.span = span
      /\ screen.entries = entries /\ screen.older = older
  <2> HIDE DEF o, keys, span, entries, older, base, ids, planned, due
  <2> QED BY <1>2
<1>4. o = IF u.from = Open THEN 0 ELSE OffsetForStartDate(n, period, count, u.from, t)
  BY DEF OpenedAt
<1>5. PICK at \in Nat : at = o BY <1>1
<1>6. /\ at = IF u.from = Open THEN 0 ELSE OffsetForStartDate(n, period, count, u.from, t)
      /\ screen.offset = at
      /\ screen.keys = PeriodWindow(n, period, count, at, t)
      /\ screen.span = Spanned(n, period, count, at, t)
      /\ screen.entries = Historic(r, Fx, n, period, count, at, t)
      /\ screen.older = HasOlder(r, n, period, count, at, t)
  <2> HIDE DEF o
  <2> QED BY <1>3, <1>4, <1>5
<1> HIDE DEF period, count
<1> QED BY <1>6 DEF period, count

\* The window on the screen, by its place among the periods of its kind.
LEMMA Screen ==
    ASSUME Typed, Loaded
    PROVE  /\ Period \in Periods /\ tax \in TaxYears /\ now \in Int /\ Count \in Nat /\ Count >= 1
           /\ rows \in [DOMAIN rows -> Recorded] /\ IsFiniteSet(DOMAIN rows)
           /\ \E o \in Nat, f \in Int :
                 /\ shown.keys = PeriodWindow(now, Period, Count, o, tax)
                 /\ shown.keys = [j \in 1..Count |-> KeyNo(f + j, Period, tax)]
                 /\ shown.span.from = FirstDay(f + 1, Period, tax)
                 /\ shown.entries = Historic(rows, Fx, now, Period, Count, o, tax)
                 /\ shown.older = HasOlder(rows, now, Period, Count, o, tax)
<1>1. /\ tax \in TaxYears /\ now \in Int
      /\ rows \in [DOMAIN rows -> Recorded] /\ IsFiniteSet(DOMAIN rows)
  BY DaysAssumption, ChoicesAssumption DEF Typed, RowsTyped
<1>2. Period \in Periods BY Resolved DEF Period, Typed, UrlTyped
<1>3. Count \in Nat /\ Count >= 1 BY DEF Count, PeriodsShown, Pages, Typed, UrlTyped
<1>4. PICK o \in Nat : /\ shown.keys = PeriodWindow(now, Period, Count, o, tax)
                       /\ shown.span = Spanned(now, Period, Count, o, tax)
                       /\ shown.entries = Historic(rows, Fx, now, Period, Count, o, tax)
                       /\ shown.older = HasOlder(rows, now, Period, Count, o, tax)
  BY PageShows DEF Loaded, Period, Count
<1>5. /\ Number(now, Period, tax) \in Int
      /\ PeriodWindow(now, Period, Count, o, tax)
           = [j \in 1..Count |-> KeyNo(Number(now, Period, tax) - (o + Count - j), Period, tax)]
  BY <1>1, <1>2, <1>3, WindowIs
<1> PICK f \in Int : f = Number(now, Period, tax) - (o + Count) BY <1>3, <1>5
<1>6. \A j \in 1..Count : Number(now, Period, tax) - (o + Count - j) = f + j BY <1>3, <1>5
<1>7. shown.keys = [j \in 1..Count |-> KeyNo(f + j, Period, tax)] BY <1>4, <1>5, <1>6
<1>8. shown.span.from = FirstDay(f + 1, Period, tax)
  <2>1. shown.span.from = PeriodStart(shown.keys[1], Period, tax) BY <1>4 DEF Spanned
  <2>2. 1 \in 1..Count /\ f + 1 \in Int BY <1>3
  <2>3. shown.keys[1] = KeyNo(f + 1, Period, tax) BY <1>7, <2>2
  <2> QED BY <1>1, <1>2, <2>1, <2>2, <2>3, PeriodSpan
<1> QED BY <1>1, <1>2, <1>3, <1>4, <1>7, <1>8

LEMMA ScreenAbuts == ASSUME Typed, Loaded PROVE Abut
<1>1. Period \in Periods /\ tax \in TaxYears /\ Count \in Nat BY Screen
<1> PICK f \in Int : shown.keys = [j \in 1..Count |-> KeyNo(f + j, Period, tax)] BY Screen
<1> SUFFICES ASSUME NEW j \in 1..Count
             PROVE  LET k == shown.keys[j] IN
                    /\ PeriodKey(PeriodStart(k, Period, tax), Period, tax) = k
                    /\ j < Count => PeriodEnd(k, Period, tax)
                                      = PeriodStart(shown.keys[j + 1], Period, tax)
  BY DEF Abut
<1> PICK m \in Int : m = f + j BY <1>1
<1>2. shown.keys[j] = KeyNo(m, Period, tax) OBVIOUS
<1>3. /\ PeriodStart(KeyNo(m, Period, tax), Period, tax) = FirstDay(m, Period, tax)
      /\ PeriodEnd(KeyNo(m, Period, tax), Period, tax) = FirstDay(m + 1, Period, tax)
      /\ PeriodKey(FirstDay(m, Period, tax), Period, tax) = KeyNo(m, Period, tax)
  BY <1>1, PeriodSpan
<1>4. ASSUME j < Count
      PROVE  PeriodStart(shown.keys[j + 1], Period, tax) = FirstDay(m + 1, Period, tax)
  <2>1. j + 1 \in 1..Count /\ f + (j + 1) = m + 1 /\ m + 1 \in Int BY <1>1, <1>4
  <2>2. shown.keys[j + 1] = KeyNo(m + 1, Period, tax) BY <2>1
  <2> QED BY <1>1, <2>1, <2>2, PeriodSpan
<1> QED BY <1>2, <1>3, <1>4

LEMMA ScreenPlaces == ASSUME Typed, Loaded PROVE InPlace
<1>1. Period \in Periods /\ tax \in TaxYears /\ now \in Int /\ Count \in Nat
      /\ rows \in [DOMAIN rows -> Recorded]
  BY Screen
<1>2. PICK o \in Nat, f \in Int :
         /\ shown.keys = PeriodWindow(now, Period, Count, o, tax)
         /\ shown.keys = [j \in 1..Count |-> KeyNo(f + j, Period, tax)]
         /\ shown.entries = Historic(rows, Fx, now, Period, Count, o, tax)
  BY Screen
<1> SUFFICES ASSUME NEW i \in DOMAIN rows, ~rows[i].transfer
             PROVE  {e.key : e \in {x \in shown.entries : x.id = <<i>>}} =
                        {k \in Range(shown.keys) :
                            IF Moved(rows[i]) THEN Closes(k, rows[i].taxYear)
                            ELSE PeriodStart(k, Period, tax) <= rows[i].date
                                 /\ rows[i].date < PeriodEnd(k, Period, tax)}
  BY DEF InPlace
<1>3. rows[i].date \in Int /\ rows[i].taxYear \in Int BY <1>1 DEF Recorded
<1>4. {e.key : e \in {x \in shown.entries : x.id = <<i>>}} =
        {k \in Range(shown.keys) : k = TransactionPeriodKey(rows[i], Period, tax)}
  <2>1. KeysShown(shown.entries, i) = KeysMeant(rows[i], shown.keys, Period, tax)
    <3>1. Dated(rows[i]) BY <1>3 DEF Dated
    <3>2. \A q \in Nat : KeysShown(Historic(rows, Fx, now, Period, q, o, tax), i)
            = KeysMeant(rows[i], PeriodWindow(now, Period, q, o, tax), Period, tax)
      <4> SUFFICES ASSUME NEW q \in Nat
             PROVE KeysShown(Historic(rows, Fx, now, Period, q, o, tax), i)
            = KeysMeant(rows[i], PeriodWindow(now, Period, q, o, tax), Period, tax)
        OBVIOUS
      <4>1. Period \in Periods /\ tax \in TaxYears /\ now \in Int BY <1>1
      <4> QED BY <4>1, <3>1, EntryKeys
    <3> QED BY <1>1, <1>2, <3>2
  <2> QED BY <2>1, Zenon DEF KeysShown, KeysMeant
<1>5. ASSUME NEW k \in Range(shown.keys)
      PROVE  k = TransactionPeriodKey(rows[i], Period, tax)
                <=> IF Moved(rows[i]) THEN Closes(k, rows[i].taxYear)
                    ELSE PeriodStart(k, Period, tax) <= rows[i].date
                         /\ rows[i].date < PeriodEnd(k, Period, tax)
  <2>1. PICK m \in Int : k = KeyNo(m, Period, tax)
    <3>1. PICK j \in 1..Count : k = KeyNo(f + j, Period, tax) BY <1>2 DEF Range
    <3>2. f + j \in Int BY <1>1
    <3> QED BY <3>1, <3>2
  <2>2. CASE Moved(rows[i])
    <3>1. Period \in TaxPeriods BY <2>2 DEF Moved
    <3>2. TransactionPeriodKey(rows[i], Period, tax) = <<rows[i].taxYear, LastOf(Period)>>
      BY <2>2 DEF Moved, TransactionPeriodKey, LastOf
    <3> PICK y \in Int : y = rows[i].taxYear BY <1>3
    <3>3. KeyNo(m, Period, tax) = <<y, LastOf(Period)>> <=> Closes(KeyNo(m, Period, tax), y)
      BY <1>1, <3>1, ClosesYear DEF Closes
    <3> QED BY <2>1, <2>2, <3>2, <3>3
  <2>3. CASE ~Moved(rows[i])
    <3>1. TransactionPeriodKey(rows[i], Period, tax) = PeriodKey(rows[i].date, Period, tax)
      BY <2>3 DEF Moved, TransactionPeriodKey
    <3> QED BY <1>1, <1>3, <2>1, <2>3, <3>1, InPeriod
  <2> QED BY <2>2, <2>3
<1> QED BY <1>4, <1>5

LEMMA ScreenReaches == ASSUME Typed, Loaded PROVE Reachable
<1>1. Period \in Periods /\ tax \in TaxYears /\ now \in Int /\ Count \in Nat /\ Count >= 1
      /\ rows \in [DOMAIN rows -> Recorded] /\ IsFiniteSet(DOMAIN rows)
  BY Screen
<1>2. PICK o \in Nat, f \in Int :
         /\ shown.keys = PeriodWindow(now, Period, Count, o, tax)
         /\ shown.keys = [j \in 1..Count |-> KeyNo(f + j, Period, tax)]
         /\ shown.span.from = FirstDay(f + 1, Period, tax)
         /\ shown.older = HasOlder(rows, now, Period, Count, o, tax)
  BY Screen
<1> DEFINE held == {i \in DOMAIN rows : rows[i].amount # 0}
           dates == {r.date : r \in {s \in Range(rows) : s.amount # 0}}
           first == FirstDay(f + 1, Period, tax)
<1>3. dates = {rows[i].date : i \in held} BY DEF Range
<1>4. dates \subseteq Int BY <1>1, <1>3 DEF Recorded
<1>5. IsFiniteSet(dates)
  <2>1. IsFiniteSet(held) BY <1>1, FS_Subset
  <2> DEFINE dateOf == [i \in held |-> rows[i].date]
  <2>2. dateOf \in Surjection(held, dates) BY <1>3 DEF Surjection
  <2> QED BY <2>1, <2>2, FS_Surjection
<1>6. shown.older <=> dates # {} /\ ~Upto(shown.keys[1], PeriodKey(Min(dates), Period, tax))
  BY <1>2 DEF HasOlder
<1> HIDE DEF held
<1>7. shown.keys[1] = KeyNo(f + 1, Period, tax)
  <2>1. 1 \in 1..Count BY <1>1
  <2> QED BY <1>2, <2>1
<1>8. ASSUME NEW d \in Int
      PROVE  Upto(shown.keys[1], PeriodKey(d, Period, tax)) <=> first <= d
  <2>1. /\ Number(d, Period, tax) \in Int
        /\ PeriodKey(d, Period, tax) = KeyNo(Number(d, Period, tax), Period, tax)
        /\ FirstDay(Number(d, Period, tax), Period, tax) <= d
        /\ d < FirstDay(Number(d, Period, tax) + 1, Period, tax)
    BY <1>1, PeriodsSliced DEF Sliced, Numbers
  <2> PICK a \in Int : a = Number(d, Period, tax) BY <2>1
  <2> PICK b \in Int : b = f + 1 OBVIOUS
  <2> PICK c \in Int : c = a + 1 OBVIOUS
  <2>2. Upto(KeyNo(b, Period, tax), KeyNo(a, Period, tax)) <=> b <= a
    BY <1>1, PeriodsSliced DEF InOrder
  <2>3. \A x \in Int : FirstDay(x, Period, tax) \in Int
    BY <1>1, PeriodsSliced DEF Sliced, Starts
  <2>4. \A x \in Int, y \in Int : x <= y => FirstDay(y, Period, tax) - FirstDay(x, Period, tax) >= y - x
    BY <1>1, PeriodsSliced DEF Sliced, Lasts
  <2>5. b <= a => first <= d
    <3> SUFFICES ASSUME b <= a PROVE first <= d OBVIOUS
    <3>1. FirstDay(a, Period, tax) - FirstDay(b, Period, tax) >= a - b BY <2>4
    <3>2. FirstDay(b, Period, tax) <= FirstDay(a, Period, tax) BY <2>3, <3>1
    <3> QED BY <2>1, <2>3, <3>2
  <2>6. ~(b <= a) => ~(first <= d)
    <3> SUFFICES ASSUME c <= b PROVE ~(first <= d) OBVIOUS
    <3>1. FirstDay(b, Period, tax) - FirstDay(c, Period, tax) >= b - c BY <2>4
    <3>2. FirstDay(c, Period, tax) <= FirstDay(b, Period, tax) BY <2>3, <3>1
    <3>3. d < FirstDay(c, Period, tax) BY <2>1
    <3> QED BY <2>3, <3>2, <3>3
  <2> QED BY <1>7, <2>1, <2>2, <2>5, <2>6
<1>9. first \in Int
  <2>1. f + 1 \in Int OBVIOUS
  <2> QED BY <1>1, <2>1, PeriodSpan
<1> HIDE DEF dates, first
<1>10. dates # {} => Min(dates) \in dates /\ \A d \in dates : Min(dates) <= d
  BY <1>4, <1>5, LeastOf
<1>11. shown.older <=> \E d \in dates : d < first
  <2>1. ASSUME dates # {}
        PROVE  /\ Min(dates) \in Int
               /\ ~Upto(shown.keys[1], PeriodKey(Min(dates), Period, tax)) <=> Min(dates) < first
    <3>1. Min(dates) \in Int BY <1>4, <1>10, <2>1
    <3> QED BY <1>8, <1>9, <3>1
  <2>2. ASSUME NEW d \in dates, d < first PROVE Min(dates) < first
    BY <1>4, <1>9, <1>10, <2>1, <2>2
  <2> QED BY <1>6, <1>10, <2>1, <2>2
<1>12. (\E d \in dates : d < first) <=> \E i \in DOMAIN rows : rows[i].amount # 0 /\ rows[i].date < first
  BY <1>3 DEF held
<1> QED BY <1>2, <1>11, <1>12 DEF Reachable, first

LEMMA ScreenAnchored == ASSUME Typed, Loaded PROVE Anchored
<1>1. Period \in Periods /\ tax \in TaxYears /\ now \in Int /\ Count \in Nat /\ Count >= 1
  BY Screen
<1>2. url.from \in Int BY DEF Typed, UrlTyped
<1> SUFFICES ASSUME url.from # Open PROVE Anchored BY DEF Anchored
<1> DEFINE k == PeriodKey(url.from, Period, tax)
           back == Number(now, Period, tax) - Number(url.from, Period, tax) - (Count - 1)
           o == OffsetForStartDate(now, Period, Count, url.from, tax)
<1>3. shown.offset = o /\ shown.keys = PeriodWindow(now, Period, Count, o, tax)
  BY PageShows DEF Loaded, Period, Count
<1>4. back \in Int /\ o = IF back \in 0..(MaxOffset - 1) THEN back ELSE 0 BY <1>1, <1>2, OffsetIs
<1>5. ASSUME NEW i \in Int PROVE Upto(FirstKey(i), k) <=> back <= i
  <2> PICK c \in Int : c = i + Count - 1 BY <1>1
  <2>1. Upto(FirstKey(i), k) <=> Number(now, Period, tax) - c <= Number(url.from, Period, tax)
    BY <1>1, <1>2, WindowReached DEF FirstKey
  <2>2. Number(now, Period, tax) \in Int /\ Number(url.from, Period, tax) \in Int
    BY <1>1, <1>2, PeriodsSliced DEF Sliced, Numbers
  <2> QED BY <1>1, <2>1, <2>2
<1>6. ASSUME back \in 0..(MaxOffset - 1) PROVE shown.keys[1] = k
  <2>1. 1 \in 1..Count /\ o \in Int /\ o = back BY <1>1, <1>4, <1>6
  <2>2. shown.keys[1] = KeyNo(Number(now, Period, tax) - (o + Count - 1), Period, tax)
    BY <1>1, <1>3, <2>1, WindowIs
  <2>3. Number(now, Period, tax) \in Int /\ Number(url.from, Period, tax) \in Int
        /\ k = KeyNo(Number(url.from, Period, tax), Period, tax)
    BY <1>1, <1>2, PeriodsSliced DEF Sliced, Numbers
  <2>4. Number(now, Period, tax) - (o + Count - 1) = Number(url.from, Period, tax)
    <3> HIDE DEF o
    <3> QED BY <1>1, <2>1, <2>3
  <2> QED BY <2>2, <2>3, <2>4
<1> PICK last \in Nat : last = MaxOffset - 1 BY DEF MaxOffset
<1>7. Upto(FirstKey(0), k) <=> back <= 0 BY <1>5
<1>8. Upto(FirstKey(MaxOffset - 1), k) <=> back <= last BY <1>5
<1> HIDE DEF back, o
<1>9. ASSUME ~(back \in 0..(MaxOffset - 1))
      PROVE  shown.offset = 0 /\ (Upto(FirstKey(0), k) \/ ~Upto(FirstKey(MaxOffset - 1), k))
  BY <1>3, <1>4, <1>7, <1>8, <1>9
<1> HIDE DEF k
<1> QED BY <1>6, <1>9 DEF Anchored, k

\* The tables of the screen come to the rows they stand for (getComparison's sections).
LEMMA ScreenTells == ASSUME Typed, Loaded PROVE Told
<1> DEFINE entries == shown.entries
<1>1. /\ Valued(entries) /\ \A e \in entries : e.side \in {"in", "out"}
      /\ \A e \in entries : e.side = "in" => e.group \in IncomeGroups \cup {Unset}
  <2> PICK o \in Nat : shown.entries = Historic(rows, Fx, now, Period, Count, o, tax) BY Screen
  <2> QED BY Screen, EntriesTyped
<1> HIDE DEF entries
<1>2. ASSUME NEW k PROVE RowsSum(Of(entries, k), IncomeRows(Of(entries, k), IncomeGroups))
                            = SideTotal(Of(entries, k), "in")
  <2>1. Of(entries, k) \in SUBSET entries BY DEF Of
  <2>2. Valued(Of(entries, k)) BY <1>1, <2>1, FS_Subset DEF Valued
  <2> QED BY <1>1, <2>1, <2>2, IncomeTold
<1>3. ASSUME NEW e \in entries
      PROVE  MerchantsSum(entries, e.side, e.group, e.label,
                          MerchantRows(entries, e.side, e.group, e.label))
                \in {0, IF e.side = "in" THEN IncomeTotal(entries, e.label)
                        ELSE SpendTotal(entries, e.group, e.label)}
  <2> PICK side, g, l : side = e.side /\ g = e.group /\ l = e.label OBVIOUS
  <2>1. MerchantsSum(entries, side, g, l, MerchantRows(entries, side, g, l))
          \in {0, Sum({x \in entries : x.side = side /\ x.label = l /\ (side = "out" => x.group = g)})}
    BY <1>1, MerchantsTold
  <2>2. CASE side = "in"
    <3>1. {x \in entries : x.side = side /\ x.label = l /\ (side = "out" => x.group = g)}
            = {x \in entries : x.side = "in" /\ x.label = l}
      BY <2>2
    <3> QED BY <2>1, <2>2, <3>1 DEF IncomeTotal
  <2>3. CASE side = "out"
    <3>1. {x \in entries : x.side = side /\ x.label = l /\ (side = "out" => x.group = g)}
            = {x \in entries : x.side = "out" /\ x.group = g /\ x.label = l}
      BY <2>3
    <3> QED BY <2>1, <2>3, <3>1 DEF SpendTotal
  <2> QED BY <1>1, <2>2, <2>3
<1> QED BY <1>2, <1>3 DEF Told, RowsSum, MerchantsSum, entries

LEMMA ScreenWhole == Typed /\ Loaded => Whole
BY ScreenAbuts, ScreenPlaces, ScreenReaches, ScreenAnchored, ScreenTells DEF Whole

\* Of a set of budgets one has the least of a number that each has.
LEMMA LeastBudget ==
    ASSUME NEW A \in SUBSET DOMAIN Plans, A # {}, NEW f \in [A -> Int]
    PROVE  \E b \in A : \A c \in A : f[b] <= f[c]
<1> DEFINE T == {f[b] : b \in A}
<1>1. T \subseteq Int /\ T # {} OBVIOUS
<1>2. IsFiniteSet(T)
  <2>1. f \in Surjection(A, T) BY DEF Surjection
  <2>2. IsFiniteSet(A) BY PlansAssumption, FS_Subset
  <2> HIDE DEF T
  <2> QED BY <2>1, <2>2, FS_Surjection
<1>3. Min(T) \in T /\ \A y \in T : Min(T) <= y
  <2> HIDE DEF T
  <2> QED BY <1>1, <1>2, LeastOf
<1>4. PICK b \in A : f[b] = Min(T) BY <1>3
<1>5. \A c \in A : f[c] \in T OBVIOUS
<1> HIDE DEF T
<1> QED BY <1>3, <1>4, <1>5

LEMMA BaseIs ==
    ASSUME NEW u, NEW A \in SUBSET DOMAIN Plans
    PROVE  BaseIn(u, A) = Unset \/ BaseIn(u, A) \in A
<1> DEFINE first == CHOOSE b \in A : \A c \in A : OfferedFirst(b, c)
<1>1. \/ BaseIn(u, A) = Unset
      \/ BaseIn(u, A) = u.base /\ u.base \in A
      \/ A # {} /\ BaseIn(u, A) = first
  <2>1. BaseIn(u, A) = IF u.page # "budgets" \/ A = {} THEN Unset
                       ELSE IF u.base \in A THEN u.base ELSE first
    BY Zenon DEF BaseIn
  <2> HIDE DEF first
  <2> QED BY <2>1
<1>2. ASSUME A # {} PROVE first \in A
  <2>1. PICK start \in {Plans[b].starts : b \in A} : \A c \in A : start <= Plans[c].starts
    <3>1. [b \in A |-> Plans[b].starts] \in [A -> Int] BY PlansAssumption
    <3>2. PICK b \in A : \A c \in A : Plans[b].starts <= Plans[c].starts
      BY <1>2, <3>1, LeastBudget
    <3> QED BY <3>2
  <2>2. PICK b \in {x \in A : Plans[x].starts = start} :
           \A c \in {x \in A : Plans[x].starts = start} : Plans[b].name <= Plans[c].name
    <3> DEFINE B == {x \in A : Plans[x].starts = start}
    <3>1. B \in SUBSET DOMAIN Plans /\ B # {} BY <2>1
    <3>2. [x \in B |-> Plans[x].name] \in [B -> Int] BY PlansAssumption
    <3> HIDE DEF B
    <3>3. PICK b \in B : \A c \in B : Plans[b].name <= Plans[c].name
      BY <3>1, <3>2, LeastBudget
    <3> QED BY <3>3 DEF B
  <2>3. \A c \in A : OfferedFirst(b, c) BY <2>1, <2>2, PlansAssumption DEF OfferedFirst
  <2> QED BY <2>2, <2>3
<1> HIDE DEF first
<1> QED BY <1>1, <1>2

LEMMA IdsKnown ==
    ASSUME NEW u, NEW span
    PROVE  IdsIn(u, span) \subseteq DOMAIN Plans
<1> DEFINE A == BudgetsInWindow(Plans, span)
           base == BaseIn(u, A)
<1>1. A \in SUBSET DOMAIN Plans BY DEF BudgetsInWindow
<1>2. base = Unset \/ base \in A
  <2> HIDE DEF A
  <2> QED BY <1>1, BaseIs
<1>3. IdsIn(u, span) = IF base = Unset THEN {} ELSE BaseWithActiveLayers(base, Plans, span)
  BY Zenon DEF IdsIn
<1> HIDE DEF base, A
<1>4. BaseWithActiveLayers(base, Plans, span) \subseteq DOMAIN Plans \cup {base}
  BY DEF BaseWithActiveLayers
<1> QED BY <1>1, <1>2, <1>3, <1>4

\* A day of a window is in one of its periods.
LEMMA KeyShown ==
    ASSUME NEW period \in Periods, NEW t \in TaxYears, NEW count \in Nat, NEW f \in Int,
           NEW keys, keys = [j \in 1..count |-> KeyNo(f + j, period, t)],
           NEW d \in Int, FirstDay(f + 1, period, t) <= d, d < FirstDay(f + count + 1, period, t)
    PROVE  PeriodKey(d, period, t) \in Range(keys)
<1>1. PICK m \in Int : /\ m = Number(d, period, t) /\ PeriodKey(d, period, t) = KeyNo(m, period, t)
                       /\ FirstDay(m, period, t) <= d /\ d < FirstDay(m + 1, period, t)
  BY PeriodsSliced DEF Sliced, Numbers
<1>2. PICK next \in Int : next = m + 1 OBVIOUS
<1>3. PICK a \in Int : a = f + 1 OBVIOUS
<1>4. PICK z \in Int : z = f + count + 1 OBVIOUS
<1>5. \A i \in Int, j \in Int : i <= j =>
         /\ FirstDay(i, period, t) \in Int /\ FirstDay(j, period, t) \in Int
         /\ FirstDay(j, period, t) - FirstDay(i, period, t) >= j - i
  BY PeriodsSliced DEF Sliced, Lasts, Starts
<1>6. ~(next <= a)
  <2> SUFFICES ASSUME next <= a PROVE FALSE OBVIOUS
  <2>1. /\ FirstDay(next, period, t) \in Int /\ FirstDay(a, period, t) \in Int
        /\ FirstDay(a, period, t) - FirstDay(next, period, t) >= a - next
    BY <1>5
  <2> QED BY <1>1, <1>2, <1>3, <2>1
<1>7. ~(z <= m)
  <2> SUFFICES ASSUME z <= m PROVE FALSE OBVIOUS
  <2>1. /\ FirstDay(z, period, t) \in Int /\ FirstDay(m, period, t) \in Int
        /\ FirstDay(m, period, t) - FirstDay(z, period, t) >= m - z
    BY <1>5
  <2> QED BY <1>1, <1>4, <2>1
<1>8. PICK j \in 1..count : j = m - f BY <1>2, <1>3, <1>4, <1>6, <1>7
<1>9. keys[j] = KeyNo(m, period, t)
  <2>1. f + j = m BY <1>8
  <2> QED BY <2>1
<1>10. j \in DOMAIN keys OBVIOUS
<1> QED BY <1>1, <1>9, <1>10 DEF Range

\* What is computed of the plans of a window is what is due in it.
LEMMA PlannedWithin ==
    ASSUME NEW o \in Nat, NEW f \in Int, NEW ids \in SUBSET DOMAIN Plans, NEW clip \in BOOLEAN,
           now \in Int, Period \in Periods, tax \in TaxYears, Count \in Nat, Count >= 1,
           PeriodWindow(now, Period, Count, o, tax) = [j \in 1..Count |-> KeyNo(f + j, Period, tax)]
    PROVE  LET from == FirstDay(f + 1, Period, tax)
               whole == FirstDay(f + Count + 1, Period, tax)
               to == IF clip /\ now < whole THEN now ELSE whole
           IN  /\ PlannedFor(ids, Plans, Fx, now, Period, Count, o, tax, clip) = Planned(ids, from, to)
               /\ Spanned(now, Period, Count, o, tax) = [from |-> from, to |-> whole]
               /\ from \in Int /\ to \in Int /\ whole \in Int
<1>1. PICK keys : keys = PeriodWindow(now, Period, Count, o, tax) OBVIOUS
<1>2. PICK a \in Int : a = f + 1 OBVIOUS
<1>3. PICK c \in Int : c = f + Count OBVIOUS
<1>4. PICK z \in Int : z = f + Count + 1 OBVIOUS
<1>5. keys[1] = KeyNo(a, Period, tax) /\ keys[Count] = KeyNo(c, Period, tax)
  <2>1. 1 \in 1..Count /\ Count \in 1..Count OBVIOUS
  <2> QED BY <1>1, <1>2, <1>3, <2>1
<1>6. PICK from \in Int : from = FirstDay(a, Period, tax) BY PeriodSpan
<1>7. PICK whole \in Int : whole = FirstDay(z, Period, tax) BY PeriodSpan
<1>8. PeriodStart(keys[1], Period, tax) = from BY <1>5, <1>6, PeriodSpan
<1>9. PeriodEnd(keys[Count], Period, tax) = whole
  <2>1. c + 1 = z BY <1>3, <1>4
  <2> QED BY <1>5, <1>7, <2>1, PeriodSpan
<1>10. PICK to \in Int : to = IF clip /\ now < whole THEN now ELSE whole OBVIOUS
<1>11. to <= whole BY <1>10
<1> DEFINE P == PlannedFor(ids, Plans, Fx, now, Period, Count, o, tax, clip)
           due == UNION {Occurring(b, Plans[b], from, to) : b \in ids}
<1>12. P = {e \in {PlannedEntry(d[1], d[2], Plans[d[1]].items[d[2]], d[3], Fx,
                                PeriodKey(d[3], Period, tax)) : d \in due} : e.key \in Range(keys)}
  <2> DEFINE K == PeriodWindow(now, Period, Count, o, tax)
             A == PeriodStart(K[1], Period, tax)
             W == PeriodEnd(K[Count], Period, tax)
             Z == IF clip /\ now < W THEN now ELSE W
             D == UNION {Occurring(b, Plans[b], A, Z) : b \in ids}
  <2>1. P = {e \in {PlannedEntry(d[1], d[2], Plans[d[1]].items[d[2]], d[3], Fx,
                                 PeriodKey(d[3], Period, tax)) : d \in D} : e.key \in Range(K)}
    BY Zenon DEF PlannedFor
  <2>2. A = from /\ W = whole BY <1>1, <1>8, <1>9
  <2>3. Z = to
    <3> HIDE DEF W
    <3> QED BY <1>10, <2>2
  <2>4. D = due
    <3> HIDE DEF A, Z
    <3> QED BY <2>2, <2>3
  <2>5. K = keys BY <1>1
  <2> HIDE DEF K, A, W, Z, D, P, due
  <2> QED BY <2>1, <2>4, <2>5
<1>13. due = DueAll(ids, from, to)
  <2>1. \A b \in ids : Occurring(b, Plans[b], from, to) = Due(b, from, to) BY OccurringDue
  <2> QED BY <2>1 DEF DueAll
<1> HIDE DEF due
<1>14. P = {e \in Planned(ids, from, to) : e.key \in Range(keys)}
  BY <1>12, <1>13, Zenon DEF Planned, PlanEntry
<1> HIDE DEF P
<1>15. ASSUME NEW e \in Planned(ids, from, to) PROVE e.key \in Range(keys)
  <2>1. PICK b, n, d : b \in ids /\ e = PlanEntry(b, n, d) /\ IsDue(b, n, d, from, to)
    BY PlannedHas
  <2>2. n \in DOMAIN Plans[b].items /\ d \in Int /\ from <= d /\ d < to BY <2>1 DEF IsDue
  <2>3. e.key = PeriodKey(d, Period, tax) BY <2>1, <2>2, PlanEntryIs
  <2>4. FirstDay(f + 1, Period, tax) <= d /\ d < FirstDay(f + Count + 1, Period, tax)
    BY <1>2, <1>4, <1>6, <1>7, <1>11, <2>2
  <2>5. keys = [j \in 1..Count |-> KeyNo(f + j, Period, tax)] BY <1>1
  <2> QED BY <2>2, <2>3, <2>4, <2>5, KeyShown
<1>16. P = Planned(ids, from, to) BY <1>14, <1>15
<1>17. Spanned(now, Period, Count, o, tax) = [from |-> from, to |-> whole]
  BY <1>1, <1>8, <1>9 DEF Spanned
<1> QED BY <1>2, <1>4, <1>6, <1>7, <1>10, <1>16, <1>17 DEF P

LEMMA ScreenPlans ==
    ASSUME Typed, Loaded
    PROVE  \E f \in Int :
              /\ shown.keys = [j \in 1..Count |-> KeyNo(f + j, Period, tax)]
              /\ shown.span.from \in Int /\ shown.span.to \in Int
              /\ shown.ids \subseteq DOMAIN Plans
              /\ shown.planned = Planned(shown.ids, shown.span.from, shown.span.to)
              /\ shown.due = Planned(shown.ids, shown.span.from,
                                     IF now < shown.span.to THEN now ELSE shown.span.to)
<1>1. Period \in Periods /\ tax \in TaxYears /\ now \in Int /\ Count \in Nat /\ Count >= 1
  BY Screen
<1>2. PICK o \in Nat : o = OpenedAt(now, tax, url)
  BY OffsetFinds DEF OffsetForStartDate, OpenedAt
<1> DEFINE span == Spanned(now, Period, Count, o, tax)
           keys == PeriodWindow(now, Period, Count, o, tax)
           entries == Historic(rows, Fx, now, Period, Count, o, tax)
           older == HasOlder(rows, now, Period, Count, o, tax)
           base == BaseIn(url, BudgetsInWindow(Plans, span))
           ids == IdsIn(url, span)
           planned == PlannedFor(ids, Plans, Fx, now, Period, Count, o, tax, FALSE)
           due == PlannedFor(ids, Plans, Fx, now, Period, Count, o, tax, TRUE)
<1>3. shown = [offset |-> o, keys |-> keys, span |-> span, entries |-> entries, older |-> older,
               base |-> base, ids |-> ids, planned |-> planned, due |-> due]
  BY <1>2, PageIs, ZenonT(60) DEF Loaded, Period, Count
<1>4. ids \in SUBSET DOMAIN Plans
  <2> HIDE DEF span
  <2> QED BY IdsKnown
<1>5. shown.keys = keys /\ shown.span = span /\ shown.ids = ids /\ shown.planned = planned /\ shown.due = due
  <2> HIDE DEF span, keys, entries, older, base, ids, planned, due
  <2> QED BY <1>3
<1>6. /\ Number(now, Period, tax) \in Int
      /\ keys = [j \in 1..Count |-> KeyNo(Number(now, Period, tax) - (o + Count - j), Period, tax)]
  BY <1>1, WindowIs
<1>7. PICK f \in Int : f = Number(now, Period, tax) - (o + Count) BY <1>1, <1>6
<1>8. keys = [j \in 1..Count |-> KeyNo(f + j, Period, tax)]
  <2>1. \A j \in 1..Count : Number(now, Period, tax) - (o + Count - j) = f + j BY <1>1, <1>6, <1>7
  <2> HIDE DEF keys
  <2> QED BY <1>6, <2>1
<1>9. PICK i \in SUBSET DOMAIN Plans : i = ids BY <1>4
<1>10. PICK from \in Int : from = FirstDay(f + 1, Period, tax)
  <2>1. f + 1 \in Int OBVIOUS
  <2> QED BY <1>1, <2>1, PeriodSpan
<1>11. PICK whole \in Int : whole = FirstDay(f + Count + 1, Period, tax)
  <2>1. f + Count + 1 \in Int BY <1>1
  <2> QED BY <1>1, <2>1, PeriodSpan
<1>12. /\ PlannedFor(i, Plans, Fx, now, Period, Count, o, tax, FALSE) = Planned(i, from, whole)
       /\ span = [from |-> from, to |-> whole]
  BY <1>1, <1>8, <1>10, <1>11, PlannedWithin
<1>13. PlannedFor(i, Plans, Fx, now, Period, Count, o, tax, TRUE)
         = Planned(i, from, IF now < whole THEN now ELSE whole)
  BY <1>1, <1>8, <1>10, <1>11, PlannedWithin
<1>14. span.from = from /\ span.to = whole
  <2> HIDE DEF span
  <2> QED BY <1>12
<1>15. planned = Planned(i, from, whole) /\ due = Planned(i, from, IF now < whole THEN now ELSE whole)
  BY <1>9, <1>12, <1>13
<1> HIDE DEF span, keys, ids, planned, due
<1> QED BY <1>4, <1>5, <1>8, <1>9, <1>14, <1>15

LEMMA ScreenPlanned == Typed /\ Loaded => PlanAdds
<1> SUFFICES ASSUME Typed, Loaded, shown.base # Unset PROVE PlanAdds BY DEF PlanAdds
<1>1. Period \in Periods /\ tax \in TaxYears /\ now \in Int /\ Count \in Nat /\ Count >= 1
  BY Screen
<1> DEFINE ids == shown.ids  from == shown.span.from  to == shown.span.to
           planned == shown.planned  due == shown.due  entries == shown.entries
<1>3. /\ from \in Int /\ to \in Int /\ ids \in SUBSET DOMAIN Plans
      /\ planned = Planned(ids, from, to)
      /\ due = Planned(ids, from, IF now < to THEN now ELSE to)
  BY ScreenPlans
<1>e. PICK o \in Nat : entries = Historic(rows, Fx, now, Period, Count, o, tax) BY Screen
<1> HIDE DEF ids, from, to, planned, due, entries
<1>4. Valued(planned) /\ \A e \in planned : e.label # Unset BY <1>3, PlannedTyped
<1>5. now > Open BY DaysAssumption DEF Typed
<1>6. LET mid == Most(from, to - AskedDays)
      IN  {e.id : e \in {x \in planned : x.id[3] >= mid}} = UNION {Due(b, mid, to) : b \in ids}
  <2>1. PICK mid \in Int : mid = Most(from, to - AskedDays) /\ from <= mid
    BY <1>3 DEF Most, AskedDays
  <2>2. {e.id : e \in {x \in planned : x.id[3] >= mid}} = UNION {Due(b, mid, to) : b \in ids}
    BY <1>3, <2>1, AskedDue
  <2> QED BY <2>1, <2>2
<1>7. \A e \in planned : PeriodStart(e.key, Period, tax) <= e.id[3]
                          /\ e.id[3] < PeriodEnd(e.key, Period, tax)
  BY <1>1, <1>3, PlannedInPeriod
<1>8. \A g \in GroupsIn(planned) : GroupTotal(planned, g) = LabelsSum(planned, g, LabelsUnder(planned, g))
  BY <1>4, GroupsTold
<1>9. ASSUME NEW b \in ids PROVE Upcoming(b)
  <2> DEFINE span == Lifespan(Plans[b])
  <2>1. span = Lifespan(Plans[b]) OBVIOUS
  <2> HIDE DEF span
  <2>2. b \in DOMAIN Plans BY <1>3
  <2>3. ASSUME NEW n \in DOMAIN Plans[b].items, NEW k, Plans[b].items[n].currency \in {Unset, Fx.display}
        PROVE  Magnitude(AmountInPeriod(Plans[b].items[n], span, k, Period, from, to, tax))
                 = Sum(ItemEntries(planned, k, b, n))
    <3>1. Magnitude(AmountInPeriod(Plans[b].items[n], Lifespan(Plans[b]), k, Period, from, to, tax))
            = Sum(ItemEntries(Planned(ids, from, to), k, b, n))
      BY <1>3, <2>3, ItemAmount
    <3> QED BY <1>3, <2>1, <3>1
  <2>4. ASSUME NEW n \in DOMAIN Plans[b].items
        PROVE  LET next == NextOccurrence(Plans[b].items[n], span, now)
               IN  \A d \in now..(IF next = Open THEN now + AskedDays ELSE next) :
                      DueOn(Plans[b].items[n], span, d) <=> d = next
    <3>1. PICK item \in Items : item = Plans[b].items[n] BY <2>2, PlanTyped
    <3>2. \A d \in now..(IF NextOccurrence(item, span, now) = Open THEN now + AskedDays
                         ELSE NextOccurrence(item, span, now)) :
             DueOn(item, span, d) <=> d = NextOccurrence(item, span, now)
      BY <1>1, <1>5, NextIs
    <3> QED BY <3>1, <3>2
  <2>5. span.yearly /\ Open \notin {span.starts, span.ends} =>
           LET window == CurrentOrNextWindow(span, now)
           IN  ActiveOn(span, now) <=> window.from <= now /\ now <= window.to
    <3>1. span.starts \in Int /\ span.ends \in Int BY <2>1, <2>2, PlanTyped
    <3> QED BY <1>1, <3>1, WindowsOfYears
  <2>6. \A n \in DOMAIN Plans[b].items, k \in Range(shown.keys) :
           Plans[b].items[n].currency \in {Unset, Fx.display} =>
           Magnitude(AmountInPeriod(Plans[b].items[n], Lifespan(Plans[b]), k, Period, shown.span.from,
                                    shown.span.to, tax)) =
               Sum({e \in shown.planned : e.key = k /\ e.id[1] = b /\ e.id[2] = n})
    <3>1. ASSUME NEW n \in DOMAIN Plans[b].items, NEW k \in Range(shown.keys),
                 Plans[b].items[n].currency \in {Unset, Fx.display}
          PROVE  Magnitude(AmountInPeriod(Plans[b].items[n], Lifespan(Plans[b]), k, Period,
                                          shown.span.from, shown.span.to, tax)) =
                     Sum({e \in shown.planned : e.key = k /\ e.id[1] = b /\ e.id[2] = n})
      <4>1. Magnitude(AmountInPeriod(Plans[b].items[n], span, k, Period, from, to, tax))
              = Sum(ItemEntries(planned, k, b, n))
        BY <2>3, <3>1
      <4> QED BY <4>1, Zenon DEF ItemEntries, span, from, to, planned
    <3> QED BY <3>1
  <2>7. \A n \in DOMAIN Plans[b].items :
           \E next \in {NextOccurrence(Plans[b].items[n], Lifespan(Plans[b]), now)} :
           \A d \in now..(IF next = Open THEN now + AskedDays ELSE next) :
               DueOn(Plans[b].items[n], Lifespan(Plans[b]), d) <=> d = next
    BY <2>4, Zenon DEF span
  <2>8. Lifespan(Plans[b]).yearly /\ Open \notin {Lifespan(Plans[b]).starts, Lifespan(Plans[b]).ends} =>
           (ActiveOn(Lifespan(Plans[b]), now)
              <=> /\ CurrentOrNextWindow(Lifespan(Plans[b]), now).from <= now
                  /\ now <= CurrentOrNextWindow(Lifespan(Plans[b]), now).to)
    BY <2>5, Zenon DEF span
  <2> QED BY <2>6, <2>7, <2>8, Zenon DEF Upcoming
<1>10. \A s : SideTotal(Variance(due, entries), s)
                = SideTotal(entries, s) - Sum({e \in planned : e.side = s /\ e.id[3] < now})
  <2>2. Valued(entries) BY <1>e, Screen, EntriesTyped
  <2>3. \A e \in entries : \E i : e.id = <<i>> BY <1>e, EntryIds
  <2>4. PICK z \in Int : z = IF now < to THEN now ELSE to BY <1>1, <1>3
  <2>5. due = Planned(ids, from, z) BY <1>3, <2>4
  <2>6. IsFiniteSet(due) BY <1>3, <2>5, PlannedTyped DEF Valued
  <2>7. \A e \in due : IsEntry(e) /\ \E b, n, d : e.id = <<b, n, d>> BY <1>3, <2>5, PlannedEntriesAre
  <2>8. ASSUME NEW s
        PROVE  SideTotal(Variance(due, entries), s)
                 = SideTotal(entries, s) - Sum({e \in planned : e.side = s /\ e.id[3] < now})
    <3>1. SideTotal(Variance(due, entries), s) = SideTotal(entries, s) - SideTotal(due, s)
      BY <2>2, <2>3, <2>6, <2>7, VarianceIs
    <3>2. {e \in due : e.side = s} = {e \in planned : e.side = s /\ e.id[3] < now}
      <4>1. {e \in Planned(ids, from, IF now < to THEN now ELSE to) : e.side = s}
              = {e \in Planned(ids, from, to) : e.side = s /\ e.id[3] < now}
        BY <1>1, <1>3, PlannedBefore
      <4> QED BY <1>3, <4>1
    <3>3. SideTotal(due, s) = Sum({e \in planned : e.side = s /\ e.id[3] < now})
      BY <3>2 DEF SideTotal
    <3> QED BY <3>1, <3>3
  <2> QED BY <2>8
<1> QED BY <1>6, <1>7, <1>8, <1>9, <1>10, Zenon
      DEF PlanAdds, LabelsSum, ids, from, to, planned, due, entries

\* Where a page's own links lead is a day.
LEMMA LinksDated ==
    ASSUME Typed, Loaded
    PROVE  /\ shown.offset \in Nat /\ Step \in Nat
           /\ \A o \in Int : WindowStart(o) \in Int
           /\ HasTaxForm(url.view) =>
                  Flipped(now, url.view, url.basis, Count, shown.offset, tax).from \in Int
<1>1. Period \in Periods /\ tax \in TaxYears /\ now \in Int /\ Count \in Nat /\ Count >= 1
  BY Screen
<1>2. shown.offset \in Nat BY PageShows DEF Loaded
<1>3. Step \in Nat BY DEF Step, StepOf, Pages, Typed, UrlTyped
<1>4. ASSUME NEW o \in Int PROVE WindowStart(o) \in Int
  <2> PICK i \in Int : i = o + Count - 1 BY <1>1
  <2>1. FirstKey(o) = KeyNo(Number(now, Period, tax) - i, Period, tax) /\ Number(now, Period, tax) \in Int
    BY <1>1, PeriodsSliced DEF Sliced, Numbers, CountsBack, FirstKey
  <2> PICK f \in Int : f = Number(now, Period, tax) - i BY <2>1
  <2> QED BY <1>1, <2>1, PeriodSpan DEF WindowStart
<1>5. Flipped(now, url.view, url.basis, Count, shown.offset, tax).from \in Int
  <2> DEFINE to == ResolvePeriod(url.view, IF url.basis = "tax" THEN "calendar" ELSE "tax")
  <2>1. to \in Periods BY Resolved DEF Typed, UrlTyped, Bases
  <2>2. Flipped(now, url.view, url.basis, Count, shown.offset, tax).from
          = CounterpartStart(PeriodWindow(now, Period, Count, shown.offset, tax)[1], Period, to, tax)
    BY DEF Flipped, Period
  <2> HIDE DEF to
  <2> PICK o \in Int : o = shown.offset BY <1>2
  <2>3. 1 \in 1..Count BY <1>1
  <2>4. /\ Number(now, Period, tax) \in Int
        /\ PeriodWindow(now, Period, Count, shown.offset, tax)[1]
             = KeyNo(Number(now, Period, tax) - (shown.offset + Count - 1), Period, tax)
    BY <1>1, <2>3, WindowIs
  <2> PICK f \in Int : f = Number(now, Period, tax) - (shown.offset + Count - 1) BY <1>1, <2>4
  <2> PICK a \in Int : a = PeriodStart(KeyNo(f, Period, tax), Period, tax) BY <1>1, PeriodSpan
  <2>5. FirstDay(f + 1, Period, tax) \in Int
    <3>1. f + 1 \in Int OBVIOUS
    <3> QED BY <1>1, <3>1, PeriodSpan
  <2> PICK b \in Int : b = PeriodEnd(KeyNo(f, Period, tax), Period, tax) BY <1>1, <2>5, PeriodSpan
  <2> PICK d \in Int : d = (a + b + 1) \div 2 OBVIOUS
  <2>6. Number(d, to, tax) \in Int /\ PeriodKey(d, to, tax) = KeyNo(Number(d, to, tax), to, tax)
    BY <1>1, <2>1, PeriodsSliced DEF Sliced, Numbers
  <2> PICK g \in Int : g = Number(d, to, tax) BY <2>6
  <2>7. PeriodStart(KeyNo(g, to, tax), to, tax) \in Int BY <1>1, <2>1, PeriodSpan
  <2> QED BY <2>2, <2>4, <2>6, <2>7 DEF CounterpartStart
<1> QED BY <1>2, <1>3, <1>4, <1>5

LEMMA AskedTyped == ASSUME NEW p \in Pages, NEW period PROVE UrlTyped(Asked(p, period))
<1> DEFINE read == ReadPeriodParams(period, Unset, DefaultView)
<1>1. read.view \in Views /\ read.basis \in Bases
  BY DEF ReadPeriodParams, DefaultView, Views, Bases, Unset
<1>2. Asked(p, period)
        = [page |-> p, view |-> read.view, basis |-> read.basis, from |-> Open, base |-> Unset]
  BY DEF Asked
<1> HIDE DEF read
<1> QED BY <1>1, <1>2 DEF UrlTyped, Open

LEMMA TypedInit == Init => Typed /\ Loaded
<1> SUFFICES ASSUME Init PROVE Typed /\ Loaded OBVIOUS
<1>1. now \in Days BY DaysAssumption, LeastOf DEF Init
<1>2. UrlTyped(url)
  <2>1. "home" \in Pages BY DEF Pages
  <2> QED BY <2>1, AskedTyped DEF Init
<1>3. RowsTyped(rows)
  <2>1. 1 \in 1..Len(Batches) BY BatchesAssumption DEF Init
  <2> QED BY <2>1, BatchesAssumption DEF Init, RowsTyped
<1>4. arrived \in 1..Len(Batches) BY BatchesAssumption DEF Init
<1> QED BY <1>1, <1>2, <1>3, <1>4 DEF Init, Typed, Loaded

LEMMA TypedStep == Typed /\ Loaded /\ [Next]_vars => Typed' /\ Loaded'
<1> SUFFICES ASSUME Typed, Loaded, [Next]_vars PROVE Typed' /\ Loaded' OBVIOUS
<1>1. ASSUME Load PROVE Loaded' BY <1>1 DEF Load, Loaded
<1>t. /\ now \in Days /\ tax \in Taxes /\ arrived \in 1..Len(Batches)
      /\ UrlTyped(url) /\ RowsTyped(rows)
  BY DEF Typed
<1>u. /\ url.from \in Int /\ Open \in Int
      /\ url.page \in Pages /\ url.view \in Views /\ url.basis \in Bases
      /\ url = [page |-> url.page, view |-> url.view, basis |-> url.basis,
                from |-> url.from, base |-> url.base]
  BY <1>t DEF UrlTyped, Open
\* The links of a page change its url alone.
<1>l. ASSUME UrlTyped(url'), UNCHANGED <<now, tax, rows, arrived>>, Load
      PROVE  Typed' /\ Loaded'
  BY <1>1, <1>t, <1>l DEF Typed
<1>2. ASSUME NEW p \in Pages, Visit(p, Unset) PROVE Typed' /\ Loaded'
  <2>1. UrlTyped(url') BY <1>2, AskedTyped DEF Visit
  <2> QED BY <1>2, <1>l, <2>1 DEF Visit
<1>3. ASSUME NEW period \in OldLinks, Visit("breakdown", period) PROVE Typed' /\ Loaded'
  <2>1. "breakdown" \in Pages BY DEF Pages
  <2>2. UrlTyped(url') BY <1>3, <2>1, AskedTyped DEF Visit
  <2> QED BY <1>3, <1>l, <2>2 DEF Visit
<1>4. ASSUME NEW v \in Shown, PickView(v) PROVE Typed' /\ Loaded'
  <2>1. url' = [url EXCEPT !.view = v, !.from = Open, !.base = Unset] BY <1>4 DEF PickView
  <2>2. url' = [page |-> url.page, view |-> v, basis |-> url.basis, from |-> Open, base |-> Unset]
    BY <1>u, <2>1
  <2>3. v \in Views BY ChoicesAssumption
  <2>4. UrlTyped(url') BY <1>u, <2>2, <2>3 DEF UrlTyped
  <2> QED BY <1>4, <1>l, <2>4 DEF PickView
<1>5. ASSUME Flip PROVE Typed' /\ Loaded'
  <2>1. PICK to : /\ to.from \in Int
                  /\ url' = [url EXCEPT !.basis = IF @ = "tax" THEN "calendar" ELSE "tax",
                                            !.from = IF to.offset > 0 THEN to.from ELSE Open,
                                            !.base = shown.base]
    BY <1>5, LinksDated DEF Flip
  <2> DEFINE basis == IF url.basis = "tax" THEN "calendar" ELSE "tax"
             from == IF to.offset > 0 THEN to.from ELSE Open
  <2>2. url' = [page |-> url.page, view |-> url.view, basis |-> basis, from |-> from, base |-> shown.base]
    BY <1>u, <2>1
  <2>3. basis \in Bases BY DEF Bases
  <2>5. from \in Int BY <1>u, <2>1
  <2> HIDE DEF basis, from
  <2>4. UrlTyped(url') BY <1>u, <2>2, <2>3, <2>5 DEF UrlTyped
  <2> QED BY <1>5, <1>l, <2>4 DEF Flip
<1>p. Turned \in Pages BY <1>u DEF Turned, Pages
<1>6. ASSUME Earlier PROVE Typed' /\ Loaded'
  <2> DEFINE from == WindowStart(shown.offset + Step)
  <2>1. url' = [page |-> Turned, view |-> url.view, basis |-> url.basis, from |-> from, base |-> shown.base]
    BY <1>6, <1>u DEF Earlier
  <2>3. from \in Int
    <3>1. shown.offset + Step \in Int BY LinksDated
    <3> QED BY <3>1, LinksDated
  <2> HIDE DEF from
  <2>2. UrlTyped(url') BY <1>p, <1>u, <2>1, <2>3 DEF UrlTyped
  <2> QED BY <1>6, <1>l, <2>2 DEF Earlier
<1>7. ASSUME MoreRecent PROVE Typed' /\ Loaded'
  <2> DEFINE o == shown.offset - Step
             from == IF o <= 0 THEN Open ELSE WindowStart(o)
  <2>1. url' = [page |-> Turned, view |-> url.view, basis |-> url.basis, from |-> from, base |-> shown.base]
    BY <1>7, <1>u DEF MoreRecent
  <2>3. from \in Int
    <3>1. o \in Int BY LinksDated
    <3> QED BY <1>u, <3>1, LinksDated
  <2> HIDE DEF from
  <2>2. UrlTyped(url') BY <1>p, <1>u, <2>1, <2>3 DEF UrlTyped
  <2> QED BY <1>7, <1>l, <2>2 DEF MoreRecent
<1>8. ASSUME NEW b \in DOMAIN Plans, PickBase(b) PROVE Typed' /\ Loaded'
  <2>1. url' = [page |-> url.page, view |-> url.view, basis |-> url.basis, from |-> url.from, base |-> b]
    BY <1>8, <1>u DEF PickBase
  <2>2. UrlTyped(url') BY <1>u, <2>1 DEF UrlTyped
  <2> QED BY <1>8, <1>l, <2>2 DEF PickBase
<1>9. ASSUME NextDay PROVE Typed' /\ Loaded'
  <2> DEFINE later == {e \in Days : e > now}
  <2>1. later # {} /\ now' = Min(later) BY <1>9 DEF NextDay
  <2>2. later \in SUBSET Int /\ later \subseteq Days /\ IsFiniteSet(later)
    BY DaysAssumption, FS_Subset
  <2> HIDE DEF later
  <2>3. now' \in Days BY <2>1, <2>2, LeastOf
  <2> QED BY <1>1, <1>9, <1>t, <2>3 DEF NextDay, Typed
<1>10. ASSUME Arrive PROVE Typed' /\ Loaded'
  <2> DEFINE more == Batches[arrived + 1]
  <2>1. arrived' \in 1..Len(Batches) /\ arrived + 1 \in 1..Len(Batches)
    BY <1>10, <1>t, BatchesAssumption DEF Arrive
  <2>2. IsFiniteSet(DOMAIN more) /\ more \in [DOMAIN more -> Recorded]
    BY <2>1, BatchesAssumption
  <2>3. rows' = [i \in DOMAIN more \cup DOMAIN rows |->
                    IF i \in DOMAIN more THEN more[i] ELSE rows[i]]
    BY <1>10 DEF Arrive
  <2> HIDE DEF more
  <2>4. DOMAIN rows' = DOMAIN more \cup DOMAIN rows BY <2>3
  <2>5. IsFiniteSet(DOMAIN rows') BY <1>t, <2>2, <2>4, FS_Union DEF RowsTyped
  <2>6. rows' \in [DOMAIN rows' -> Recorded] BY <1>t, <2>2, <2>3, <2>4 DEF RowsTyped
  <2> QED BY <1>1, <1>10, <1>t, <2>1, <2>5, <2>6 DEF Arrive, Typed, RowsTyped
<1>11. ASSUME NEW i \in Movable, NEW y \in MovedTo, MoveRow(i, y) PROVE Typed' /\ Loaded'
  <2>1. i \in DOMAIN rows /\ rows' = [rows EXCEPT ![i].taxYear = y] BY <1>11 DEF MoveRow
  <2>2. rows \in [DOMAIN rows -> Recorded] BY <1>t DEF RowsTyped
  <2>3. [rows[i] EXCEPT !.taxYear = y] \in Recorded
    BY <2>1, <2>2, ChoicesAssumption DEF Recorded
  <2>4. DOMAIN rows' = DOMAIN rows /\ rows' \in [DOMAIN rows -> Recorded] BY <2>1, <2>2, <2>3
  <2> QED BY <1>1, <1>11, <1>t, <2>4 DEF MoveRow, Typed, RowsTyped
<1>12. ASSUME NEW t \in Taxes, SetTaxYear(t) PROVE Typed' /\ Loaded'
  BY <1>1, <1>12, <1>t DEF SetTaxYear, Typed
<1>13. ASSUME UNCHANGED vars PROVE Typed' /\ Loaded'
  BY <1>13, <1>t DEF vars, Typed, Loaded
<1> QED BY <1>2, <1>3, <1>4, <1>5, <1>6, <1>7, <1>8, <1>9, <1>10, <1>11, <1>12, <1>13 DEF Next

\* On every page, whatever days pass, rows arrive or move, and wherever its links have
\* led: its periods leave no day out, each row of its window is shown in it once, at
\* its place, what lies before it can be reached, it begins where its link says, and
\* its tables come to the rows they stand for (getComparison, periodWindow,
\* offsetForStartDate, incomeNodes, spendNode).
THEOREM FiguresWhole == Spec => []Whole
<1>1. Init => Typed /\ Loaded BY TypedInit
<1>2. (Typed /\ Loaded) /\ [Next]_vars => (Typed /\ Loaded)' BY TypedStep
<1>3. Typed /\ Loaded => Whole BY ScreenWhole
<1> QED BY <1>1, <1>2, <1>3, PTL DEF Spec

\* On the page of a budget, whichever is its base and whatever has been recorded: its
\* plan is what its items come to on the days they fall due and no others, each day
\* in the period that holds it; a group costs what is under it; the other readers of
\* a plan agree with it on what a period costs, when an item is next due and which
\* yearly window it is in; and against the ledger it leaves what happened less what
\* was due before today (occurrencesIn, amountInPeriod, nextOccurrence,
\* currentOrNextWindow, varianceOf).
THEOREM PlanHolds == Spec => []PlanAdds
<1>1. Init => Typed /\ Loaded BY TypedInit
<1>2. (Typed /\ Loaded) /\ [Next]_vars => (Typed /\ Loaded)' BY TypedStep
<1>3. Typed /\ Loaded => PlanAdds BY ScreenPlanned
<1> QED BY <1>1, <1>2, <1>3, PTL DEF Spec
=============================================================================
