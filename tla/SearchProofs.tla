---------------------------- MODULE SearchProofs ----------------------------
(* What holds of the household's rule book and of everything that reads its *)
(* rows (RuleBook, Search): that a search read page by page is whole; that  *)
(* the query's prefilter hides no similar row; that one rules document      *)
(* is active, however many hands make one; that a lesson loses nothing the  *)
(* book decided and is there to be read; and that a worker's pass leaves    *)
(* every row as the rules page lists it.                                    *)
EXTENDS Search, FiniteSetTheorems, SequenceTheorems, TLAPS

-----------------------------------------------------------------------------
(* Places in an order.                                                      *)

Before(R, S, x) == {y \in S : <<y, x>> \in R}
Rank(R, S, x) == Cardinality(Before(R, S, x))
StrictOrder(R, S) ==
  /\ \A x \in S : <<x, x>> \notin R
  /\ \A x, y \in S : x # y => <<x, y>> \in R \/ <<y, x>> \in R
  /\ \A x, y, z \in S : <<x, y>> \in R /\ <<y, z>> \in R => <<x, z>> \in R

LEMMA UpTo ==
  ASSUME NEW n \in Nat
  PROVE /\ IsFiniteSet(1 .. n) /\ Cardinality(1 .. n) = n
        /\ IsFiniteSet(0 .. n - 1) /\ Cardinality(0 .. n - 1) = n
<1>1. 0 \in Int /\ 1 \in Int /\ n \in Int /\ n - 1 \in Int OBVIOUS
<1>2. IsFiniteSet(1 .. n) /\ Cardinality(1 .. n) = IF 1 > n THEN 0 ELSE n - 1 + 1
  BY <1>1, FS_Interval
<1>3. IsFiniteSet(0 .. n - 1) /\ Cardinality(0 .. n - 1) = IF 0 > n - 1 THEN 0 ELSE n - 1 - 0 + 1
  BY <1>1, FS_Interval
<1> QED BY <1>2, <1>3

\* What comes before another has the lower rank.
LEMMA LowerRank ==
  ASSUME NEW S, IsFiniteSet(S), NEW R, StrictOrder(R, S), NEW x \in S, NEW y \in S, <<x, y>> \in R
  PROVE Rank(R, S, x) \in Nat /\ Rank(R, S, y) \in Nat /\ Rank(R, S, x) < Rank(R, S, y)
<1>1. Before(R, S, y) \in SUBSET S /\ Before(R, S, x) \in SUBSET S BY DEF Before
<1>2. IsFiniteSet(Before(R, S, y)) /\ IsFiniteSet(Before(R, S, x)) BY <1>1, FS_Subset
<1>3. Before(R, S, x) \in SUBSET Before(R, S, y) BY DEF StrictOrder, Before
<1>4. Before(R, S, x) # Before(R, S, y) BY DEF StrictOrder, Before
<1>5. /\ Cardinality(Before(R, S, x)) <= Cardinality(Before(R, S, y))
      /\ Cardinality(Before(R, S, y)) # Cardinality(Before(R, S, x))
  BY <1>2, <1>3, <1>4, FS_Subset
<1> QED BY <1>2, <1>5, FS_CardinalityType DEF Rank

LEMMA RankBound ==
  ASSUME NEW S, IsFiniteSet(S), NEW R, StrictOrder(R, S), NEW x \in S
  PROVE Cardinality(S) \in Nat /\ Rank(R, S, x) \in 0 .. Cardinality(S) - 1
<1>1. Before(R, S, x) \in SUBSET S /\ Before(R, S, x) # S BY DEF StrictOrder, Before
<1>2. /\ Cardinality(Before(R, S, x)) <= Cardinality(S) /\ IsFiniteSet(Before(R, S, x))
      /\ Cardinality(S) # Cardinality(Before(R, S, x))
  BY <1>1, FS_Subset
<1> QED BY <1>2, FS_CardinalityType DEF Rank

\* Each rank is that of one element.
LEMMA RankUnique ==
  ASSUME NEW S, IsFiniteSet(S), NEW R, StrictOrder(R, S), NEW x \in S, NEW y \in S,
         Rank(R, S, x) = Rank(R, S, y)
  PROVE x = y
<1>1. <<x, y>> \notin R /\ <<y, x>> \notin R BY LowerRank
<1> QED BY <1>1 DEF StrictOrder

LEMMA RankOnto ==
  ASSUME NEW S, IsFiniteSet(S), NEW R, StrictOrder(R, S)
  PROVE \A k \in 0 .. Cardinality(S) - 1 : \E x \in S : Rank(R, S, x) = k
<1> DEFINE r == [x \in S |-> Rank(R, S, x)]
           T == 0 .. Cardinality(S) - 1
<1>1. Cardinality(S) \in Nat BY FS_CardinalityType
<1>2. IsFiniteSet(T) /\ Cardinality(T) = Cardinality(S) BY <1>1, UpTo
<1>3. r \in [S -> T] BY RankBound
<1>4. \A x, y \in S : r[x] = r[y] => x = y BY RankUnique
<1>5. r \in Injection(S, T) BY <1>3, <1>4 DEF Injection, IsInjective
<1>6. r \in Surjection(S, T)
  <2> HIDE DEF r, T
  <2> QED BY <1>2, <1>5, FS_Injection
<1> QED BY <1>6 DEF Surjection

\* As many come before a place as it says.
LEMMA RankFirst ==
  ASSUME NEW S, IsFiniteSet(S), NEW R, StrictOrder(R, S), NEW n \in 0 .. Cardinality(S)
  PROVE Cardinality({x \in S : Rank(R, S, x) < n}) = n
<1> DEFINE first == {x \in S : Rank(R, S, x) < n}
           T == 0 .. n - 1
           r == [x \in first |-> Rank(R, S, x)]
<1>1. Cardinality(S) \in Nat BY FS_CardinalityType
<1>2. IsFiniteSet(T) /\ Cardinality(T) = n BY <1>1, UpTo
<1>3. r \in [first -> T] BY RankBound
<1>4. \A x, y \in first : r[x] = r[y] => x = y BY RankUnique
<1>5. r \in Injection(first, T) BY <1>3, <1>4 DEF Injection, IsInjective
<1>6. \A k \in T : \E x \in first : r[x] = k
  <2> SUFFICES ASSUME NEW k \in T PROVE \E x \in first : r[x] = k OBVIOUS
  <2>1. k \in 0 .. Cardinality(S) - 1 BY <1>1
  <2>2. PICK x \in S : Rank(R, S, x) = k BY <2>1, RankOnto
  <2> QED BY <1>1, <2>2
<1>7. r \in Surjection(first, T) BY <1>3, <1>6 DEF Surjection
<1> HIDE DEF first, T, r
<1> QED BY <1>2, <1>5, <1>7, FS_Injection DEF first

-----------------------------------------------------------------------------
(* Pages.                                                                   *)

Rows(f) == {t \in Txs : Where(f, t)}
Ordered(sort) == {p \in Txs \X Txs : Ahead(sort, p[1], p[2])}
Sorts == {"date", "amount", "size"}

Listing ==
  listing.on =>
    DOMAIN listing = {"on", "filter", "sort", "limit", "seen", "more", "pages", "steady"}
\* What was read is the front of the only order there is.
FrontRead ==
  listing.on /\ listing.steady =>
    /\ <<listing.filter, listing.sort>> \in Asked /\ listing.limit \in Nat
    /\ listing.seen \in Seq(Txs)
    /\ \A i \in 1 .. Len(listing.seen) :
         /\ listing.seen[i] \in Rows(listing.filter)
         /\ Rank(Ordered(listing.sort), Rows(listing.filter), listing.seen[i]) = i - 1
    /\ ~listing.more => Len(listing.seen) >= Cardinality(Rows(listing.filter))
ListInv == Listing /\ FrontRead

LEMMA KeyIsInt == ASSUME NEW sort \in Sorts, NEW t \in Txs PROVE Key(sort, t) \in Int
BY SearchAssumption DEF Sorts, Key, AbsOf

\* Largest first, by id where that ties, leaves no two rows in doubt.
LEMMA OrderedRows ==
  ASSUME NEW sort \in Sorts, NEW rows \in SUBSET Txs
  PROVE StrictOrder(Ordered(sort), rows) /\ IsFiniteSet(rows)
<1>1. \A x \in rows : x \in Nat /\ Key(sort, x) \in Int BY KeyIsInt, BookIds
<1>2. \A x, y \in rows : <<x, y>> \in Ordered(sort) <=> Ahead(sort, x, y) BY DEF Ordered
<1>3. IsFiniteSet(rows) BY BookIds, FS_Subset
<1> QED BY <1>1, <1>2, <1>3 DEF StrictOrder, Ahead

LEMMA AskedSorts ==
  ASSUME NEW asked \in Asked
  PROVE /\ asked[2] \in Sorts /\ asked = <<asked[1], asked[2]>>
        /\ asked[1].direction \in {"in", "out", None}
        /\ asked[1].min \in Int \cup {None} /\ asked[1].max \in Int \cup {None}
<1>1. asked = <<asked[1], asked[2]>> /\ asked[2] \in Sorts BY DEF Asked, Sorts
<1>2. asked[1] \in Filters \/ \E f \in Filters : asked[1] = [f EXCEPT !.uncategorised = TRUE]
  BY DEF Asked, ByDay
<1>3. ASSUME NEW f \in Filters
      PROVE LET g == [f EXCEPT !.uncategorised = TRUE]
            IN  g.direction = f.direction /\ g.min = f.min /\ g.max = f.max
  <2>1. DOMAIN f = DOMAIN Anything BY SearchAssumption
  <2> QED BY <2>1 DEF Anything
<1>4. CASE asked[1] \in Filters BY <1>1, <1>4, SearchAssumption
<1>5. CASE \E f \in Filters : asked[1] = [f EXCEPT !.uncategorised = TRUE]
  <2>1. PICK f \in Filters : asked[1] = [f EXCEPT !.uncategorised = TRUE] BY <1>5
  <2>2. asked[1].direction = f.direction /\ asked[1].min = f.min /\ asked[1].max = f.max BY <1>3, <2>1
  <2> QED BY <1>1, <2>2, SearchAssumption
<1> QED BY <1>2, <1>4, <1>5

\* Whatever the database answers in, a row is where its rank says.
LEMMA OrderRank ==
  ASSUME NEW sort \in Sorts, NEW rows \in SUBSET Txs, NEW order \in Orders(sort, rows)
  PROVE /\ Cardinality(rows) \in Nat /\ Len(order) = Cardinality(rows)
        /\ order \in [1 .. Cardinality(rows) -> rows]
        /\ \A i \in 1 .. Cardinality(rows) : Rank(Ordered(sort), rows, order[i]) = i - 1
<1> DEFINE n == Cardinality(rows)
           R == Ordered(sort)
<1>1. StrictOrder(R, rows) /\ IsFiniteSet(rows) /\ n \in Nat BY OrderedRows, FS_CardinalityType
<1>2. /\ order \in [1 .. n -> rows]
      /\ \A i, j \in 1 .. n : i # j => order[i] # order[j]
      /\ \A i, j \in 1 .. n : i < j => ~Ahead(sort, order[j], order[i])
  BY DEF Orders, SetToSeqs
<1>3. Len(order) = n BY <1>1, <1>2
<1>4. IsFiniteSet(1 .. n) /\ Cardinality(1 .. n) = n BY <1>1, UpTo
<1>5. \A u \in rows : \E j \in 1 .. n : order[j] = u
  <2>1. order \in Injection(1 .. n, rows) BY <1>2 DEF Injection, IsInjective
  <2>2. order \in Surjection(1 .. n, rows) BY <1>1, <1>4, <2>1, FS_Injection
  <2> QED BY <2>2 DEF Surjection
<1>6. ASSUME NEW i \in 1 .. n PROVE Rank(R, rows, order[i]) = i - 1
  <2> DEFINE B == Before(R, rows, order[i])
             m == i - 1
             f == [j \in 1 .. m |-> order[j]]
  <2>1. order[i] \in rows /\ m \in Nat BY <1>1, <1>2
  <2>2. \A u, v \in rows : <<u, v>> \in R <=> Ahead(sort, u, v) BY DEF Ordered
  <2>3. \A j \in 1 .. n : j < i => order[j] \in B
    <3> SUFFICES ASSUME NEW j \in 1 .. n, j < i PROVE order[j] \in B OBVIOUS
    <3>1. order[j] \in rows /\ order[j] # order[i] /\ ~Ahead(sort, order[i], order[j]) BY <1>1, <1>2
    <3> HIDE DEF R
    <3> QED BY <1>1, <2>1, <2>2, <3>1 DEF Before, StrictOrder
  <2>4. \A u \in B : \E j \in 1 .. m : order[j] = u
    <3> SUFFICES ASSUME NEW u \in B PROVE \E j \in 1 .. m : order[j] = u OBVIOUS
    <3>1. u \in rows /\ <<u, order[i]>> \in R BY DEF Before
    <3>2. PICK j \in 1 .. n : order[j] = u BY <1>5, <3>1
    <3>3. j # i BY <1>1, <2>1, <3>1, <3>2 DEF StrictOrder
    <3>4. ~(i < j) BY <1>2, <2>1, <2>2, <3>1, <3>2
    <3> QED BY <1>1, <3>2, <3>3, <3>4
  <2>5. IsFiniteSet(B) /\ IsFiniteSet(1 .. m) /\ Cardinality(1 .. m) = m
    <3>1. B \in SUBSET rows BY DEF Before
    <3> QED BY <1>1, <2>1, <3>1, FS_Subset, UpTo
  <2>6. f \in [1 .. m -> B] /\ \A j \in 1 .. m : j \in 1 .. n /\ f[j] = order[j] BY <1>1, <2>3
  <2>7. f \in Injection(1 .. m, B) BY <1>2, <2>6 DEF Injection, IsInjective
  <2>8. f \in Surjection(1 .. m, B) BY <2>4, <2>6 DEF Surjection
  <2>9. Cardinality(1 .. m) = Cardinality(B)
    <3> HIDE DEF f, B, m
    <3> QED BY <2>5, <2>7, <2>8, FS_Injection
  <2> QED BY <2>5, <2>9 DEF Rank
<1> QED BY <1>1, <1>2, <1>3, <1>6

\* Which rows a filter takes is a matter of the rows and the names.
LEMMA SameRows ==
  ASSUME UNCHANGED <<txs, labels, payees>>, listing'.filter = listing.filter
  PROVE Rows(listing.filter)' = Rows(listing.filter)
BY DEF Rows, Where, Named, Told, Awaits, Bounds, Over, Under, FoundLabels, Living,
       PayeeName, CategoryName

\* One more page of the front is the front.
LEMMA PageAdds ==
  ASSUME ListInv, ReadPage PROVE ListInv'
<1>1. Listing' BY DEF ListInv, Listing, ReadPage
<1>2. ASSUME Resolves(listing.filter), listing.steady PROVE FrontRead'
  <2> DEFINE rows == Rows(listing.filter)
             sort == listing.sort
             R == Ordered(sort)
             n == Cardinality(rows)
             m == Len(listing.seen)
             limit == listing.limit
             hi == IF m + limit < n THEN m + limit ELSE n
  <2>1. PICK order \in Orders(sort, rows) :
          listing' = [listing EXCEPT !.seen = @ \o Page(order, m, limit), !.pages = @ + 1,
                        !.more = m + Len(Page(order, m, limit)) < n]
    BY <1>2 DEF ReadPage, Rows
  <2>2. listing.on /\ Listing /\ FrontRead BY DEF ReadPage, ListInv
  <2>3. /\ <<listing.filter, sort>> \in Asked /\ limit \in Nat /\ listing.seen \in Seq(Txs)
        /\ \A i \in 1 .. m : listing.seen[i] \in rows /\ Rank(R, rows, listing.seen[i]) = i - 1
    BY <1>2, <2>2 DEF FrontRead
  <2>4. sort \in Sorts BY <2>3, AskedSorts
  <2>5. rows \in SUBSET Txs /\ m \in Nat BY <2>3, LenProperties DEF Rows
  <2>6. StrictOrder(R, rows) /\ IsFiniteSet(rows) BY <2>4, <2>5, OrderedRows
  <2>7. /\ n \in Nat /\ Len(order) = n /\ order \in [1 .. n -> rows]
        /\ \A i \in 1 .. n : Rank(R, rows, order[i]) = i - 1
    <3> HIDE DEF rows, sort
    <3> QED BY <2>4, <2>5, OrderRank
  <2> HIDE DEF rows, sort, R, n, m, limit
  <2>8. m <= n
    <3>1. m > 0 => Rank(R, rows, listing.seen[m]) = m - 1 /\ listing.seen[m] \in rows BY <2>3, <2>5
    <3>2. m > 0 => m - 1 \in 0 .. n - 1 BY <2>6, <3>1, RankBound DEF n
    <3> QED BY <2>5, <2>7, <3>2
  <2>9. hi \in Nat /\ m <= hi /\ hi <= n BY <2>3, <2>5, <2>7, <2>8
  <2>10. Page(order, m, limit) = SubSeq(order, m + 1, hi) BY <2>7 DEF Page
  <2> DEFINE page == SubSeq(order, m + 1, hi)
             seen == listing.seen \o page
  <2> HIDE DEF hi
  <2>11. /\ page \in Seq(Txs) /\ Len(page) = hi - m
         /\ \A i \in 1 .. hi - m : page[i] = order[m + i]
    <3>1. \A i \in (m + 1) .. hi : order[i] \in Txs BY <2>5, <2>7, <2>9
    <3>2. m + 1 \in Int /\ hi \in Int BY <2>5, <2>9
    <3>3. /\ SubSeq(order, m + 1, hi) \in Seq(Txs)
          /\ Len(SubSeq(order, m + 1, hi)) = IF m + 1 <= hi THEN hi - (m + 1) + 1 ELSE 0
          /\ \A i \in 1 .. hi - (m + 1) + 1 : SubSeq(order, m + 1, hi)[i] = order[m + 1 + i - 1]
      BY <3>1, <3>2, SubSeqProperties
    <3>4. \A i \in 1 .. hi - m : m + 1 + i - 1 = m + i /\ hi - (m + 1) + 1 = hi - m BY <2>5, <2>9
    <3> QED BY <2>5, <2>9, <3>3, <3>4
  <2> HIDE DEF page
  <2>12. /\ seen \in Seq(Txs) /\ Len(seen) = hi
         /\ \A i \in 1 .. hi : seen[i] = IF i <= m THEN listing.seen[i] ELSE page[i - m]
    <3>1. /\ seen \in Seq(Txs) /\ Len(seen) = Len(listing.seen) + Len(page)
          /\ \A i \in 1 .. Len(listing.seen) + Len(page) :
               seen[i] = IF i <= Len(listing.seen) THEN listing.seen[i] ELSE page[i - Len(listing.seen)]
      BY <2>3, <2>11, ConcatProperties
    <3>2. Len(listing.seen) + Len(page) = hi BY <2>5, <2>9, <2>11 DEF m
    <3> QED BY <3>1, <3>2 DEF m
  <2> HIDE DEF seen
  <2>13. ASSUME NEW i \in 1 .. hi PROVE seen[i] \in rows /\ Rank(R, rows, seen[i]) = i - 1
    <3>1. CASE i <= m BY <2>3, <2>5, <2>12, <3>1
    <3>2. CASE i > m
      <4>1. i - m \in 1 .. hi - m /\ i \in 1 .. n /\ m + (i - m) = i BY <2>5, <2>7, <2>9, <3>2
      <4>2. page[i - m] = order[i] BY <2>11, <4>1
      <4>3. seen[i] = page[i - m] BY <2>5, <2>9, <2>12, <3>2
      <4> QED BY <2>7, <4>1, <4>2, <4>3
    <3> QED BY <2>5, <2>9, <3>1, <3>2
  <2>14. m + Len(page) = hi BY <2>5, <2>9, <2>11
  <2>15. /\ listing'.filter = listing.filter /\ listing'.sort = sort /\ listing'.limit = limit
         /\ listing'.seen = seen /\ (~listing'.more => hi >= n)
    <3>1. /\ listing'.filter = listing.filter /\ listing'.sort = sort /\ listing'.limit = limit
          /\ listing'.seen = seen /\ listing'.more = (hi < n)
      BY <2>1, <2>2, <2>10, <2>14 DEF Listing, page, seen, sort, limit
    <3>2. hi < n \/ hi >= n BY <2>7, <2>9
    <3>3. hi < n => listing'.more BY <3>1
    <3> QED BY <3>1, <3>2, <3>3
  <2>16. Rows(listing.filter)' = rows BY <2>15, SameRows DEF ReadPage, vars, rows
  <2>17. /\ <<listing'.filter, listing'.sort>> \in Asked /\ listing'.limit \in Nat
         /\ listing'.seen \in Seq(Txs) /\ Len(listing'.seen) = hi
    BY <2>3, <2>12, <2>15
  <2>18. ~listing'.more => hi >= Cardinality(rows) BY <2>15 DEF n
  <2>19. \A i \in 1 .. hi : /\ listing'.seen[i] \in rows
                            /\ Rank(Ordered(listing'.sort), rows, listing'.seen[i]) = i - 1
    BY <2>13, <2>15 DEF R
  <2> QED BY <2>16, <2>17, <2>18, <2>19 DEF FrontRead
<1>3. ASSUME ~Resolves(listing.filter) PROVE FrontRead'
  BY <1>3 DEF ReadPage, ListInv, Listing, FrontRead
<1>4. ASSUME Resolves(listing.filter), ~listing.steady PROVE FrontRead'
  BY <1>4 DEF ReadPage, ListInv, Listing, FrontRead
<1> QED BY <1>1, <1>2, <1>3, <1>4 DEF ListInv

LEMMA SearchStarts == ASSUME ListInv, SearchTransactions PROVE ListInv'
<1>1. PICK asked \in Asked, limit \in Limits :
        listing' = [on |-> TRUE, filter |-> asked[1], sort |-> asked[2], limit |-> limit,
                    seen |-> << >>, more |-> TRUE, pages |-> 0, steady |-> TRUE]
  BY DEF SearchTransactions
<1>2. Listing' BY <1>1 DEF Listing
<1>3. /\ listing'.filter = asked[1] /\ listing'.sort = asked[2] /\ listing'.limit = limit
      /\ listing'.seen = << >> /\ listing'.more = TRUE
  BY <1>1
<1>4. <<listing'.filter, listing'.sort>> \in Asked BY <1>3, AskedSorts
<1>5. listing'.seen \in Seq(Txs) /\ Len(listing'.seen) = 0 BY <1>3, EmptySeq
<1> QED BY <1>2, <1>3, <1>4, <1>5, SearchAssumption DEF ListInv, FrontRead

\* What else happens leaves the rows as they were, or the listing unsteady.
LEMMA Aside == ASSUME ListInv, Next PROVE
  (listing' = IF listing.on /\ <<txs, labels, payees>>' # <<txs, labels, payees>>
              THEN [listing EXCEPT !.steady = FALSE] ELSE listing) => ListInv'
<1> SUFFICES ASSUME listing' = IF listing.on /\ <<txs, labels, payees>>' # <<txs, labels, payees>>
                               THEN [listing EXCEPT !.steady = FALSE] ELSE listing
             PROVE ListInv'
  OBVIOUS
<1>1. CASE ~listing.on BY <1>1 DEF ListInv, Listing, FrontRead
<1>2. CASE listing.on /\ <<txs, labels, payees>>' # <<txs, labels, payees>>
  BY <1>2 DEF ListInv, Listing, FrontRead
<1>3. CASE <<txs, labels, payees>>' = <<txs, labels, payees>> /\ listing' = listing
  <2>1. Rows(listing.filter)' = Rows(listing.filter) BY <1>3, SameRows
  <2> QED BY <1>3, <2>1 DEF ListInv, Listing, FrontRead
<1> QED BY <1>1, <1>2, <1>3

LEMMA ListStep == ASSUME ListInv, [SearchNext]_<<vars, listing>> PROVE ListInv'
<1>1. CASE UNCHANGED <<vars, listing>>
  <2>1. Rows(listing.filter)' = Rows(listing.filter) BY <1>1, SameRows DEF vars
  <2> QED BY <1>1, <2>1 DEF ListInv, Listing, FrontRead
<1> QED BY <1>1, SearchStarts, PageAdds, Aside DEF SearchNext

\* The signed bounds mean what the words say of them, unless there is an upper
\* bound alone on both directions.
LEMMA WhereMeans ==
  ASSUME NEW f, f.direction \in {"in", "out", None}, f.min \in Int \cup {None},
         f.max \in Int \cup {None}, ~Uncapped(f), NEW t \in Txs
  PROVE Where(f, t) <=> Means(f, t)
<1> DEFINE a == Amount[t]
<1>1. a \in Int /\ "in" # None /\ "out" # None BY SearchAssumption
<1>2. AbsOf(a) \in Nat /\ (a >= 0 => AbsOf(a) = a) /\ (a <= 0 => AbsOf(a) = 0 - a) BY <1>1 DEF AbsOf
<1>3. /\ f.min # None => f.min \in Int /\ AbsOf(f.min) \in Nat
      /\ f.max # None => f.max \in Int /\ AbsOf(f.max) \in Nat
  BY DEF AbsOf
<1>4. Bounds(f, a) <=> /\ f.direction = "in" => a > 0
                       /\ f.direction = "out" => a < 0
                       /\ Over(f, AbsOf(a))
  <2> HIDE DEF a
  <2>1. CASE f.direction = "in" BY <1>1, <1>2, <1>3, <2>1 DEF Bounds, Over
  <2>2. CASE f.direction = "out" BY <1>1, <1>2, <1>3, <2>2 DEF Bounds, Over, Under
  <2>3. CASE f.direction = None BY <1>1, <1>2, <1>3, <2>3 DEF Bounds, Over, Under, Uncapped
  <2> QED BY <2>1, <2>2, <2>3
<1> QED BY <1>4 DEF Where, Means

LEMMA FrontWhole == ListInv => PagesWhole
<1> SUFFICES ASSUME ListInv, listing.on, ~listing.more, listing.steady PROVE PagesWhole
  BY DEF PagesWhole
<1> DEFINE f == listing.filter
           sort == listing.sort
           seen == listing.seen
           rows == Rows(f)
           R == Ordered(sort)
<1>1. /\ <<f, sort>> \in Asked /\ seen \in Seq(Txs)
      /\ \A i \in 1 .. Len(seen) : seen[i] \in rows /\ Rank(R, rows, seen[i]) = i - 1
      /\ Len(seen) >= Cardinality(rows)
  BY DEF ListInv, FrontRead
<1>2. /\ sort \in Sorts /\ f.direction \in {"in", "out", None}
      /\ f.min \in Int \cup {None} /\ f.max \in Int \cup {None}
  BY <1>1, AskedSorts
<1>3. rows \in SUBSET Txs /\ Len(seen) \in Nat /\ DOMAIN seen = 1 .. Len(seen)
  BY <1>1, LenProperties DEF Rows
<1>4. StrictOrder(R, rows) /\ IsFiniteSet(rows) /\ Cardinality(rows) \in Nat
  BY <1>2, <1>3, OrderedRows, FS_CardinalityType
<1> HIDE DEF f, sort, seen, rows, R
<1>5. IsInjective(seen)
  <2> SUFFICES ASSUME NEW i \in 1 .. Len(seen), NEW j \in 1 .. Len(seen), seen[i] = seen[j] PROVE i = j
    BY <1>3 DEF IsInjective
  <2> QED BY <1>1, <1>3
<1>6. ToSet(seen) = rows
  <2>1. \A i \in DOMAIN seen : seen[i] \in rows BY <1>1, <1>3
  <2>2. ASSUME NEW t \in rows PROVE \E i \in DOMAIN seen : seen[i] = t
    <3> DEFINE i == Rank(R, rows, t) + 1
    <3>1. Rank(R, rows, t) \in 0 .. Cardinality(rows) - 1 BY <1>4, RankBound
    <3>2. i \in 1 .. Len(seen) /\ i - 1 = Rank(R, rows, t) BY <1>1, <1>3, <1>4, <3>1
    <3>3. seen[i] \in rows /\ Rank(R, rows, seen[i]) = Rank(R, rows, t) BY <1>1, <3>2
    <3>4. seen[i] = t BY <1>4, <3>3, RankUnique
    <3> QED BY <1>3, <3>2, <3>4
  <2> QED BY <2>1, <2>2 DEF ToSet
<1>7. ~Uncapped(f) => rows = {t \in Txs : Means(f, t)} BY <1>2, WhereMeans DEF rows, Rows
<1>8. ASSUME NEW i \in DOMAIN seen, NEW j \in DOMAIN seen, i < j
      PROVE Key(sort, seen[i]) >= Key(sort, seen[j])
  <2>1. /\ seen[i] \in rows /\ seen[j] \in rows
        /\ Rank(R, rows, seen[i]) = i - 1 /\ Rank(R, rows, seen[j]) = j - 1
    BY <1>1, <1>3, <1>8
  <2>2. <<seen[j], seen[i]>> \notin R
    <3> SUFFICES ASSUME <<seen[j], seen[i]>> \in R PROVE FALSE OBVIOUS
    <3>1. Rank(R, rows, seen[j]) < Rank(R, rows, seen[i]) BY <1>4, <2>1, LowerRank
    <3> QED BY <1>3, <1>8, <2>1, <3>1
  <2>3. ~Ahead(sort, seen[j], seen[i]) BY <1>3, <2>1, <2>2 DEF R, Ordered
  <2>4. Key(sort, seen[i]) \in Int /\ Key(sort, seen[j]) \in Int BY <1>2, <1>3, <2>1, KeyIsInt
  <2> QED BY <2>3, <2>4 DEF Ahead
<1> QED BY <1>5, <1>6, <1>7, <1>8 DEF PagesWhole, f, sort, seen

\* A search read to its end while nothing changed has every row it means, once,
\* in order, whatever the database does with rows that tie.
THEOREM Whole == SearchSpec => []PagesWhole
<1>1. SearchInit => ListInv BY DEF SearchInit, Unread, ListInv, Listing, FrontRead
<1>2. ListInv /\ [SearchNext]_<<vars, listing>> => ListInv' BY ListStep
<1> QED BY <1>1, <1>2, FrontWhole, PTL DEF SearchSpec

-----------------------------------------------------------------------------
(* Words.                                                                   *)

Greater(S) == {p \in S \X S : p[1] > p[2]}

LEMMA AboveRank ==
  ASSUME NEW S \in SUBSET Nat
  PROVE /\ StrictOrder(Greater(S), S)
        /\ \A n \in S : Cardinality(Above(n, S)) = Rank(Greater(S), S, n)
<1>1. \A x, y \in S : <<x, y>> \in Greater(S) <=> x > y BY DEF Greater
<1>2. StrictOrder(Greater(S), S) BY <1>1 DEF StrictOrder
<1>3. \A n \in S : Above(n, S) = Before(Greater(S), S, n) BY <1>1 DEF Above, Before
<1> QED BY <1>2, <1>3 DEF Rank

\* The n longest of at least n words are n.
LEMMA LongestCount ==
  ASSUME NEW S \in SUBSET Nat, IsFiniteSet(S), NEW n \in 0 .. Cardinality(S)
  PROVE Longest(n, S) \in SUBSET S /\ Cardinality(Longest(n, S)) = n
<1>1. Longest(n, S) = {x \in S : Rank(Greater(S), S, x) < n} BY AboveRank DEF Longest
<1> QED BY <1>1, AboveRank, RankFirst

\* Two descriptions that share half of their words share one of the first's
\* longer half.
LEMMA PrefilterFinds ==
  ASSUME NEW a \in SUBSET Words, NEW b \in SUBSET Words, Overlaps(a, b)
  PROVE PrefilterTokens(a) \cap b # {}
<1> DEFINE n == Cardinality(a)
           p == PrefilterTokens(a)
<1>1. IsFiniteSet(a) /\ IsFiniteSet(b) /\ a \in SUBSET Nat BY WordAssumption, FS_Subset
<1>2. n \in Nat /\ n # 0 BY <1>1, FS_CardinalityType, FS_EmptySet DEF Overlaps
<1>3. n \div 2 + 1 \in 0 .. n BY <1>2
<1>4. p \in SUBSET a /\ Cardinality(p) = n \div 2 + 1
  BY <1>1, <1>3, LongestCount DEF PrefilterTokens
<1>5. IsFiniteSet(a \cup b) /\ a \in SUBSET (a \cup b) BY <1>1, FS_Union
<1>6. n <= Cardinality(a \cup b) /\ Cardinality(a \cup b) \in Nat
  BY <1>5, FS_Subset, FS_CardinalityType
<1>7. IsFiniteSet(a \cap b) /\ Cardinality(a \cap b) \in Nat
  BY <1>1, FS_Intersection, FS_CardinalityType
<1>8. 2 * Cardinality(a \cap b) >= n BY <1>2, <1>6, <1>7 DEF Overlaps
<1>9. Cardinality(p) + Cardinality(a \cap b) > n
  <2> HIDE DEF n, p
  <2> QED BY <1>2, <1>4, <1>7, <1>8
<1>10. p \cap (a \cap b) # {}
  <2>1. p \subseteq a /\ a \cap b \subseteq a BY <1>4
  <2> HIDE DEF p
  <2> QED BY <1>1, <1>9, <2>1, FS_MajoritiesIntersect
<1> QED BY <1>10

\* So what is similar is found, on rows whose words are words.
LEMMA SimilarFound == (\A t \in Txs : txs[t].words \subseteq Words) => NothingMissed
<1> SUFFICES ASSUME \A t \in Txs : txs[t].words \subseteq Words, NEW t \in Txs, NEW u \in Txs, u # t,
                    txs[u].type = txs[t].type, SamePayee(t, u) \/ Alike(t, u)
             PROVE u \in Candidates(t)
  BY DEF NothingMissed
<1>1. CASE SamePayee(t, u) BY <1>1 DEF Candidates
<1>2. CASE Alike(t, u)
  <2>1. PrefilterTokens(DescriptionTokens(txs[t].words)) \cap DescriptionTokens(txs[u].words) # {}
    BY <1>2, PrefilterFinds DEF Alike, DescriptionTokens
  <2> QED BY <1>2, <2>1 DEF Candidates, DescriptionTokens
<1> QED BY <1>1, <1>2

-----------------------------------------------------------------------------
(* What the book and the rows hold.                                         *)

Writers == {"teach", "edit", "remove", "toggle"}
Editors == Writers \cup {"list", "look"}
Steps == {"open", "name", "create", "demote", "write"}
Matches == {m \in [type : Types \cup {None}, words : Seq(Words)] : m.words # << >>}
Outcomes == [category : Cats \cup {None}, payee : Payees \cup {None}, label : Names \cup {None}]
EditFields == {"op", "step", "alone", "slug", "doc", "copy"}

\* What an editor holds: its operation's arguments, and at each step what the
\* steps before it found.
EditShape(e) ==
  /\ EditFields \subseteq DOMAIN e /\ e.op \in Editors /\ e.step \in Steps
  /\ e.op \in {"teach", "edit"} => /\ {"match", "outputs"} \subseteq DOMAIN e
                                   /\ e.match \in Matches /\ e.outputs \in Outcomes
  /\ e.op \in {"edit", "remove", "look"} => "row" \in DOMAIN e /\ e.row \in Nat
  /\ e.op = "toggle" => "auto" \in DOMAIN e /\ e.auto \in BOOLEAN
  /\ e.step \in {"create", "demote"} => e.slug \in Docs
  /\ e.step \in {"demote", "write"} => e.doc \in Docs
  /\ e.step = "write" => e.op \in Writers /\ e.copy \in Documents

\* What anybody else holds.
OtherShape(e) ==
  /\ "step" \notin DOMAIN e
  /\ \/ e = Free
     \/ e.op = "categorise" /\ e.value \in Cats \cup {None}
     \/ e.op = "merchant" /\ e.value \in Payees \cup {None}
     \/ e.op = "mint" /\ e.name \in Names /\ e.then \in {"join", "upsert"}
     \/ e.op = "rename" /\ e.name \in Names
     \/ e.op \in {"join", "upsert"}

PassShape(p) ==
  /\ p.at \in {"idle", "read", "apply", "label", "tag", "done"}
  /\ p.at = "idle" => p = Idle
  /\ p.at # "idle" => {"at", "rules", "auto", "alone"} \subseteq DOMAIN p /\ p.rules \in Seq(Rules)
  /\ p.at \in {"apply", "label", "tag", "done"} =>
       /\ {"snap", "todo", "wanted", "linked", "failed", "missed"} \subseteq DOMAIN p
       /\ p.snap \in [Txs -> Transactions] /\ p.todo \subseteq Txs /\ p.wanted \subseteq Names \X Txs
       /\ p.linked \subseteq Txs /\ p.failed \subseteq Txs
  /\ p.at \in {"label", "tag"} => {"name", "label"} \subseteq DOMAIN p /\ p.name \in Names
  /\ p.at = "tag" => "ids" \in DOMAIN p

TypeOfDocs ==
  /\ docs \in [Docs -> Documents] /\ minted \in Nat /\ now \in Nat
  /\ \A d \in Docs : docs[d].stamp <= now
TypeOfHands ==
  /\ hand = [h \in Hands |-> hand[h]]
  /\ \A h \in Hands : EditShape(hand[h]) \/ OtherShape(hand[h])
TypeOfRows ==
  /\ txs \in [Txs -> Transactions]
  /\ payees \in [Payees -> Names \cup {None}]
  /\ labels \in [Labels -> Names \cup {None, Gone}]
  /\ \A t \in Txs : txs[t].tags \subseteq Living
TypeInv == TypeOfDocs /\ TypeOfHands /\ TypeOfRows /\ PassShape(pass)

LEMMA TypesHold == Init => TypeInv
BY DEF Init, Household, TypeInv, TypeOfDocs, TypeOfHands, TypeOfRows, PassShape, OtherShape, Free, Idle

-----------------------------------------------------------------------------
(* Tables.                                                                  *)

LEMMA NextIsThere ==
  ASSUME NEW S \in SUBSET Nat, S # {} PROVE NextOf(S) \in S /\ \A j \in S : NextOf(S) <= j
<1>1. PICK i \in S : \A j \in S : <<j, i>> \notin OpToRel(<, Nat) BY NatLessThanWellFounded, WFMin
<1>2. \A j \in S : i \in Nat /\ j \in Nat /\ ~(j < i) BY <1>1 DEF OpToRel
<1>3. \A j \in S : i <= j BY <1>2
<1> QED BY <1>3 DEF NextOf

\* A sequence of another's items at some places, each once, in order.
Picked(s, I, new) ==
  \E f \in [1 .. Cardinality(I) -> I] :
    /\ \A k \in 1 .. Cardinality(I) : new[k] = s[f[k]]
    /\ \A k, l \in 1 .. Cardinality(I) : k < l => f[k] < f[l]
    /\ \A i \in I : \E k \in 1 .. Cardinality(I) : f[k] = i

LEMMA FilterPlaces ==
  ASSUME NEW S, NEW s \in Seq(S), NEW I \in SUBSET (DOMAIN s)
  PROVE /\ IsFiniteSet(I) /\ Cardinality(I) \in Nat
        /\ Filter(s, I) \in Seq(S) /\ Len(Filter(s, I)) = Cardinality(I)
        /\ Picked(s, I, Filter(s, I))
<1> DEFINE n == Cardinality(I)
           G == Greater(I)
           f == [k \in 1 .. n |-> CHOOSE i \in I : Cardinality(Above(i, I)) = n - k]
<1>1. Len(s) \in Nat /\ DOMAIN s = 1 .. Len(s) /\ s \in [1 .. Len(s) -> S] BY LenProperties
<1>2. I \in SUBSET Nat BY <1>1
<1>3. IsFiniteSet(I) /\ n \in Nat
  <2>1. IsFiniteSet(1 .. Len(s)) BY <1>1, UpTo
  <2> QED BY <1>1, <2>1, FS_Subset, FS_CardinalityType
<1>4. StrictOrder(G, I) /\ \A i \in I : Cardinality(Above(i, I)) = Rank(G, I, i) BY <1>2, AboveRank
<1>5. ASSUME NEW k \in 1 .. n PROVE f[k] \in I /\ Rank(G, I, f[k]) = n - k
  <2>1. n - k \in 0 .. n - 1 BY <1>3
  <2>2. \E i \in I : Rank(G, I, i) = n - k BY <1>3, <1>4, <2>1, RankOnto
  <2>3. f[k] = CHOOSE i \in I : Cardinality(Above(i, I)) = n - k OBVIOUS
  <2>4. f[k] \in I /\ Cardinality(Above(f[k], I)) = n - k
    <3> HIDE DEF f, n
    <3> QED BY <1>4, <2>2, <2>3
  <2> QED BY <1>4, <2>4
<1>6. f \in [1 .. n -> I] BY <1>5
<1>7. ASSUME NEW k \in 1 .. n, NEW l \in 1 .. n, k < l PROVE f[k] < f[l]
  <2> HIDE DEF f, n, G
  <2>1. /\ f[k] \in I /\ f[l] \in I /\ Rank(G, I, f[k]) = n - k /\ Rank(G, I, f[l]) = n - l BY <1>5
  <2>2. f[k] # f[l] BY <1>3, <1>7, <2>1
  <2>3. ~(f[k] > f[l])
    <3> SUFFICES ASSUME f[k] > f[l] PROVE FALSE OBVIOUS
    <3>1. <<f[k], f[l]>> \in G BY <2>1 DEF G, Greater
    <3>2. Rank(G, I, f[k]) < Rank(G, I, f[l]) BY <1>3, <1>4, <2>1, <3>1, LowerRank
    <3> QED BY <1>3, <1>7, <2>1, <3>2
  <2> QED BY <1>2, <2>1, <2>2, <2>3
<1>8. ASSUME NEW i \in I PROVE \E k \in 1 .. n : f[k] = i
  <2> HIDE DEF f, n, G
  <2>1. Rank(G, I, i) \in 0 .. n - 1 BY <1>3, <1>4, RankBound DEF n
  <2>2. n - Rank(G, I, i) \in 1 .. n /\ n - (n - Rank(G, I, i)) = Rank(G, I, i) BY <1>3, <2>1
  <2>3. f[n - Rank(G, I, i)] \in I /\ Rank(G, I, f[n - Rank(G, I, i)]) = Rank(G, I, i)
    BY <1>5, <2>2
  <2>4. f[n - Rank(G, I, i)] = i BY <1>3, <1>4, <2>3, RankUnique
  <2> QED BY <2>2, <2>4
<1>9. Filter(s, I) = [k \in 1 .. n |-> s[f[k]]] BY DEF Filter
<1>10. \A k \in 1 .. n : s[f[k]] \in S BY <1>1, <1>5
<1>11. Filter(s, I) \in Seq(S) /\ Len(Filter(s, I)) = n
  <2> HIDE DEF f, n
  <2> QED BY <1>3, <1>9, <1>10
<1>12. \A k \in 1 .. n : Filter(s, I)[k] = s[f[k]] BY <1>9
<1>13. Picked(s, I, Filter(s, I))
  <2> HIDE DEF f
  <2> QED BY <1>6, <1>7, <1>8, <1>12 DEF Picked
<1> QED BY <1>3, <1>11, <1>13

LEMMA FilterSeq ==
  ASSUME NEW S, NEW s \in Seq(S), NEW I \in SUBSET (DOMAIN s) PROVE Filter(s, I) \in Seq(S)
BY FilterPlaces

LEMMA RowTyped ==
  ASSUME NEW id \in Nat, NEW match \in Matches, NEW outputs \in Outcomes
  PROVE Row(id, match, outputs) \in Rules
BY DEF Row, Matches, Outcomes, Rules

LEMMA RulesIn == ASSUME NEW rules \in Seq(Rules), NEW i \in DOMAIN rules PROVE rules[i] \in Rules
BY LenProperties, ElementOfSeq

LEMMA NormalizedTyped ==
  ASSUME NEW rules \in Seq(Rules)
  PROVE Normalized(rules) \in Seq(Rules) /\ DOMAIN Normalized(rules) = DOMAIN rules
<1>1. Len(rules) \in Nat /\ DOMAIN rules = 1 .. Len(rules) BY LenProperties
<1>2. ASSUME NEW i \in DOMAIN rules PROVE [rules[i] EXCEPT !.whole = TRUE] \in Rules
  <2>1. rules[i] \in Rules BY <1>1, ElementOfSeq
  <2> QED BY <2>1 DEF Rules
<1> QED BY <1>1, <1>2 DEF Normalized

LEMMA FilledTyped ==
  ASSUME NEW row \in Rules, NEW outputs \in Outcomes PROVE Filled(row, outputs) \in Rules
<1> DEFINE r == Filled(row, outputs)
<1>1. DOMAIN row = {"id", "type", "words", "shaped", "whole", "category", "payee", "label"}
      /\ DOMAIN outputs = {"category", "payee", "label"}
  BY DEF Rules, Outcomes
<1>2. /\ r.id = row.id /\ r.type = row.type /\ r.words = row.words
      /\ r.shaped = row.shaped /\ r.whole = row.whole
  BY <1>1 DEF Filled
<1>3. /\ r.category = IF outputs.category # None THEN outputs.category ELSE row.category
      /\ r.payee = IF outputs.payee # None THEN outputs.payee ELSE row.payee
      /\ r.label = IF outputs.label # None THEN outputs.label ELSE row.label
  BY <1>1 DEF Filled
<1>4. r = [id |-> r.id, type |-> r.type, words |-> r.words, shaped |-> r.shaped, whole |-> r.whole,
           category |-> r.category, payee |-> r.payee, label |-> r.label]
  BY <1>1 DEF Filled
<1> HIDE DEF r
<1> QED BY <1>2, <1>3, <1>4 DEF Rules, Outcomes, r

LEMMA UpsertedTyped ==
  ASSUME NEW rules \in Seq(Rules), NEW id \in Nat, NEW match \in Matches, NEW outputs \in Outcomes
  PROVE Upserted(rules, id, match, outputs) \in Seq(Rules)
<1> DEFINE i == SelectInSeq(rules, LAMBDA row : MatchOf(row) = match /\ row.shaped)
           kept == Filter(rules, {j \in DOMAIN rules : ~Narrower(rules[j], match, outputs)})
<1>1. [rules EXCEPT ![i] = Filled(@, outputs)] \in Seq(Rules)
  <2>1. Len(rules) \in Nat /\ DOMAIN rules = 1 .. Len(rules) /\ rules \in [1 .. Len(rules) -> Rules]
    BY LenProperties
  <2>2. CASE i \in 1 .. Len(rules)
    <3>1. Filled(rules[i], outputs) \in Rules BY <2>1, <2>2, FilledTyped
    <3> HIDE DEF i
    <3> QED BY <2>2, <3>1, ExceptSeq
  <2>3. CASE i \notin 1 .. Len(rules)
    <3> HIDE DEF i
    <3>1. [rules EXCEPT ![i] = Filled(@, outputs)] = rules BY <2>1, <2>3
    <3> QED BY <3>1
  <2> QED BY <2>2, <2>3
<1>2. Added(kept, Row(id, match, outputs)) \in Seq(Rules)
  <2>1. kept \in Seq(Rules) BY FilterSeq
  <2>2. <<Row(id, match, outputs)>> \in Seq(Rules) BY RowTyped
  <2> HIDE DEF kept
  <2> QED BY <2>1, <2>2, ConcatProperties DEF Added
<1> QED BY <1>1, <1>2 DEF Upserted

LEMMA RewrittenTyped ==
  ASSUME NEW rules \in Seq(Rules), NEW id \in Nat, NEW match \in Matches, NEW outputs \in Outcomes
  PROVE Rewritten(rules, id, match, outputs) \in Seq(Rules)
<1>1. Len(rules) \in Nat /\ DOMAIN rules = 1 .. Len(rules) BY LenProperties
<1>2. Normalized(rules) \in Seq(Rules) /\ DOMAIN Normalized(rules) = DOMAIN rules BY NormalizedTyped
<1>3. \A i \in DOMAIN rules : Normalized(rules)[i] \in Rules BY <1>2, RulesIn
<1>4. \A i \in DOMAIN rules :
        (IF rules[i].id = id THEN Row(id, match, outputs) ELSE Normalized(rules)[i]) \in Rules
  BY <1>3, RowTyped
<1> QED BY <1>1, <1>4 DEF Rewritten

LEMMA RemovedTyped ==
  ASSUME NEW rules \in Seq(Rules), NEW id PROVE Removed(rules, id) \in Seq(Rules)
BY FilterSeq DEF Removed

\* What an editor writes back is a table of rows.
LEMMA MutatedTyped ==
  ASSUME NEW e, EditShape(e), e.step = "write", minted \in Nat
  PROVE Mutated(e.copy, e).rules \in Seq(Rules) /\ Mutated(e.copy, e).auto \in BOOLEAN
<1>1. e.copy \in Documents /\ e.op \in Writers BY DEF EditShape
<1>2. e.copy.rules \in Seq(Rules) /\ e.copy.auto \in BOOLEAN BY <1>1 DEF Documents
<1>3. CASE e.op = "teach"
  <2>1. Mutated(e.copy, e) =
          [e.copy EXCEPT !.rules = Upserted(Normalized(@), minted + 1, e.match, e.outputs)]
    BY <1>3 DEF Mutated
  <2>2. Upserted(Normalized(e.copy.rules), minted + 1, e.match, e.outputs) \in Seq(Rules)
    BY <1>2, <1>3, NormalizedTyped, UpsertedTyped DEF EditShape
  <2> QED BY <1>1, <1>2, <2>1, <2>2 DEF Documents
<1>4. CASE e.op = "edit"
  <2>1. Mutated(e.copy, e) = [e.copy EXCEPT !.rules = Rewritten(@, e.row, e.match, e.outputs)]
    BY <1>4 DEF Mutated
  <2>2. Rewritten(e.copy.rules, e.row, e.match, e.outputs) \in Seq(Rules)
    BY <1>2, <1>4, RewrittenTyped DEF EditShape
  <2> QED BY <1>1, <1>2, <2>1, <2>2 DEF Documents
<1>5. CASE e.op = "remove"
  <2>1. Mutated(e.copy, e) = [e.copy EXCEPT !.rules = Removed(@, e.row)] BY <1>5 DEF Mutated
  <2>2. Removed(e.copy.rules, e.row) \in Seq(Rules) BY <1>2, RemovedTyped
  <2> QED BY <1>1, <1>2, <2>1, <2>2 DEF Documents
<1>6. CASE e.op = "toggle"
  <2>1. Mutated(e.copy, e) = [e.copy EXCEPT !.auto = e.auto] BY <1>6 DEF Mutated
  <2> QED BY <1>1, <1>2, <1>6, <2>1 DEF Documents, EditShape
<1> QED BY <1>1, <1>3, <1>4, <1>5, <1>6 DEF Writers

-----------------------------------------------------------------------------
(* Hands.                                                                   *)

Shape(e) == EditShape(e) \/ OtherShape(e)

LEMMA FreeShape == Shape(Free)
BY DEF Shape, OtherShape, Free

LEMMA HandGoes ==
  ASSUME TypeOfHands, NEW h \in Hands, NEW e, Shape(e), Goes(h, e) PROVE TypeOfHands'
BY DEF TypeOfHands, Goes, Shape

\* An editor loses nothing of what it holds when another one writes.
LEMMA AloneNoMore ==
  ASSUME NEW e, EditShape(e) PROVE EditShape([e EXCEPT !.alone = FALSE])
BY DEF EditShape, EditFields

LEMMA HandDisturbs ==
  ASSUME TypeOfHands, NEW h \in Hands, NEW e, Shape(e), hand' = Disturbed(h, e) PROVE TypeOfHands'
<1>1. ASSUME NEW g \in Hands PROVE Shape(hand'[g])
  <2>1. CASE g = h BY <2>1 DEF Disturbed
  <2>2. CASE g # h /\ Edits(g)
    <3>1. EditShape(hand[g]) BY <2>2 DEF TypeOfHands, Edits, OtherShape
    <3>2. hand'[g] = [hand[g] EXCEPT !.alone = FALSE] BY <2>2 DEF Disturbed
    <3> QED BY <3>1, <3>2, AloneNoMore DEF Shape
  <2>3. CASE g # h /\ ~Edits(g) BY <2>3 DEF Disturbed, TypeOfHands, Shape
  <2> QED BY <2>1, <2>2, <2>3
<1>2. hand' = [g \in Hands |-> hand'[g]] BY DEF Disturbed
<1> QED BY <1>1, <1>2 DEF TypeOfHands, Shape

\* What a hand holds that has only started on the book.
OpenShape(e) == EditShape(e) /\ e.step = "open"

LEMMA EditingShape ==
  /\ OpenShape(Editing("list"))
  /\ \A r \in Nat, op \in {"remove", "look"} : OpenShape(With([row |-> r], Editing(op)))
  /\ \A b \in BOOLEAN : OpenShape(With([auto |-> b], Editing("toggle")))
  /\ \A m \in Matches, o \in Outcomes : OpenShape(Teaching(m, o))
  /\ \A r \in Nat, m \in Matches, o \in Outcomes :
       OpenShape(With([row |-> r, match |-> m, outputs |-> o], Editing("edit")))
<1>1. OpenShape(Editing("list")) BY DEF OpenShape, EditShape, Editing, EditFields, Editors, Steps
<1>2. ASSUME NEW r \in Nat, NEW op \in {"remove", "look"} PROVE OpenShape(With([row |-> r], Editing(op)))
  BY DEF OpenShape, EditShape, Editing, With, EditFields, Editors, Writers, Steps
<1>3. ASSUME NEW b \in BOOLEAN PROVE OpenShape(With([auto |-> b], Editing("toggle")))
  BY DEF OpenShape, EditShape, Editing, With, EditFields, Editors, Writers, Steps
<1>4. ASSUME NEW m \in Matches, NEW o \in Outcomes PROVE OpenShape(Teaching(m, o))
  BY DEF OpenShape, EditShape, Teaching, Editing, With, EditFields, Editors, Writers, Steps
<1>5. ASSUME NEW r \in Nat, NEW m \in Matches, NEW o \in Outcomes
      PROVE OpenShape(With([row |-> r, match |-> m, outputs |-> o], Editing("edit")))
  BY DEF OpenShape, EditShape, Editing, With, EditFields, Editors, Writers, Steps
<1> QED BY <1>1, <1>2, <1>3, <1>4, <1>5

\* The words a lesson is keyed on.
LEMMA LongestFirstTyped ==
  ASSUME NEW S \in SUBSET Words PROVE LongestFirst(S) \in Seq(S)
<1> DEFINE n == Cardinality(S)
           G == Greater(S)
<1>1. IsFiniteSet(S) /\ S \in SUBSET Nat /\ n \in Nat BY WordAssumption, FS_Subset, FS_CardinalityType
<1>2. StrictOrder(G, S) /\ \A w \in S : Cardinality(Above(w, S)) = Rank(G, S, w) BY <1>1, AboveRank
<1>3. ASSUME NEW i \in 1 .. n
      PROVE (CHOOSE w \in S : Cardinality(Above(w, S)) = i - 1) \in S
  <2>1. i - 1 \in 0 .. n - 1 BY <1>1
  <2>2. \A k \in 0 .. n - 1 : \E w \in S : Rank(G, S, w) = k
    <3>1. IsFiniteSet(S) /\ StrictOrder(G, S) BY <1>1, <1>2
    <3> HIDE DEF G
    <3> QED BY <3>1, RankOnto
  <2> QED BY <1>2, <2>1, <2>2
<1> QED BY <1>1, <1>3 DEF LongestFirst

LEMMA DistinctiveTyped ==
  ASSUME NEW description \in SUBSET Words PROVE DistinctiveTokens(description) \in Seq(Words)
<1> DEFINE S == Longest(MaxTokens, {w \in DescriptionTokens(description) : IsDistinctive(w)})
<1>1. S \in SUBSET Words BY DEF Longest, DescriptionTokens
<1>2. LongestFirst(S) \in Seq(S)
  <2> HIDE DEF S
  <2> QED BY <1>1, LongestFirstTyped
<1> HIDE DEF S
<1>3. LongestFirst(S) \in Seq(Words) BY <1>1, <1>2, SeqMonotonic
<1> QED BY <1>3 DEF DistinctiveTokens, S

\* Whoever starts on the book holds what it needs.
LEMMA EditorShape ==
  ASSUME TypeInv,
         CreateRule \/ UpdateRule \/ RemoveRule \/ ToggleTransfersAutoLink \/ ListRules \/ DeleteRule
           \/ \E h \in Hands : Learn(h)
  PROVE /\ Reads
        /\ \E h \in Hands : hand[h] = Free /\ OpenShape(hand'[h]) /\ Goes(h, hand'[h])
<1> USE BookIds
<1>1. ASSUME NEW h \in Hands, NEW kind, NEW e, OpenShape(e), Starts(h, kind, e)
      PROVE \E g \in Hands : hand[g] = Free /\ OpenShape(hand'[g]) /\ Goes(g, hand'[g])
  <2>1. hand[h] = Free /\ Goes(h, e) /\ hand'[h] = e BY <1>1 DEF Starts, Goes, TypeInv, TypeOfHands
  <2> QED BY <1>1, <2>1
<1>2. ASSUME NEW h \in Hands, Learn(h) PROVE Reads /\ \E kind, e : OpenShape(e) /\ Starts(h, kind, e)
  <2>0. PICK t \in Txs : \E c \in {txs[t].category} \cup (IF h = "chat" THEN Cats ELSE {}) :
          /\ DistinctiveTokens(txs[t].words) # << >>
          /\ Starts(h, "edit", Teaching(Match(txs[t].type, DistinctiveTokens(txs[t].words)),
                                        Outputs(c, txs[t].payee, None)))
    BY <1>2 DEF Learn
  <2>1. PICK c \in {txs[t].category} \cup (IF h = "chat" THEN Cats ELSE {}) :
          /\ DistinctiveTokens(txs[t].words) # << >>
          /\ Starts(h, "edit", Teaching(Match(txs[t].type, DistinctiveTokens(txs[t].words)),
                                        Outputs(c, txs[t].payee, None)))
    BY <2>0
  <2>2. txs[t] \in Transactions BY DEF TypeInv, TypeOfRows
  <2>3. DistinctiveTokens(txs[t].words) \in Seq(Words) BY <2>2, DistinctiveTyped DEF Transactions
  <2>4. Match(txs[t].type, DistinctiveTokens(txs[t].words)) \in Matches
    BY <2>1, <2>2, <2>3 DEF Match, Matches, Transactions
  <2>5. Outputs(c, txs[t].payee, None) \in Outcomes BY <2>2 DEF Outputs, Outcomes, Transactions
  <2> QED BY <1>2, <2>1, <2>4, <2>5, EditingShape DEF Learn
<1>3. ASSUME CreateRule PROVE Reads /\ \E kind, e : OpenShape(e) /\ Starts("chat", kind, e)
  <2>1. PICK words \in Spelled, type \in Types, c \in Cats :
          /\ Usable(words) # << >>
          /\ Starts("chat", "edit", Teaching(Match(type, Usable(words)), Outputs(c, None, None)))
    BY <1>3 DEF CreateRule
  <2>2. words \in Seq(Words)
    <3>1. PICK n \in 1 .. 2 : words \in [1 .. n -> Words] BY DEF Spelled
    <3> QED BY <3>1
  <2>3. Usable(words) \in Seq(Words) BY <2>2, FilterSeq DEF Usable
  <2>4. Match(type, Usable(words)) \in Matches /\ Outputs(c, None, None) \in Outcomes
    BY <2>1, <2>3 DEF Match, Matches, Outputs, Outcomes
  <2> QED BY <1>3, <2>1, <2>4, EditingShape DEF CreateRule
<1>4. ASSUME NEW row \in Shown PROVE row \in Rules
  <2>1. PICK d \in Active : row \in ToSet(docs[d].rules) BY DEF Shown
  <2>2. docs[d].rules \in Seq(Rules) BY DEF TypeInv, TypeOfDocs, Documents, Active, Kept
  <2> QED BY <2>1, <2>2, RulesIn DEF ToSet
<1>5. ASSUME UpdateRule PROVE Reads /\ \E kind, e : OpenShape(e) /\ Starts("page", kind, e)
  <2>0. PICK row \in Shown : \E edit \in Edited(row) :
          /\ ValidEdit(edit[1].words, edit[2])
          /\ Starts("page", "edit", With([row |-> row.id, match |-> edit[1], outputs |-> edit[2]], Editing("edit")))
    BY <1>5 DEF UpdateRule
  <2>1. PICK edit \in Edited(row) :
          /\ ValidEdit(edit[1].words, edit[2])
          /\ Starts("page", "edit", With([row |-> row.id, match |-> edit[1], outputs |-> edit[2]], Editing("edit")))
    BY <2>0
  <2>2. row \in Rules BY <1>4
  <2>3. SubSeq(row.words, 2, Len(row.words)) \in Seq(Words)
    <3>1. row.words \in Seq(Words) BY <2>2 DEF Rules
    <3>2. Len(row.words) \in Nat /\ \A i \in 2 .. Len(row.words) : row.words[i] \in Words
      BY <3>1, LenProperties, ElementOfSeq
    <3> QED BY <3>2, SubSeqProperties
  <2>4. PICK type \in {row.type, None}, words \in {row.words, SubSeq(row.words, 2, Len(row.words))},
             c \in Cats \cup {None}, label \in Names \cup {row.label} :
          edit = <<Match(type, words), Outputs(c, row.payee, label)>>
    BY DEF Edited
  <2>5. edit[1] \in Matches
    BY <2>1, <2>2, <2>3, <2>4 DEF Match, Matches, Rules, ValidEdit
  <2>6. edit[2] \in Outcomes BY <2>2, <2>4 DEF Outputs, Outcomes, Rules
  <2>7. row.id \in Nat BY <2>2 DEF Rules
  <2> QED BY <1>5, <2>1, <2>5, <2>6, <2>7, EditingShape DEF UpdateRule
<1>6. ASSUME RemoveRule PROVE Reads /\ \E kind, e : OpenShape(e) /\ Starts("page", kind, e)
  <2>1. PICK row \in Shown : Starts("page", "edit", With([row |-> row.id], Editing("remove")))
    BY <1>6 DEF RemoveRule
  <2>2. row.id \in Nat BY <1>4 DEF Rules
  <2> QED BY <1>6, <2>1, <2>2, EditingShape DEF RemoveRule
<1>7. ASSUME ToggleTransfersAutoLink PROVE Reads /\ \E kind, e : OpenShape(e) /\ Starts("page", kind, e)
  BY <1>7, EditingShape DEF ToggleTransfersAutoLink
<1>8. ASSUME ListRules PROVE Reads /\ \E kind, e : OpenShape(e) /\ Starts("chat", kind, e)
  BY <1>8, EditingShape DEF ListRules
<1>9. ASSUME DeleteRule PROVE Reads /\ \E kind, e : OpenShape(e) /\ Starts("chat", kind, e)
  <2>1. PICK id \in 1 .. minted : Starts("chat", "edit", With([row |-> id], Editing("look")))
    BY <1>9 DEF DeleteRule
  <2>2. id \in Nat BY DEF TypeInv, TypeOfDocs
  <2> QED BY <1>9, <2>1, <2>2, EditingShape DEF DeleteRule
<1>10. Reads BY <1>2, <1>3, <1>5, <1>6, <1>7, <1>8, <1>9
<1>11. \E h \in Hands : \E kind, e : OpenShape(e) /\ Starts(h, kind, e)
  BY <1>2, <1>3, <1>5, <1>6, <1>7, <1>8, <1>9
<1> QED BY <1>1, <1>10, <1>11

-----------------------------------------------------------------------------
(* The book.                                                                *)

\* What a lesson, or a document made, does to the documents.
LEMMA DocTyped ==
  ASSUME TypeOfDocs, NEW d \in Docs, NEW doc \in Documents, doc.stamp <= now + 1,
         docs' = [docs EXCEPT ![d] = doc], now' = now + 1, minted' \in Nat
  PROVE TypeOfDocs'
<1>1. \A e \in Docs : docs[e].stamp \in Nat /\ docs[e].stamp <= now BY DEF TypeOfDocs, Documents
<1>2. doc.stamp \in Nat BY DEF Documents
<1> QED BY <1>1, <1>2 DEF TypeOfDocs

LEMMA DefaultTyped ==
  ASSUME now \in Nat, NEW slug \in Docs
  PROVE DefaultDocument(slug) \in Documents /\ DefaultDocument(slug).stamp = now + 1
BY EmptySeq DEF DefaultDocument, Documents

LEMMA BookTyped ==
  ASSUME TypeInv, NEW h \in Hands, EditBook(h) PROVE TypeOfDocs' /\ TypeOfHands'
<1> DEFINE e == hand[h]
<1>1. /\ Edits(h) => EditShape(e)
      /\ TypeOfDocs /\ TypeOfHands
  BY DEF TypeInv, TypeOfHands, Edits, OtherShape
<1>2. CASE Open(h)
  <2>1. EditShape(e) BY <1>1, <1>2 DEF Open, At
  <2>2. ASSUME NEW d \in Active, Goes(h, Found(h, d)) PROVE Shape(Found(h, d))
    <3>1. d \in Docs /\ docs[d] \in Documents BY <1>1 DEF Active, Kept, TypeOfDocs
    <3>2. CASE e.op = "list" BY <3>2, FreeShape DEF Found
    <3>3. CASE e.op = "look" /\ Found(h, d) = Free BY <3>3, FreeShape
    <3>4. CASE e.op = "look" /\ Found(h, d) = [e EXCEPT !.op = "remove"]
      <4>1. e.step = "open" BY <1>2 DEF Open, At
      <4> HIDE DEF e
      <4>2. EditShape([e EXCEPT !.op = "remove"])
        BY <2>1, <3>4, <4>1 DEF EditShape, EditFields, Editors, Writers
      <4> QED BY <3>4, <4>2 DEF Shape
    <3>5. CASE e.op \in Writers
      <4>1. Found(h, d) = [e EXCEPT !.step = "write", !.doc = d, !.copy = docs[d]]
        BY <3>5 DEF Found, Writers
      <4> HIDE DEF e
      <4>2. EditShape([e EXCEPT !.step = "write", !.doc = d, !.copy = docs[d]])
        BY <2>1, <3>1, <3>5 DEF EditShape, EditFields, Editors, Writers, Steps
      <4> QED BY <4>1, <4>2 DEF Shape
    <3> QED BY <2>1, <3>2, <3>3, <3>4, <3>5 DEF Found, EditShape, Editors
  <2>3. EditShape([e EXCEPT !.step = "name"])
    <3> HIDE DEF e
    <3> QED BY <2>1 DEF EditShape, EditFields, Steps
  <2>4. TypeOfHands'
    <3>1. CASE Active # {}
      <4>1. PICK d \in Active : Goes(h, Found(h, d)) BY <1>2, <3>1 DEF Open
      <4> QED BY <1>1, <2>2, <4>1, HandGoes
    <3>2. CASE Active = {}
      <4>1. Goes(h, [e EXCEPT !.step = "name"]) BY <1>2, <3>2 DEF Open
      <4> QED BY <1>1, <2>3, <4>1, HandGoes DEF Shape
    <3> QED BY <3>1, <3>2
  <2> QED BY <1>1, <1>2, <2>4 DEF Open, bookVars, TypeOfDocs
<1>3. CASE Name(h)
  <2>1. EditShape(e) BY <1>1, <1>3 DEF Name, At
  <2>2. NextOf(Unused) \in Docs
    <3>1. Unused \in SUBSET Nat /\ Unused \subseteq Docs BY BookIds DEF Unused
    <3> QED BY <1>3, <3>1, NextIsThere DEF Name
  <2>3. EditShape([e EXCEPT !.step = "create", !.slug = NextOf(Unused)])
    <3> HIDE DEF e
    <3> QED BY <2>1, <2>2 DEF EditShape, EditFields, Steps
  <2>4. TypeOfHands' BY <1>1, <1>3, <2>3, HandGoes DEF Name, Shape
  <2> QED BY <1>1, <1>3, <2>4 DEF Name, bookVars, TypeOfDocs
<1>4. CASE Create(h)
  <2>1. EditShape(e) /\ e.step = "create" BY <1>1, <1>4 DEF Create, At
  <2>2. CASE \E d \in Kept : docs[d].slug = e.slug
    <3>1. Goes(h, Free) /\ UNCHANGED bookVars BY <1>4, <2>2 DEF Create
    <3> QED BY <1>1, <3>1, FreeShape, HandGoes DEF bookVars, TypeOfDocs
  <2>3. CASE ~\E d \in Kept : docs[d].slug = e.slug
    <3> DEFINE d == NextOf(Docs \ Kept)
    <3>1. /\ Docs \ Kept # {} /\ docs' = [docs EXCEPT ![d] = DefaultDocument(e.slug)]
          /\ now' = now + 1 /\ minted' = minted
          /\ hand' = Disturbed(h, [e EXCEPT !.step = "demote", !.doc = d])
      BY <1>4, <2>3 DEF Create
    <3>2. d \in Docs
      <4>1. Docs \ Kept \in SUBSET Nat BY BookIds
      <4> QED BY <3>1, <4>1, NextIsThere
    <3>3. e.slug \in Docs BY <2>1 DEF EditShape
    <3>4. EditShape([e EXCEPT !.step = "demote", !.doc = d])
      <4> HIDE DEF e, d
      <4> QED BY <2>1, <3>2 DEF EditShape, EditFields, Steps
    <3> HIDE DEF d
    <3>5. TypeOfHands' BY <1>1, <3>1, <3>4, HandDisturbs DEF Shape
    <3>6. DefaultDocument(e.slug) \in Documents /\ DefaultDocument(e.slug).stamp = now + 1
      BY <1>1, <3>3, DefaultTyped DEF TypeOfDocs
    <3>7. now \in Nat /\ minted \in Nat BY <1>1 DEF TypeOfDocs
    <3>8. DefaultDocument(e.slug).stamp <= now + 1 /\ minted' \in Nat BY <3>1, <3>6, <3>7
    <3>9. TypeOfDocs' BY <1>1, <3>1, <3>2, <3>6, <3>8, DocTyped
    <3> QED BY <3>5, <3>9
  <2> QED BY <2>2, <2>3
<1>5. CASE Demote(h)
  <2>1. EditShape(e) /\ e.step = "demote" BY <1>1, <1>5 DEF Demote, At
  <2>2. now \in Nat /\ e.slug \in Docs /\ e.doc \in Docs BY <1>1, <2>1 DEF TypeOfDocs, EditShape
  <2>3. TypeOfHands'
    <3>1. CASE e.op \in {"list", "look"}
      <4>1. hand' = Disturbed(h, Free) BY <1>5, <3>1 DEF Demote
      <4> QED BY <1>1, <4>1, FreeShape, HandDisturbs
    <3>2. CASE e.op \in Writers
      <4>1. hand' = Disturbed(h, [e EXCEPT !.step = "write", !.copy = DefaultDocument(e.slug)])
        BY <1>5, <3>2 DEF Demote, Writers
      <4>2. DefaultDocument(e.slug) \in Documents BY <2>2, DefaultTyped
      <4>3. EditShape([e EXCEPT !.step = "write", !.copy = DefaultDocument(e.slug)])
        <5> HIDE DEF e
        <5> QED BY <2>1, <2>2, <3>2, <4>2 DEF EditShape, EditFields, Steps
      <4> QED BY <1>1, <4>1, <4>3, HandDisturbs DEF Shape
    <3> QED BY <2>1, <3>1, <3>2 DEF EditShape, Editors
  <2>4. ASSUME NEW d \in Docs
        PROVE /\ Deactivated(d, docs[d], e.doc) \in Documents
              /\ Deactivated(d, docs[d], e.doc).stamp <= now + 1
    <3>1. docs[d] \in Documents /\ docs[d].stamp <= now BY <1>1 DEF TypeOfDocs
    <3>2. CASE Deactivated(d, docs[d], e.doc) = docs[d]
      <4>1. docs[d].stamp \in Nat BY <3>1 DEF Documents
      <4> QED BY <2>2, <3>1, <3>2, <4>1
    <3>3. CASE Deactivated(d, docs[d], e.doc) = [docs[d] EXCEPT !.active = FALSE, !.stamp = now + 1]
      <4> DEFINE doc == docs[d]
      <4>1. /\ [doc EXCEPT !.active = FALSE, !.stamp = now + 1] \in Documents
            /\ [doc EXCEPT !.active = FALSE, !.stamp = now + 1].stamp = now + 1
        <5>1. now + 1 \in Nat BY <2>2
        <5> QED BY <3>1, <5>1 DEF Documents
      <4> QED BY <2>2, <3>3, <4>1
    <3> QED BY <3>2, <3>3 DEF Deactivated
  <2>5. TypeOfDocs' BY <1>1, <1>5, <2>2, <2>4 DEF Demote, TypeOfDocs
  <2> QED BY <2>3, <2>5
<1>6. CASE Write(h)
  <2>1. EditShape(e) /\ e.step = "write" BY <1>1, <1>6 DEF Write, At
  <2>2. now \in Nat /\ minted \in Nat /\ e.doc \in Docs BY <1>1, <2>1 DEF TypeOfDocs, EditShape
  <2> DEFINE new == Mutated(e.copy, e)
  <2>3. new.rules \in Seq(Rules) /\ new.auto \in BOOLEAN BY <2>1, <2>2, MutatedTyped
  <2>4. docs' = [docs EXCEPT ![e.doc].rules = new.rules, ![e.doc].auto = new.auto,
                             ![e.doc].stamp = now + 1]
    BY <1>6 DEF Write
  <2>5. docs[e.doc] \in Documents BY <1>1, <2>2 DEF TypeOfDocs
  <2> DEFINE doc == [docs[e.doc] EXCEPT !.rules = new.rules, !.auto = new.auto, !.stamp = now + 1]
  <2>6. docs' = [docs EXCEPT ![e.doc] = doc]
    <3> HIDE DEF new
    <3> QED BY <1>1, <2>2, <2>4 DEF TypeOfDocs
  <2>7. doc \in Documents /\ doc.stamp = now + 1
    <3> HIDE DEF new
    <3>1. now + 1 \in Nat BY <2>2
    <3> QED BY <2>3, <2>5, <3>1 DEF Documents
  <2> HIDE DEF doc, new
  <2>8. minted' \in Nat /\ now' = now + 1 BY <1>6, <2>2 DEF Write
  <2>9. doc.stamp <= now + 1 BY <2>2, <2>7
  <2>10. TypeOfDocs' BY <1>1, <2>2, <2>6, <2>7, <2>8, <2>9, DocTyped
  <2>11. TypeOfHands' BY <1>1, <1>6, FreeShape, HandDisturbs DEF Write
  <2> QED BY <2>10, <2>11
<1> QED BY <1>2, <1>3, <1>4, <1>5, <1>6 DEF EditBook

-----------------------------------------------------------------------------
(* Rows, payees and tags.                                                   *)

\* Whoever works on rows, payees or tags leaves the book, and those who edit it,
\* alone.
BookAside ==
  /\ UNCHANGED bookVars
  /\ \E h \in Hands : ~Edits(h) /\ OtherShape(hand'[h]) /\ Goes(h, hand'[h])

LEMMA GoesAside ==
  ASSUME TypeOfHands, UNCHANGED bookVars, NEW h \in Hands, ~Edits(h), NEW e, OtherShape(e), Goes(h, e)
  PROVE BookAside
BY DEF TypeOfHands, Goes, BookAside

LEMMA StartsAside ==
  ASSUME TypeOfHands, UNCHANGED bookVars, NEW h \in Hands, NEW kind, NEW e, OtherShape(e),
         Starts(h, kind, e)
  PROVE BookAside
<1>1. ~Edits(h) BY DEF Starts, Edits, Free
<1> QED BY <1>1, GoesAside DEF Starts

LEMMA EndsAside ==
  ASSUME TypeOfHands, UNCHANGED bookVars, NEW h \in Hands, ~Edits(h), Ends(h) PROVE BookAside
<1>1. OtherShape(Free) BY DEF OtherShape, Free
<1> QED BY <1>1, GoesAside DEF Ends

LEMMA AsideTyped == ASSUME TypeOfDocs, TypeOfHands, BookAside PROVE TypeOfDocs' /\ TypeOfHands'
BY HandGoes DEF BookAside, Shape, TypeOfDocs, bookVars

LEMMA OtherShapes ==
  ASSUME NEW ids, NEW l
  PROVE /\ \A c \in Cats \cup {None} : OtherShape(Categorises(ids, c))
        /\ \A p \in Payees \cup {None} : OtherShape(Pays(ids, p))
        /\ \A name \in Names, then \in {"join", "upsert"} : OtherShape(Mints(name, ids, then))
        /\ \A name \in Names : OtherShape([op |-> "rename", label |-> l, name |-> name])
        /\ \A op \in {"join", "upsert"} : OtherShape([op |-> op, label |-> l, ids |-> ids])
BY DEF OtherShape, Categorises, Pays, Mints

LEMMA SameBook == ASSUME TypeOfDocs, UNCHANGED bookVars PROVE TypeOfDocs'
BY DEF TypeOfDocs, bookVars

LEMMA RowsStay == ASSUME TypeOfRows, UNCHANGED <<txs, labels, payees>> PROVE TypeOfRows'
BY DEF TypeOfRows, Living

\* A payee made, or rows given values of their columns, are as typed as before.
LEMMA PayeeMade ==
  ASSUME TypeOfRows, NEW p, NEW name \in Names, payees' = [payees EXCEPT ![p] = name],
         UNCHANGED tagVars
  PROVE TypeOfRows'
BY DEF TypeOfRows, tagVars, Living

LEMMA RowsGiven ==
  ASSUME TypeOfRows, UNCHANGED <<labels, payees>>, NEW new \in [Txs -> Transactions],
         \A t \in Txs : new[t].tags = txs[t].tags, txs' = new
  PROVE TypeOfRows'
BY DEF TypeOfRows, Living

LEMMA CategoryGiven ==
  ASSUME NEW tx \in Transactions, NEW c \in Cats \cup {None}, NEW o \in Owners
  PROVE LET new == [tx EXCEPT !.category = c, !.owner = o]
        IN  new \in Transactions /\ new.tags = tx.tags
BY DEF Transactions

LEMMA PayeeGiven ==
  ASSUME NEW tx \in Transactions, NEW p \in Payees \cup {None}, NEW o \in Owners
  PROVE LET new == [tx EXCEPT !.payee = p, !.powner = o]
        IN  new \in Transactions /\ new.tags = tx.tags
BY DEF Transactions

LEMMA FoundTyped ==
  /\ \A key : FoundCategory(key) \subseteq Cats
  /\ \A key : FoundMerchant(key) \subseteq Payees
BY DEF FoundCategory, FoundMerchant, Sole

\* What a hand that is writing to rows or tags was given.
LEMMA GivenTyped ==
  ASSUME TypeOfHands, NEW h \in Hands
  PROVE /\ hand[h].op = "categorise" => hand[h].value \in Cats \cup {None}
        /\ hand[h].op = "merchant" => hand[h].value \in Payees \cup {None}
        /\ hand[h].op = "mint" => hand[h].name \in Names /\ hand[h].then \in {"join", "upsert"}
        /\ hand[h].op = "rename" => hand[h].name \in Names
        /\ hand[h].op \notin Editors => ~Edits(h)
<1>1. CASE EditShape(hand[h])
  <2>1. hand[h].op \in Editors BY <1>1 DEF EditShape
  <2> QED BY <2>1 DEF Editors, Writers
<1>2. CASE OtherShape(hand[h]) BY <1>2 DEF OtherShape, Free, Edits
<1> QED BY <1>1, <1>2 DEF TypeOfHands

LEMMA EnricherTyped == ASSUME TypeInv, Enricher PROVE BookAside /\ TypeOfRows'
<1> USE BookIds
<1>1. TypeOfDocs /\ TypeOfHands /\ TypeOfRows BY DEF TypeInv
<1>2. ASSUME Reads PROVE UNCHANGED bookVars /\ TypeOfRows'
  BY <1>1, <1>2, RowsStay DEF Reads, tagVars
<1>3. CASE CategoriseTransactions
  <2>0. PICK c \in Cats : \E ids : Starts("chat", "enrich", Categorises(ids, c))
    BY <1>3, FoundTyped DEF CategoriseTransactions
  <2>1. PICK ids : Starts("chat", "enrich", Categorises(ids, c)) BY <2>0
  <2>2. OtherShape(Categorises(ids, c)) BY OtherShapes
  <2>3. UNCHANGED bookVars /\ TypeOfRows' BY <1>2, <1>3 DEF CategoriseTransactions
  <2> QED BY <1>1, <2>1, <2>2, <2>3, StartsAside
<1>4. CASE SetTransactionsMerchant
  <2>0. PICK p \in Payees : \E ids : Starts("chat", "enrich", Pays(ids, p))
    BY <1>4, FoundTyped DEF SetTransactionsMerchant
  <2>1. PICK ids : Starts("chat", "enrich", Pays(ids, p)) BY <2>0
  <2>2. OtherShape(Pays(ids, p)) BY OtherShapes
  <2>3. UNCHANGED bookVars /\ TypeOfRows' BY <1>2, <1>4 DEF SetTransactionsMerchant
  <2> QED BY <1>1, <2>1, <2>2, <2>3, StartsAside
<1>5. CASE CreateMerchant
  <2> DEFINE free == {q \in Payees : payees[q] = None}
             p == NextOf(free)
  <2>1. PICK name \in Names, ids \in SUBSET Txs \ {{}} :
          /\ \E q \in Payees : payees[q] = None
          /\ payees' = [payees EXCEPT ![p] = name]
          /\ Starts("chat", "enrich", Pays(ids, p))
    BY <1>5 DEF CreateMerchant
  <2>2. p \in Payees
    <3>1. free \in SUBSET Nat /\ free # {} BY <2>1
    <3> HIDE DEF free
    <3>2. p \in free BY <3>1, NextIsThere
    <3> QED BY <3>2 DEF free
  <2> HIDE DEF p
  <2>3. OtherShape(Pays(ids, p)) BY <2>2, OtherShapes
  <2>4. UNCHANGED bookVars /\ UNCHANGED tagVars BY <1>5 DEF CreateMerchant
  <2>5. TypeOfRows' BY <1>1, <2>1, <2>4, PayeeMade
  <2> QED BY <1>1, <2>1, <2>3, <2>4, <2>5, StartsAside
<1>6. CASE ApplyToSimilar
  <2>0. PICK t \in Txs : \E ids : \/ Starts("page", "enrich", Categorises(ids, txs[t].category))
                                 \/ Starts("page", "enrich", Pays(ids, txs[t].payee))
    BY <1>6 DEF ApplyToSimilar
  <2>1. PICK ids : \/ Starts("page", "enrich", Categorises(ids, txs[t].category))
                   \/ Starts("page", "enrich", Pays(ids, txs[t].payee))
    BY <2>0
  <2>2. txs[t].category \in Cats \cup {None} /\ txs[t].payee \in Payees \cup {None}
    BY <1>1 DEF TypeOfRows, Transactions
  <2>3. OtherShape(Categorises(ids, txs[t].category)) /\ OtherShape(Pays(ids, txs[t].payee))
    BY <2>2, OtherShapes
  <2>4. UNCHANGED bookVars /\ TypeOfRows' BY <1>2, <1>6 DEF ApplyToSimilar
  <2> QED BY <1>1, <2>1, <2>3, <2>4, StartsAside
<1>7. ASSUME NEW h \in Hands, WriteCategory(h) PROVE BookAside /\ TypeOfRows'
  <2> DEFINE new == [t \in Txs |-> IF t \in hand[h].ids
                       THEN [txs[t] EXCEPT !.category = hand[h].value, !.owner = "user"] ELSE txs[t]]
  <2>1. hand[h].op = "categorise" /\ Ends(h) /\ NoBook /\ UNCHANGED labels /\ txs' = new
    BY <1>7 DEF WriteCategory, Does
  <2>2. hand[h].value \in Cats \cup {None}
    BY <1>1, <2>1, GivenTyped
  <2>3. ASSUME NEW t \in Txs PROVE new[t] \in Transactions /\ new[t].tags = txs[t].tags
    <3>1. txs[t] \in Transactions /\ "user" \in Owners BY <1>1 DEF TypeOfRows, Owners
    <3> QED BY <2>2, <3>1, CategoryGiven
  <2> HIDE DEF new
  <2>4. new \in [Txs -> Transactions] BY <2>3 DEF new
  <2>5. TypeOfRows' BY <1>1, <2>1, <2>3, <2>4, RowsGiven DEF NoBook
  <2>6. ~Edits(h) BY <1>1, <2>1, GivenTyped DEF Editors, Writers
  <2> QED BY <1>1, <2>1, <2>5, <2>6, EndsAside DEF NoBook
<1>8. ASSUME NEW h \in Hands, WriteMerchant(h) PROVE BookAside /\ TypeOfRows'
  <2> DEFINE new == [t \in Txs |-> IF t \in hand[h].ids
                       THEN [txs[t] EXCEPT !.payee = hand[h].value, !.powner = "user"] ELSE txs[t]]
  <2>1. hand[h].op = "merchant" /\ Ends(h) /\ NoBook /\ UNCHANGED labels /\ txs' = new
    BY <1>8 DEF WriteMerchant, Does
  <2>2. hand[h].value \in Payees \cup {None}
    BY <1>1, <2>1, GivenTyped
  <2>3. ASSUME NEW t \in Txs PROVE new[t] \in Transactions /\ new[t].tags = txs[t].tags
    <3>1. txs[t] \in Transactions /\ "user" \in Owners BY <1>1 DEF TypeOfRows, Owners
    <3> QED BY <2>2, <3>1, PayeeGiven
  <2> HIDE DEF new
  <2>4. new \in [Txs -> Transactions] BY <2>3 DEF new
  <2>5. TypeOfRows' BY <1>1, <2>1, <2>3, <2>4, RowsGiven DEF NoBook
  <2>6. ~Edits(h) BY <1>1, <2>1, GivenTyped DEF Editors, Writers
  <2> QED BY <1>1, <2>1, <2>5, <2>6, EndsAside DEF NoBook
<1> QED BY <1>3, <1>4, <1>5, <1>6, <1>7, <1>8 DEF Enricher

\* Tags made, renamed, put on rows or taken off them: a row carries only tags
\* there are.
LEMMA LabelMade ==
  ASSUME TypeOfRows, Room, NEW name \in Names
  PROVE /\ Minted \in Labels /\ labels[Minted] = None
        /\ labels' = [labels EXCEPT ![Minted] = name] /\ UNCHANGED <<txs, payees>> => TypeOfRows'
<1> DEFINE free == {l \in Labels : labels[l] = None}
<1>1. free \in SUBSET Nat /\ free # {} BY BookIds DEF Room
<1>2. NextOf(free) \in free
  <2> HIDE DEF free
  <2> QED BY <1>1, NextIsThere
<1>3. Minted \in Labels /\ labels[Minted] = None BY <1>2 DEF Minted
<1>4. ASSUME labels' = [labels EXCEPT ![Minted] = name], UNCHANGED <<txs, payees>> PROVE TypeOfRows'
  <2> DEFINE m == Minted
  <2>1. m \in Labels /\ labels[m] = None /\ labels' = [labels EXCEPT ![m] = name] BY <1>3, <1>4
  <2> HIDE DEF m
  <2>2. Living \subseteq Living' BY <2>1 DEF TypeOfRows, Living
  <2> QED BY <1>4, <2>1, <2>2 DEF TypeOfRows
<1> QED BY <1>3, <1>4

LEMMA LabelRenamed ==
  ASSUME TypeOfRows, NEW l \in Living, NEW name \in Names, UNCHANGED <<txs, payees>>,
         labels' = [labels EXCEPT ![l] = name]
  PROVE TypeOfRows'
<1>1. name \notin {None, Gone} BY BookIds
<1>2. Living' = Living BY <1>1 DEF TypeOfRows, Living
<1> QED BY <1>2 DEF TypeOfRows, Living

LEMMA Retagged ==
  ASSUME NEW tx \in Transactions, NEW tags \in SUBSET Labels
  PROVE LET new == [tx EXCEPT !.tags = tags]
        IN  new \in Transactions /\ new.tags = tags
BY DEF Transactions

LEMMA TagsOff ==
  ASSUME TypeOfRows, NEW S, NEW l, txs' = Untagged(S, l), UNCHANGED payees,
         labels' = labels \/ (S = Txs /\ labels' = [labels EXCEPT ![l] = Gone])
  PROVE TypeOfRows'
<1>1. ASSUME NEW t \in Txs
      PROVE txs'[t] \in Transactions /\ txs'[t].tags = IF t \in S THEN txs[t].tags \ {l} ELSE txs[t].tags
  <2>1. txs[t] \in Transactions /\ txs[t].tags \ {l} \in SUBSET Labels BY DEF TypeOfRows, Transactions
  <2>2. txs'[t] = IF t \in S THEN [txs[t] EXCEPT !.tags = txs[t].tags \ {l}] ELSE txs[t] BY DEF Untagged
  <2> QED BY <2>1, <2>2, Retagged
<1>2. txs' \in [Txs -> Transactions]
  <2>1. txs' = [t \in Txs |-> txs'[t]] BY DEF Untagged
  <2> QED BY <1>1, <2>1
<1>3. labels' \in [Labels -> Names \cup {None, Gone}] BY DEF TypeOfRows
<1>4. Living \ {l} \subseteq Living' /\ (labels' = labels => Living' = Living) BY DEF TypeOfRows, Living
<1>5. ASSUME NEW t \in Txs PROVE txs'[t].tags \subseteq Living'
  <2>1. txs[t].tags \subseteq Living BY DEF TypeOfRows
  <2> QED BY <1>1, <1>4, <2>1
<1> QED BY <1>2, <1>3, <1>5 DEF TypeOfRows

LEMMA TagsOn ==
  ASSUME TypeOfRows, NEW S, NEW l \in Living, txs' = Tagged(S, l), UNCHANGED <<payees, labels>>
  PROVE TypeOfRows'
<1>1. ASSUME NEW t \in Txs
      PROVE /\ txs'[t] \in Transactions
            /\ txs'[t].tags = IF t \in S THEN txs[t].tags \cup {l} ELSE txs[t].tags
  <2>1. txs[t] \in Transactions /\ txs[t].tags \cup {l} \in SUBSET Labels
    BY DEF TypeOfRows, Transactions, Living
  <2>2. txs'[t] = IF t \in S THEN [txs[t] EXCEPT !.tags = txs[t].tags \cup {l}] ELSE txs[t] BY DEF Tagged
  <2> QED BY <2>1, <2>2, Retagged
<1>2. txs' \in [Txs -> Transactions]
  <2>1. txs' = [t \in Txs |-> txs'[t]] BY DEF Tagged
  <2> QED BY <1>1, <2>1
<1>3. \A t \in Txs : txs[t].tags \subseteq Living BY DEF TypeOfRows
<1>4. \A t \in Txs : txs'[t].tags \subseteq Living BY <1>1, <1>3
<1>5. Living' = Living BY DEF Living
<1> QED BY <1>2, <1>4, <1>5 DEF TypeOfRows

LEMMA AskedTyped ==
  ASSUME TypeInv, NEW h \in Hands, NEW e, OtherShape(e), Asks(h, e) PROVE BookAside /\ TypeOfRows'
BY StartsAside, RowsStay DEF TypeInv, Asks, Reads, tagVars

LEMMA TaggerTyped == ASSUME TypeInv, Tagger PROVE BookAside /\ TypeOfRows'
<1> USE BookIds
<1> DEFINE Typed == BookAside /\ TypeOfRows'
<1>0. OtherShape(Free) BY DEF OtherShape, Free
<1>1. TypeOfDocs /\ TypeOfHands /\ TypeOfRows BY DEF TypeInv
<1>2. ASSUME NEW l \in Living, NEW ids, NEW h \in Hands, NEW op \in {"join", "upsert"},
             Asks(h, [op |-> op, label |-> l, ids |-> ids])
      PROVE Typed
  BY <1>2, OtherShapes, AskedTyped
<1>3. ASSUME NEW l \in Living, NEW ids, NEW h \in Hands,
             Asks(h, Joins(l, ids)) \/ Asks(h, Upserts(l, ids))
      PROVE Typed
  BY <1>3, <1>2 DEF Joins, Upserts
<1>4. ASSUME NEW name \in Names, NEW ids, NEW h \in Hands, NEW then \in {"join", "upsert"},
             Asks(h, Mints(name, ids, then))
      PROVE Typed
  BY <1>4, OtherShapes, AskedTyped
<1>5. ASSUME NEW ids, NEW then \in {"join", "upsert"}, CreateLabelAndAdd(ids, then) PROVE Typed
  <2>1. PICK name \in Names :
          IF Taken(name)
          THEN Asks("page", [op |-> then, label |-> CHOOSE l \in Living : labels[l] = name, ids |-> ids])
          ELSE Asks("page", Mints(name, ids, then))
    BY <1>5 DEF CreateLabelAndAdd
  <2>2. CASE Taken(name)
    <3>1. (CHOOSE l \in Living : labels[l] = name) \in Living BY <2>2 DEF Taken
    <3> QED BY <1>2, <2>1, <2>2, <3>1
  <2>3. CASE ~Taken(name) BY <1>4, <2>1, <2>3
  <2> QED BY <2>2, <2>3
<1>6. ASSUME NEW h \in Hands, NEW ids, NEW from, RemoveLabel(h, ids, from) PROVE Typed
  <2>1. PICK l \in from : txs' = Untagged(ids, l) BY <1>6 DEF RemoveLabel
  <2>2. UNCHANGED bookVars /\ UNCHANGED <<payees, labels>> /\ Starts(h, "tag", Free)
    BY <1>6 DEF RemoveLabel, NoBook
  <2>3. TypeOfRows' BY <1>1, <2>1, <2>2, TagsOff
  <2> QED BY <1>1, <2>2, <2>3, StartsAside, <1>0
<1>7. CASE CreateLabel BY <1>4, <1>7 DEF CreateLabel
<1>8. CASE RenameLabel
  <2>1. PICK l \in Living, name \in Names : Asks("chat", [op |-> "rename", label |-> l, name |-> name])
    BY <1>8 DEF RenameLabel
  <2> QED BY <2>1, OtherShapes, AskedTyped
<1>9. CASE WriteRename
  <2>1. /\ hand["chat"].op = "rename" /\ Ends("chat") /\ UNCHANGED bookVars /\ UNCHANGED <<payees, txs>>
        /\ labels' = IF hand["chat"].label \in Living /\ ~Taken(hand["chat"].name)
                     THEN [labels EXCEPT ![hand["chat"].label] = hand["chat"].name] ELSE labels
    BY <1>9 DEF WriteRename, Does, NoBook
  <2>2. hand["chat"].name \in Names BY <1>1, <2>1, GivenTyped
  <2>3. TypeOfRows' BY <1>1, <2>1, <2>2, LabelRenamed, RowsStay
  <2>4. ~Edits("chat") BY <1>1, <2>1, GivenTyped DEF Editors, Writers
  <2> QED BY <1>1, <2>1, <2>3, <2>4, EndsAside
<1>10. CASE DeleteLabel
  <2>1. PICK l \in Living : labels' = [labels EXCEPT ![l] = Gone] /\ txs' = Untagged(Txs, l)
    BY <1>10 DEF DeleteLabel
  <2>2. UNCHANGED bookVars /\ UNCHANGED payees /\ Starts("chat", "tag", Free)
    BY <1>10 DEF DeleteLabel, NoBook
  <2>3. TypeOfRows' BY <1>1, <2>1, <2>2, TagsOff
  <2> QED BY <1>1, <2>2, <2>3, StartsAside, <1>0
<1>11. CASE ChatTags BY <1>3, <1>6, <1>11 DEF ChatTags
<1>12. CASE LabelsCell BY <1>3, <1>5, <1>6, <1>12 DEF LabelsCell
<1>13. CASE BulkBar
  <2>1. PICK ids \in SUBSET Txs \ {{}} : BulkTags(ids) \/ BulkEnriches(ids) BY <1>13 DEF BulkBar
  <2>2. CASE BulkTags(ids) BY <1>3, <1>5, <1>6, <2>2 DEF BulkTags
  <2>3. CASE BulkEnriches(ids)
    <3>1. PICK e : OtherShape(e) /\ Starts("page", "enrich", e) BY <2>3, OtherShapes DEF BulkEnriches
    <3>2. Reads BY <2>3 DEF BulkEnriches
    <3> QED BY <1>1, <3>1, <3>2, StartsAside, RowsStay DEF Reads, tagVars
  <2> QED BY <2>1, <2>2, <2>3
<1>14. ASSUME NEW h \in Hands, InsertLabel(h) PROVE Typed
  <2>1. hand[h].op = "mint" /\ UNCHANGED bookVars /\ UNCHANGED <<payees, txs>>
    BY <1>14 DEF InsertLabel, Does, NoBook
  <2>2. hand[h].name \in Names /\ hand[h].then \in {"join", "upsert"} BY <1>1, <2>1, GivenTyped
  <2>5. ~Edits(h) BY <1>1, <2>1, GivenTyped DEF Editors, Writers
  <2>3. CASE Taken(hand[h].name)
    <3>1. Ends(h) /\ UNCHANGED labels BY <1>14, <2>3 DEF InsertLabel
    <3> QED BY <1>1, <2>1, <2>5, <3>1, RowsStay, EndsAside
  <2>4. CASE ~Taken(hand[h].name)
    <3>1. /\ Room /\ labels' = [labels EXCEPT ![Minted] = hand[h].name]
          /\ Goes(h, [op |-> hand[h].then, label |-> Minted, ids |-> hand[h].ids])
      BY <1>14, <2>4 DEF InsertLabel
    <3>2. TypeOfRows' BY <1>1, <2>1, <2>2, <3>1, LabelMade
    <3>3. OtherShape([op |-> hand[h].then, label |-> Minted, ids |-> hand[h].ids])
      BY <2>2, OtherShapes
    <3> QED BY <1>1, <2>1, <2>5, <3>1, <3>2, <3>3, GoesAside
  <2> QED BY <2>3, <2>4
<1>15. ASSUME NEW h \in Hands, WriteTag(h) PROVE Typed
  <2>1. /\ Ends(h) /\ UNCHANGED bookVars /\ UNCHANGED <<payees, labels>>
        /\ hand[h].op \in {"join", "upsert"}
        /\ txs' = txs \/ (hand[h].label \in Living /\ txs' = Tagged(hand[h].ids, hand[h].label))
    BY <1>15 DEF WriteTag, NoBook, Does
  <2>2. TypeOfRows' BY <1>1, <2>1, TagsOn, RowsStay
  <2>3. ~Edits(h) BY <1>1, <2>1, GivenTyped DEF Editors, Writers
  <2> QED BY <1>1, <2>1, <2>2, <2>3, EndsAside
<1> QED BY <1>7, <1>8, <1>9, <1>10, <1>11, <1>12, <1>13, <1>14, <1>15 DEF Tagger

-----------------------------------------------------------------------------
(* What a table decides.                                                    *)

\* The rows that would take a transaction, the first of which does.
Deciding(rules, tx) == {i \in 1 .. Len(rules) : rules[i].whole /\ Captures(rules[i], tx)}

LEMMA DecisionFirst ==
  ASSUME NEW S, NEW rules \in Seq(S), NEW tx
  PROVE /\ Deciding(rules, tx) = {} => Decision(rules, tx) = Nothing
        /\ \A i \in Deciding(rules, tx) :
             (\A j \in Deciding(rules, tx) : i <= j) => Decision(rules, tx) = OutputsOf(rules[i])
        /\ Deciding(rules, tx) # {} =>
             \E i \in Deciding(rules, tx) : \A j \in Deciding(rules, tx) : i <= j
<1> DEFINE I == Deciding(rules, tx)
           i0 == SelectInSeq(rules, LAMBDA row : row.whole /\ Captures(row, tx))
<1>1. I \in SUBSET Nat /\ 0 \notin I /\ (\A i \in I : i \in DOMAIN rules) BY LenProperties DEF Deciding
<1>2. i0 = IF I # {} THEN Min(I) ELSE 0 BY DEF SelectInSeq, Deciding
<1>3. Decision(rules, tx) = IF i0 = 0 THEN Nothing ELSE OutputsOf(rules[i0]) BY DEF Decision
<1>4. I # {} => \E i \in I : \A j \in I : i <= j BY <1>1, NextIsThere
<1>5. ASSUME NEW i \in I, \A j \in I : i <= j PROVE Min(I) = i
  <2> DEFINE m == Min(I)
  <2>1. m \in I /\ \A j \in I : m <= j BY <1>5 DEF Min
  <2> HIDE DEF I, m
  <2>2. m \in Nat /\ i \in Nat /\ m <= i /\ i <= m BY <1>1, <1>5, <2>1
  <2>3. m = i BY <2>2
  <2> QED BY <2>3 DEF m
<1> HIDE DEF I, i0
<1> QED BY <1>1, <1>2, <1>3, <1>4, <1>5 DEF I

LEMMA DecisionTyped ==
  ASSUME NEW rules \in Seq(Rules), NEW tx PROVE Decision(rules, tx) \in Outcomes
<1>1. CASE Deciding(rules, tx) = {}
  <2>1. Decision(rules, tx) = Nothing BY <1>1, DecisionFirst
  <2> QED BY <2>1 DEF Nothing, Outputs, Outcomes
<1>2. CASE Deciding(rules, tx) # {}
  <2>1. PICK i \in Deciding(rules, tx) : Decision(rules, tx) = OutputsOf(rules[i])
    BY <1>2, DecisionFirst
  <2>2. rules[i] \in Rules BY RulesIn, LenProperties DEF Deciding
  <2> QED BY <2>1, <2>2 DEF OutputsOf, Outputs, Outcomes, Rules
<1> QED BY <1>1, <1>2

-----------------------------------------------------------------------------
(* The worker.                                                              *)

LEMMA NewestIsThere ==
  ASSUME NEW S \in SUBSET Txs, S # {}
  PROVE LET t == CHOOSE t \in S : \A u \in S : u <= t IN t \in S /\ \A u \in S : u <= t
<1> DEFINE G == Greater(S)
<1>1. IsFiniteSet(S) /\ S \in SUBSET Nat BY BookIds, FS_Subset
<1>2. StrictOrder(G, S) /\ \A n \in S : Cardinality(Above(n, S)) = Rank(G, S, n) BY <1>1, AboveRank
<1>3. Cardinality(S) \in Nat /\ Cardinality(S) # 0 BY <1>1, FS_CardinalityType, FS_EmptySet
<1>4. PICK t \in S : Rank(G, S, t) = 0
  <2>1. 0 \in 0 .. Cardinality(S) - 1 BY <1>3
  <2>2. IsFiniteSet(S) /\ StrictOrder(G, S) BY <1>1, <1>2
  <2> HIDE DEF G
  <2>3. \A k \in 0 .. Cardinality(S) - 1 : \E x \in S : Rank(G, S, x) = k BY <2>2, RankOnto
  <2> QED BY <2>1, <2>3
<1>5. \A u \in S : u <= t
  <2>1. Above(t, S) = {}
    <3>1. IsFiniteSet(Above(t, S))
      <4>1. Above(t, S) \in SUBSET S BY DEF Above
      <4> QED BY <1>1, <4>1, FS_Subset
    <3> QED BY <1>2, <1>4, <3>1, FS_EmptySet
  <2> QED BY <1>1, <2>1 DEF Above
<1> QED BY <1>5

LEMMA AppliedTyped ==
  ASSUME NEW tx \in Transactions, NEW out \in Outcomes, NEW c \in BOOLEAN, NEW p \in BOOLEAN,
         c => out.category # None, p => out.payee # None
  PROVE /\ Applied(tx, c, p, out) \in Transactions
        /\ Applied(tx, c, p, out).tags = tx.tags /\ Applied(tx, c, p, out).linked = tx.linked
        /\ Applied(tx, c, p, out).category = IF c THEN out.category ELSE tx.category
        /\ Applied(tx, c, p, out).payee = IF p THEN out.payee ELSE tx.payee
<1>1. "rule" \in Owners BY DEF Owners
<1> QED BY <1>1 DEF Applied, Transactions, Outcomes

\* Nothing of a row that is linked changes but that.
LEMMA LinkingTyped ==
  ASSUME NEW rows \in [Txs -> Transactions], NEW t \in Txs, NEW leg
  PROVE /\ Linking(rows, t, leg) \in [Txs -> Transactions]
        /\ \A u \in Txs :
             /\ Linking(rows, t, leg)[u].tags = rows[u].tags
             /\ Linking(rows, t, leg)[u].category = rows[u].category
             /\ Linking(rows, t, leg)[u].payee = rows[u].payee
             /\ rows[u].linked => Linking(rows, t, leg)[u].linked
             /\ leg = {} => Linking(rows, t, leg)[u] = rows[u]
        /\ leg # {} => Linking(rows, t, leg)[t].linked
<1> DEFINE new == Linking(rows, t, leg)
<1>1. ASSUME NEW u \in Txs
      PROVE new[u] = IF leg # {} /\ u \in leg \cup {t} THEN [rows[u] EXCEPT !.linked = TRUE] ELSE rows[u]
  BY DEF Linking
<1>2. new = [u \in Txs |-> new[u]] BY DEF Linking
<1> HIDE DEF new
<1>3. ASSUME NEW u \in Txs
      PROVE /\ new[u] \in Transactions /\ new[u].tags = rows[u].tags
            /\ new[u].category = rows[u].category /\ new[u].payee = rows[u].payee
            /\ rows[u].linked => new[u].linked
            /\ leg = {} => new[u] = rows[u]
            /\ leg # {} /\ u = t => new[u].linked
  <2>1. rows[u] \in Transactions OBVIOUS
  <2>2. CASE leg # {} /\ u \in leg \cup {t}
    <3>1. new[u] = [rows[u] EXCEPT !.linked = TRUE] BY <1>1, <2>2
    <3>2. /\ new[u] \in Transactions /\ new[u].tags = rows[u].tags
          /\ new[u].category = rows[u].category /\ new[u].payee = rows[u].payee
      BY <2>1, <3>1 DEF Transactions
    <3>3. new[u].linked = TRUE BY <2>1, <3>1 DEF Transactions
    <3> QED BY <2>2, <3>2, <3>3
  <2>3. CASE ~(leg # {} /\ u \in leg \cup {t}) BY <1>1, <2>1, <2>3
  <2> QED BY <2>2, <2>3
<1>4. new \in [Txs -> Transactions] BY <1>2, <1>3
<1> QED BY <1>3, <1>4 DEF new

\* What a row's turn comes to, and what it leaves alone.
TurnRows(t, out, c, p, leg) ==
  /\ txs' \in [Txs -> Transactions]
  /\ \A u \in Txs :
       /\ txs'[u].tags = txs[u].tags
       /\ u # t => txs'[u].category = txs[u].category /\ txs'[u].payee = txs[u].payee
       /\ txs[u].linked => txs'[u].linked
       /\ leg = {} => txs'[u].linked = txs[u].linked
LEMMA TurnTaken ==
  ASSUME TypeOfRows, PassShape(pass), Apply
  PROVE \E t \in pass.todo, out \in Outcomes, c \in BOOLEAN, p \in BOOLEAN, leg \in {Leg(Turn)} :
          /\ t = Turn /\ out = Decision(pass.rules, pass.snap[t])
          /\ c = SetsCategory(out, pass.snap[t]) /\ p = SetsPayee(out, pass.snap[t])
          /\ TurnRows(t, out, c, p, leg)
          /\ \/ /\ Applies(t, out, c, p, leg)
                /\ txs'[t].category = IF c THEN out.category ELSE txs[t].category
                /\ txs'[t].payee = IF p THEN out.payee ELSE txs[t].payee
                /\ leg # {} => txs'[t].linked
             \/ StepsOver(t, out, c, p, leg)
<1> DEFINE t == Turn
           out == Decision(pass.rules, pass.snap[t])
           c == SetsCategory(out, pass.snap[t])
           p == SetsPayee(out, pass.snap[t])
           leg == Leg(t)
<1>1. /\ pass.at = "apply" /\ pass.todo # {}
      /\ Applies(t, out, c, p, leg) \/ StepsOver(t, out, c, p, leg)
  BY DEF Apply
<1>2. /\ pass.rules \in Seq(Rules) /\ pass.todo \subseteq Txs /\ pass.snap \in [Txs -> Transactions]
  BY <1>1 DEF PassShape
<1>3. t \in pass.todo BY <1>1, <1>2, NewestIsThere DEF Turn
<1>4. out \in Outcomes BY <1>2, DecisionTyped
<1>5. /\ c \in BOOLEAN /\ p \in BOOLEAN
      /\ (c => out.category # None) /\ (p => out.payee # None)
  BY DEF SetsCategory, SetsPayee, Sets
<1> HIDE DEF t, out, c, p, leg
<1> DEFINE new == [txs EXCEPT ![t] = Applied(txs[t], c, p, out)]
<1>6. /\ new \in [Txs -> Transactions] /\ txs \in [Txs -> Transactions] /\ t \in Txs
      /\ \A u \in Txs : new[u].tags = txs[u].tags /\ new[u].linked = txs[u].linked
      /\ \A u \in Txs : u # t => new[u] = txs[u]
      /\ new[t].category = IF c THEN out.category ELSE txs[t].category
      /\ new[t].payee = IF p THEN out.payee ELSE txs[t].payee
  <2>1. txs \in [Txs -> Transactions] /\ t \in Txs BY <1>2, <1>3 DEF TypeOfRows
  <2>2. txs[t] \in Transactions BY <2>1
  <2> DEFINE tx == Applied(txs[t], c, p, out)
  <2>3. /\ tx \in Transactions /\ tx.tags = txs[t].tags /\ tx.linked = txs[t].linked
        /\ tx.category = IF c THEN out.category ELSE txs[t].category
        /\ tx.payee = IF p THEN out.payee ELSE txs[t].payee
    BY <1>4, <1>5, <2>2, AppliedTyped
  <2> HIDE DEF tx
  <2>4. new = [txs EXCEPT ![t] = tx] BY DEF tx
  <2> HIDE DEF new
  <2> QED BY <2>1, <2>3, <2>4
<1> HIDE DEF new
<1>7. CASE Applies(t, out, c, p, leg)
  <2>1. txs' = Linking(new, t, leg) BY <1>7 DEF Applies, new
  <2>2. /\ txs' \in [Txs -> Transactions]
        /\ \A u \in Txs : /\ txs'[u].tags = new[u].tags /\ txs'[u].category = new[u].category
                          /\ txs'[u].payee = new[u].payee
                          /\ new[u].linked => txs'[u].linked
                          /\ leg = {} => txs'[u] = new[u]
        /\ leg # {} => txs'[t].linked
    BY <1>6, <2>1, LinkingTyped
  <2>3. TurnRows(t, out, c, p, leg) BY <1>6, <2>2 DEF TurnRows
  <2>4. /\ txs'[t].category = IF c THEN out.category ELSE txs[t].category
        /\ txs'[t].payee = IF p THEN out.payee ELSE txs[t].payee
    BY <1>6, <2>2
  <2> QED BY <1>3, <1>4, <1>5, <1>7, <2>2, <2>3, <2>4 DEF t, out, c, p, leg
<1>8. CASE StepsOver(t, out, c, p, leg)
  <2>1. PICK rows \in {txs, new}, some \in {leg, {}} : txs' = Linking(rows, t, some)
    BY <1>8 DEF StepsOver, new
  <2>2. /\ rows \in [Txs -> Transactions]
        /\ \A u \in Txs : rows[u].tags = txs[u].tags /\ rows[u].linked = txs[u].linked
        /\ \A u \in Txs : u # t => rows[u] = txs[u]
    BY <1>6, <2>1
  <2>3. /\ txs' \in [Txs -> Transactions]
        /\ \A u \in Txs : /\ txs'[u].tags = rows[u].tags /\ txs'[u].category = rows[u].category
                          /\ txs'[u].payee = rows[u].payee
                          /\ rows[u].linked => txs'[u].linked
                          /\ some = {} => txs'[u] = rows[u]
    BY <1>6, <2>1, <2>2, LinkingTyped
  <2>4. TurnRows(t, out, c, p, leg) BY <2>1, <2>2, <2>3 DEF TurnRows
  <2> QED BY <1>3, <1>4, <1>5, <1>8, <2>4 DEF t, out, c, p, leg
<1> QED BY <1>1, <1>7, <1>8

\* What a pass that has read the rows holds.
Fields ==
  /\ pass.rules \in Seq(Rules) /\ pass.todo \subseteq Txs /\ pass.wanted \subseteq Names \X Txs
  /\ pass.snap \in [Txs -> Transactions] /\ pass.linked \subseteq Txs /\ pass.failed \subseteq Txs
  /\ {"at", "rules", "auto", "alone", "snap", "todo", "wanted", "linked", "failed", "missed"}
       \subseteq DOMAIN pass

LEMMA WorkerTyped ==
  ASSUME TypeInv, Worker, UNCHANGED <<bookVars, hand>> PROVE TypeInv'
<1> USE BookIds
<1>1. TypeOfDocs /\ TypeOfHands /\ TypeOfRows /\ PassShape(pass) BY DEF TypeInv
<1>2. TypeOfDocs' /\ TypeOfHands' BY <1>1, SameBook DEF TypeOfHands
<1>3. CASE StartPass
  <2>1. TypeOfRows' BY <1>1, <1>3, RowsStay DEF StartPass, tagVars
  <2>2. CASE pass' = Idle BY <1>2, <2>1, <2>2 DEF TypeInv, PassShape, Idle
  <2>3. CASE pass' # Idle
    <3>1. PICK d \in Active : pass' = [at |-> "read", rules |-> Healed(docs[d].rules), auto |-> docs[d].auto, alone |-> TRUE]
      BY <1>3, <2>3 DEF StartPass
    <3>2. docs[d].rules \in Seq(Rules) BY <1>1 DEF TypeOfDocs, Documents, Active, Kept
    <3>3. Healed(docs[d].rules) \in Seq(Rules) BY <3>2, NormalizedTyped DEF Healed
    <3>4. PassShape(pass') BY <3>1, <3>3 DEF PassShape
    <3> QED BY <1>2, <2>1, <3>4 DEF TypeInv
  <2> QED BY <2>2, <2>3
<1>4. CASE ReadTransactions
  <2>1. TypeOfRows' BY <1>1, <1>4, RowsStay DEF ReadTransactions, tagVars
  <2>2. PassShape(pass')
    <3>1. /\ pass.at = "read"
          /\ pass' = With([at |-> "apply", snap |-> txs, todo |-> Txs, wanted |-> {},
                           linked |-> {}, failed |-> {}, missed |-> {}], pass)
      BY <1>4 DEF ReadTransactions
    <3>2. {"at", "rules", "auto", "alone"} \subseteq DOMAIN pass /\ pass.rules \in Seq(Rules)
      BY <1>1, <3>1 DEF PassShape
    <3>3. /\ pass'.at = "apply" /\ pass'.snap = txs /\ pass'.todo = Txs /\ pass'.wanted = {}
          /\ pass'.rules = pass.rules /\ pass'.linked = {} /\ pass'.failed = {}
          /\ {"at", "rules", "auto", "alone", "snap", "todo", "wanted", "linked", "failed", "missed"}
               \subseteq DOMAIN pass'
      BY <3>1, <3>2 DEF With
    <3> QED BY <1>1, <3>2, <3>3 DEF PassShape, TypeOfRows
  <2> QED BY <1>2, <2>1, <2>2 DEF TypeInv
<1>5. CASE Apply
  <2>1. PICK t \in pass.todo, out \in Outcomes, c \in BOOLEAN, p \in BOOLEAN, leg \in {Leg(Turn)} :
          /\ TurnRows(t, out, c, p, leg)
          /\ Applies(t, out, c, p, leg) \/ StepsOver(t, out, c, p, leg)
    BY <1>1, <1>5, TurnTaken
  <2>2. /\ pass.at = "apply" /\ UNCHANGED <<payees, labels>> BY <1>5 DEF Apply
  <2>3. Fields BY <1>1, <2>2 DEF Fields, PassShape
  <2>4. TypeOfRows'
    <3>1. txs' \in [Txs -> Transactions] /\ \A u \in Txs : txs'[u].tags = txs[u].tags
      BY <2>1 DEF TurnRows
    <3> QED BY <1>1, <2>2, <3>1, RowsGiven
  <2>5. PassShape(pass')
    <3>1. /\ pass'.at = "apply" /\ pass'.rules = pass.rules /\ pass'.snap = pass.snap
          /\ DOMAIN pass' = DOMAIN pass /\ pass'.todo = pass.todo \ {t}
          /\ pass'.wanted \subseteq pass.wanted \cup ({out.label} \ {None}) \X {t}
          /\ pass'.linked \subseteq pass.linked \cup {t} /\ pass'.failed \subseteq pass.failed \cup {t}
      <4>1. CASE Applies(t, out, c, p, leg) BY <2>2, <2>3, <4>1 DEF Applies, Fields
      <4>2. CASE StepsOver(t, out, c, p, leg) BY <2>2, <2>3, <4>2 DEF StepsOver, Fields
      <4> QED BY <2>1, <4>1, <4>2
    <3>2. out.label \in Names \cup {None} /\ t \in Txs BY <2>1, <2>3 DEF Outcomes, Fields
    <3> QED BY <2>3, <3>1, <3>2 DEF PassShape, Fields
  <2> QED BY <1>2, <2>4, <2>5 DEF TypeInv
<1>6. CASE EnsureLabel
  <2>1. PICK name \in {w[1] : w \in pass.wanted} :
          /\ Taken(name) \/ Room
          /\ labels' = IF Taken(name) THEN labels ELSE [labels EXCEPT ![Minted] = name]
          /\ pass' = With([at |-> "label", name |-> name, label |-> CHOOSE l \in Labels : labels'[l] = name], pass)
    BY <1>6 DEF EnsureLabel
  <2>2. pass.at = "apply" /\ UNCHANGED <<txs, payees>> BY <1>6 DEF EnsureLabel
  <2>3. Fields BY <1>1, <2>2 DEF Fields, PassShape
  <2>4. name \in Names BY <2>1, <2>3 DEF Fields
  <2>5. TypeOfRows' BY <1>1, <2>1, <2>2, <2>4, LabelMade, RowsStay
  <2>6. PassShape(pass')
    <3>1. /\ pass'.at = "label" /\ pass'.name = name /\ pass'.rules = pass.rules
          /\ pass'.snap = pass.snap /\ pass'.todo = pass.todo /\ pass'.wanted = pass.wanted
          /\ pass'.linked = pass.linked /\ pass'.failed = pass.failed
          /\ DOMAIN pass \cup {"name", "label"} \subseteq DOMAIN pass'
      BY <2>1, <2>3 DEF With, Fields
    <3> QED BY <2>3, <2>4, <3>1 DEF PassShape, Fields
  <2> QED BY <1>2, <2>5, <2>6 DEF TypeInv
<1>7. CASE ReadJoins
  <2>1. TypeOfRows' BY <1>1, <1>7, RowsStay DEF ReadJoins, tagVars
  <2>2. pass.at = "label" /\ \E ids : pass' = With([at |-> "tag", ids |-> ids], pass)
    BY <1>7 DEF ReadJoins
  <2>3. Fields /\ pass.name \in Names /\ {"name", "label"} \subseteq DOMAIN pass
    BY <1>1, <2>2 DEF PassShape, Fields
  <2>4. /\ pass'.at = "tag" /\ pass'.name = pass.name /\ pass'.rules = pass.rules
        /\ pass'.label = pass.label
        /\ pass'.snap = pass.snap /\ pass'.todo = pass.todo /\ pass'.wanted = pass.wanted
        /\ pass'.linked = pass.linked /\ pass'.failed = pass.failed
        /\ DOMAIN pass \cup {"ids"} \subseteq DOMAIN pass'
    BY <2>2, <2>3 DEF With, Fields
  <2>5. PassShape(pass') BY <2>3, <2>4 DEF PassShape, Fields
  <2> QED BY <1>2, <2>1, <2>5 DEF TypeInv
<1>8. CASE TagTransactions
  <2>1. /\ pass.at = "tag" /\ UNCHANGED <<labels, payees>>
        /\ pass.label \in Living /\ txs' = Tagged(pass.ids, pass.label)
        /\ pass' = [pass EXCEPT !.at = "apply", !.wanted = {w \in @ : w[1] # pass.name}]
    BY <1>8 DEF TagTransactions, Joinable
  <2>2. TypeOfRows' BY <1>1, <2>1, TagsOn
  <2>3. PassShape(pass') BY <1>1, <2>1 DEF PassShape
  <2> QED BY <1>2, <2>2, <2>3 DEF TypeInv
<1>11. CASE TagFails
  <2>1. PICK name : pass' = [pass EXCEPT !.at = "apply", !.wanted = {w \in pass.wanted : w[1] # name},
                               !.missed = pass.missed \cup {name}]
    BY <1>11 DEF TagFails
  <2>2. pass.at \in {"apply", "label", "tag"} BY <1>11 DEF TagFails
  <2>3. TypeOfRows' BY <1>1, <1>11, RowsStay DEF TagFails, tagVars
  <2>4. PassShape(pass') BY <1>1, <2>1, <2>2 DEF PassShape
  <2> QED BY <1>2, <2>3, <2>4 DEF TypeInv
<1>9. CASE FinishPass
  <2>1. TypeOfRows' BY <1>1, <1>9, RowsStay DEF FinishPass, tagVars
  <2>2. PassShape(pass') BY <1>1, <1>9 DEF FinishPass, PassShape
  <2> QED BY <1>2, <2>1, <2>2 DEF TypeInv
<1>10. CASE NextPass
  <2>1. TypeOfRows' BY <1>1, <1>10, RowsStay DEF NextPass, tagVars
  <2>2. PassShape(pass') BY <1>10 DEF NextPass, PassShape, Idle
  <2> QED BY <1>2, <2>1, <2>2 DEF TypeInv
<1> QED BY <1>3, <1>4, <1>5, <1>6, <1>7, <1>8, <1>9, <1>10, <1>11 DEF Worker

\* Somebody acting leaves a pass as it was, but alone no more.
LEMMA PassDisturbed ==
  ASSUME PassShape(pass), pass' = IF pass = Idle THEN pass ELSE [pass EXCEPT !.alone = FALSE]
  PROVE PassShape(pass')
<1>1. CASE pass = Idle BY <1>1
<1>2. CASE pass # Idle
  <2>1. pass' = [pass EXCEPT !.alone = FALSE] /\ pass.at # "idle" BY <1>2 DEF PassShape
  <2>2. {"at", "rules", "auto", "alone"} \subseteq DOMAIN pass BY <2>1 DEF PassShape
  <2>3. /\ DOMAIN pass' = DOMAIN pass
        /\ \A f \in DOMAIN pass : f # "alone" => pass'[f] = pass[f]
    BY <2>1
  <2> QED BY <2>1, <2>2, <2>3 DEF PassShape
<1> QED BY <1>1, <1>2

LEMMA TypesKept == ASSUME TypeInv, [Next]_vars PROVE TypeInv'
<1>1. TypeOfDocs /\ TypeOfHands /\ TypeOfRows /\ PassShape(pass) BY DEF TypeInv
<1>2. CASE (Editor \/ Enricher \/ Tagger)
             /\ pass' = IF pass = Idle THEN pass ELSE [pass EXCEPT !.alone = FALSE]
  <2>1. PassShape(pass') BY <1>1, <1>2, PassDisturbed
  <2>2. CASE Editor
    <3>1. CASE \E h \in Hands : EditBook(h)
      <4>1. TypeOfRows' BY <1>1, <3>1, RowsStay DEF EditBook, tagVars
      <4> QED BY <2>1, <3>1, <4>1, BookTyped DEF TypeInv
    <3>2. CASE CreateRule \/ UpdateRule \/ RemoveRule \/ ToggleTransfersAutoLink \/ ListRules
                 \/ DeleteRule \/ \E h \in Hands : Learn(h)
      <4>1. Reads /\ \E h \in Hands : OpenShape(hand'[h]) /\ Goes(h, hand'[h]) BY <3>2, EditorShape
      <4>2. TypeOfHands' BY <1>1, <4>1, HandGoes DEF Shape, OpenShape
      <4> QED BY <1>1, <2>1, <4>1, <4>2, SameBook, RowsStay DEF Reads, TypeInv, tagVars
    <3> QED BY <2>2, <3>1, <3>2 DEF Editor
  <2>3. CASE Enricher BY <1>1, <2>1, <2>3, EnricherTyped, AsideTyped DEF TypeInv
  <2>4. CASE Tagger BY <1>1, <2>1, <2>4, TaggerTyped, AsideTyped DEF TypeInv
  <2> QED BY <1>2, <2>2, <2>3, <2>4
<1>3. CASE Worker /\ UNCHANGED <<bookVars, hand>> BY <1>3, WorkerTyped
<1>4. CASE UNCHANGED vars
  BY <1>1, <1>4, SameBook, RowsStay DEF vars, bookVars, TypeInv, TypeOfHands
<1> QED BY <1>2, <1>3, <1>4 DEF Next

LEMMA TypesStay == ASSUME TypeInv, [SearchNext]_<<vars, listing>> PROVE TypeInv'
<1>1. CASE Next \/ UNCHANGED vars BY <1>1, TypesKept
<1>2. CASE SearchTransactions
  BY <1>2, SameBook, RowsStay DEF SearchTransactions, TypeInv, TypeOfHands, tagVars
<1>3. CASE ReadPage BY <1>3, TypesKept DEF ReadPage
<1> QED BY <1>1, <1>2, <1>3 DEF SearchNext, vars

\* What the database, the hands and the pass hold is always of the shape their
\* steps expect: a row's tags are tags there are, every table is a table of rows.
THEOREM WellTyped == SearchSpec => []TypeInv
<1>1. SearchInit => TypeInv BY TypesHold DEF SearchInit
<1>2. TypeInv /\ [SearchNext]_<<vars, listing>> => TypeInv' BY TypesStay
<1> QED BY <1>1, <1>2, PTL DEF SearchSpec

\* Every row like another is among those the page scores: what the prefilter of the
\* database query leaves out would not have scored enough.
THEOREM AllSimilar == SearchSpec => []NothingMissed
<1>1. TypeInv => NothingMissed
  <2> SUFFICES ASSUME TypeInv PROVE NothingMissed OBVIOUS
  <2>1. ASSUME NEW t \in Txs PROVE txs[t].words \subseteq Words
    <3>1. txs[t] \in Transactions BY DEF TypeInv, TypeOfRows
    <3> QED BY <3>1 DEF Transactions
  <2> QED BY <2>1, SimilarFound
<1> QED BY <1>1, WellTyped, PTL

-----------------------------------------------------------------------------
(* Who holds the book.                                                      *)

\* Nobody writes the book, and whoever holds it goes on doing so.
Quiet ==
  /\ UNCHANGED bookVars
  /\ \A g \in Hands : \/ hand'[g] = hand[g]
                      \/ ~Edits(g) /\ (OpenShape(hand'[g]) \/ OtherShape(hand'[g]))

LEMMA GoesQuiet ==
  ASSUME TypeOfHands, UNCHANGED bookVars, NEW h \in Hands, ~Edits(h),
         OpenShape(hand'[h]) \/ OtherShape(hand'[h]), Goes(h, hand'[h])
  PROVE Quiet
BY DEF TypeOfHands, Goes, Quiet

LEMMA BookStep ==
  ASSUME TypeInv, [SearchNext]_<<vars, listing>> PROVE Quiet \/ \E h \in Hands : EditBook(h)
<1>1. TypeOfHands BY DEF TypeInv
<1>2. CASE UNCHANGED bookVars /\ UNCHANGED hand BY <1>2 DEF Quiet
<1>3. CASE BookAside BY <1>1, <1>3, GoesQuiet DEF BookAside
<1>4. CASE Editor
  <2>1. CASE CreateRule \/ UpdateRule \/ RemoveRule \/ ToggleTransfersAutoLink \/ ListRules
               \/ DeleteRule \/ \E h \in Hands : Learn(h)
    <3>1. /\ UNCHANGED bookVars
          /\ \E h \in Hands : hand[h] = Free /\ OpenShape(hand'[h]) /\ Goes(h, hand'[h])
      BY <2>1, EditorShape DEF Reads
    <3>2. \A h \in Hands : hand[h] = Free => ~Edits(h) BY DEF Free, Edits
    <3> QED BY <1>1, <3>1, <3>2, GoesQuiet
  <2> QED BY <1>4, <2>1 DEF Editor
<1>5. CASE Enricher BY <1>3, <1>5, EnricherTyped
<1>6. CASE Tagger BY <1>3, <1>6, TaggerTyped
<1>7. CASE SearchTransactions BY <1>2, <1>7 DEF SearchTransactions
<1>8. CASE ReadPage \/ UNCHANGED <<vars, listing>> BY <1>2, <1>8 DEF ReadPage, vars, bookVars
<1> QED BY <1>2, <1>4, <1>5, <1>6, <1>7, <1>8 DEF SearchNext, Next

LEMMA OthersGo ==
  ASSUME TypeInv, NEW h \in Hands, NEW e, Goes(h, e), NEW g \in Hands, g # h PROVE hand'[g] = hand[g]
BY DEF Goes, TypeInv, TypeOfHands

LEMMA OthersDisturbed ==
  ASSUME TypeInv, NEW h \in Hands, NEW e, hand' = Disturbed(h, e)
  PROVE /\ hand'[h] = e
        /\ \A g \in Hands : g # h /\ Edits(g) =>
             /\ "step" \in DOMAIN hand'[g] /\ hand'[g].step = hand[g].step
             /\ hand'[g].doc = hand[g].doc /\ hand'[g].alone = FALSE
        /\ \A g \in Hands : g # h /\ ~Edits(g) => hand'[g] = hand[g]
<1>1. hand'[h] = e BY DEF Disturbed
<1>2. ASSUME NEW g \in Hands, g # h, ~Edits(g) PROVE hand'[g] = hand[g] BY <1>2 DEF Disturbed
<1>3. ASSUME NEW g \in Hands, g # h, Edits(g)
      PROVE /\ "step" \in DOMAIN hand'[g] /\ hand'[g].step = hand[g].step
            /\ hand'[g].doc = hand[g].doc /\ hand'[g].alone = FALSE
  <2>1. EditShape(hand[g]) BY <1>3 DEF TypeInv, TypeOfHands, Edits, OtherShape
  <2>2. hand'[g] = [hand[g] EXCEPT !.alone = FALSE] BY <1>3 DEF Disturbed
  <2> QED BY <2>1, <2>2 DEF EditShape, EditFields
<1> QED BY <1>1, <1>2, <1>3

\* A document that is not being demoted, or made, is active for as long as a hand
\* that found it is alone.
Claimed ==
  \A h \in Hands :
    (At(h, "demote") \/ At(h, "write")) /\ hand[h].alone => hand[h].doc \in Active
BookInv == OneActive /\ Claimed

LEMMA BookQuiet == ASSUME BookInv, Quiet PROVE BookInv'
<1>1. Active' = Active BY DEF Quiet, bookVars, Active, Kept
<1>2. ASSUME NEW h \in Hands, Edits(h) PROVE hand'[h] = hand[h] BY <1>2 DEF Quiet
<1>3. ASSUME NEW h \in Hands, At(h, "demote")' \/ At(h, "write")' PROVE hand'[h] = hand[h]
  BY <1>3 DEF Quiet, At, Edits, OpenShape, OtherShape
<1>4. OneActive'
  <2> SUFFICES ASSUME NEW d \in Active, NEW e \in Active, d # e
               PROVE \E h \in Hands : At(h, "demote")' /\ hand'[h].doc \in {d, e}
    BY <1>1 DEF OneActive
  <2>1. PICK h \in Hands : At(h, "demote") /\ hand[h].doc \in {d, e} BY DEF BookInv, OneActive
  <2> QED BY <1>2, <2>1 DEF At, Edits
<1>5. Claimed' BY <1>1, <1>3 DEF BookInv, Claimed, At, Edits
<1> QED BY <1>4, <1>5 DEF BookInv

LEMMA BookEdited == ASSUME TypeInv, BookInv, NEW h \in Hands, EditBook(h) PROVE BookInv'
<1> DEFINE e == hand[h]
<1>1. TypeOfDocs /\ TypeOfHands BY DEF TypeInv
<1>2. docs \in [Docs -> Documents] /\ Active \subseteq Kept /\ Kept \subseteq Docs
  BY <1>1 DEF TypeOfDocs, Active, Kept
<1>3. ASSUME UNCHANGED bookVars, NEW f, Goes(h, f), ~At(h, "demote"),
             ("step" \in DOMAIN f /\ f.step \in {"demote", "write"}) => f.doc \in Active
      PROVE BookInv'
  <2>1. Active' = Active BY <1>3 DEF bookVars, Active, Kept
  <2>2. hand'[h] = f /\ \A g \in Hands : g # h => hand'[g] = hand[g]
    BY <1>1, <1>3, OthersGo DEF Goes, TypeOfHands
  <2>3. OneActive'
    <3> SUFFICES ASSUME NEW c \in Active, NEW d \in Active, c # d
                 PROVE \E g \in Hands : At(g, "demote")' /\ hand'[g].doc \in {c, d}
      BY <2>1 DEF OneActive
    <3>1. PICK g \in Hands : At(g, "demote") /\ hand[g].doc \in {c, d} BY DEF BookInv, OneActive
    <3> QED BY <1>3, <2>2, <3>1 DEF At, Edits
  <2>4. Claimed'
    <3> SUFFICES ASSUME NEW g \in Hands, At(g, "demote")' \/ At(g, "write")', hand'[g].alone
                 PROVE hand'[g].doc \in Active
      BY <2>1 DEF Claimed
    <3>1. CASE g = h BY <1>3, <2>2, <3>1 DEF At, Edits
    <3>2. CASE g # h BY <2>2, <3>2 DEF BookInv, Claimed, At, Edits
    <3> QED BY <3>1, <3>2
  <2> QED BY <2>3, <2>4 DEF BookInv
<1>4. CASE Open(h)
  <2>1. EditShape(e) /\ e.step = "open" BY <1>1, <1>4 DEF Open, At, TypeOfHands, Edits, OtherShape
  <2>2. UNCHANGED bookVars /\ ~At(h, "demote") BY <1>4, <2>1 DEF Open, At
  <2>3. CASE Active # {}
    <3>1. PICK d \in Active : Goes(h, Found(h, d)) BY <1>4, <2>3 DEF Open
    <3>2. CASE e.op \in {"list", "look"}
      <4>1. Found(h, d) = Free \/ Found(h, d) = [e EXCEPT !.op = "remove"] BY <3>2 DEF Found
      <4> HIDE DEF e
      <4>2. ~("step" \in DOMAIN Found(h, d) /\ Found(h, d).step \in {"demote", "write"})
        BY <2>1, <4>1 DEF Free, EditShape, EditFields
      <4> QED BY <1>3, <2>2, <3>1, <4>2
    <3>3. CASE e.op \in Writers
      <4>1. Found(h, d) = [e EXCEPT !.step = "write", !.doc = d, !.copy = docs[d]]
        BY <3>3 DEF Found, Writers
      <4> HIDE DEF e
      <4>2. Found(h, d).doc = d BY <2>1, <4>1 DEF EditShape, EditFields
      <4> QED BY <1>3, <2>2, <3>1, <4>2
    <3> QED BY <2>1, <3>2, <3>3 DEF EditShape, Editors
  <2>4. CASE Active = {}
    <3>1. Goes(h, [e EXCEPT !.step = "name"]) BY <1>4, <2>4 DEF Open
    <3>2. [e EXCEPT !.step = "name"].step = "name"
      <4> HIDE DEF e
      <4> QED BY <2>1 DEF EditShape, EditFields
    <3> QED BY <1>3, <2>2, <3>1, <3>2
  <2> QED BY <2>3, <2>4
<1>5. CASE Name(h)
  <2>1. EditShape(e) /\ e.step = "name" BY <1>1, <1>5 DEF Name, At, TypeOfHands, Edits, OtherShape
  <2>2. UNCHANGED bookVars /\ ~At(h, "demote") BY <1>5, <2>1 DEF Name, At
  <2> DEFINE f == [e EXCEPT !.step = "create", !.slug = NextOf(Unused)]
  <2>3. Goes(h, f) BY <1>5 DEF Name
  <2>4. f.step = "create"
    <3> HIDE DEF e
    <3> QED BY <2>1 DEF EditShape, EditFields
  <2> HIDE DEF f
  <2> QED BY <1>3, <2>2, <2>3, <2>4
<1>6. CASE Create(h)
  <2>1. EditShape(e) /\ e.step = "create" BY <1>1, <1>6 DEF Create, At, TypeOfHands, Edits, OtherShape
  <2>2. CASE \E d \in Kept : docs[d].slug = e.slug
    <3>1. Goes(h, Free) /\ UNCHANGED bookVars BY <1>6, <2>2 DEF Create
    <3>2. ~At(h, "demote") /\ "step" \notin DOMAIN Free BY <2>1 DEF At, Free
    <3> QED BY <1>3, <3>1, <3>2
  <2>3. CASE ~\E d \in Kept : docs[d].slug = e.slug
    <3> DEFINE d == NextOf(Docs \ Kept)
               f == [e EXCEPT !.step = "demote", !.doc = d]
    <3>1. /\ Docs \ Kept # {} /\ docs' = [docs EXCEPT ![d] = DefaultDocument(e.slug)]
          /\ hand' = Disturbed(h, f)
      BY <1>6, <2>3 DEF Create
    <3>2. d \in Docs \ Kept
      <4>1. Docs \ Kept \in SUBSET Nat BY BookIds
      <4> QED BY <3>1, <4>1, NextIsThere
    <3>3. f.step = "demote" /\ f.doc = d /\ "step" \in DOMAIN f
      <4> HIDE DEF e, d
      <4> QED BY <2>1 DEF EditShape, EditFields
    <3>4. e.slug \in Docs /\ e.slug # None BY <2>1, BookIds DEF EditShape
    <3> HIDE DEF d, f
    <3>5. Active' = Active \cup {d}
      BY <1>2, <3>1, <3>2, <3>4 DEF Active, Kept, DefaultDocument
    <3>6. /\ hand'[h] = f
          /\ \A g \in Hands : g # h /\ Edits(g) =>
               /\ "step" \in DOMAIN hand'[g] /\ hand'[g].step = hand[g].step
               /\ hand'[g].doc = hand[g].doc /\ hand'[g].alone = FALSE
          /\ \A g \in Hands : g # h /\ ~Edits(g) => hand'[g] = hand[g]
      BY <3>1, OthersDisturbed
    <3>7. OneActive'
      <4> SUFFICES ASSUME NEW b \in Active', NEW c \in Active', b # c
                   PROVE \E g \in Hands : At(g, "demote")' /\ hand'[g].doc \in {b, c}
        BY DEF OneActive
      <4>1. CASE d \in {b, c} BY <3>3, <3>6, <4>1 DEF At, Edits
      <4>2. CASE d \notin {b, c}
        <5>1. PICK g \in Hands : At(g, "demote") /\ hand[g].doc \in {b, c}
          BY <3>5, <4>2 DEF BookInv, OneActive
        <5>2. g # h /\ Edits(g) BY <2>1, <5>1 DEF At
        <5> QED BY <3>6, <5>1, <5>2 DEF At, Edits
      <4> QED BY <4>1, <4>2
    <3>8. Claimed' BY <3>3, <3>5, <3>6 DEF Claimed, At, Edits
    <3> QED BY <3>7, <3>8 DEF BookInv
  <2> QED BY <2>2, <2>3
<1>7. CASE Demote(h)
  <2>1. EditShape(e) /\ e.step = "demote" BY <1>1, <1>7 DEF Demote, At, TypeOfHands, Edits, OtherShape
  <2>2. docs' = [d \in Docs |-> Deactivated(d, docs[d], e.doc)] BY <1>7 DEF Demote
  <2>3. PICK f : /\ hand' = Disturbed(h, f)
                 /\ f = Free \/ f = [e EXCEPT !.step = "write", !.copy = DefaultDocument(e.slug)]
    BY <1>7 DEF Demote
  <2>4. ASSUME NEW d \in Docs
        PROVE /\ d \in Kept' <=> d \in Kept
              /\ d \in Active' => d = e.doc
              /\ d = e.doc /\ d \in Active => d \in Active'
    <3>1. docs'[d] = Deactivated(d, docs[d], e.doc) /\ docs[d] \in Documents BY <1>2, <2>2
    <3>2. CASE d = e.doc \/ ~docs[d].active
      <4>1. docs'[d] = docs[d] BY <3>1, <3>2 DEF Deactivated
      <4> QED BY <3>2, <4>1 DEF Active, Kept
    <3>3. CASE d # e.doc /\ docs[d].active
      <4>1. docs'[d] = [docs[d] EXCEPT !.active = FALSE, !.stamp = now + 1]
        BY <3>1, <3>3 DEF Deactivated
      <4>2. docs'[d].active = FALSE /\ docs'[d].slug = docs[d].slug BY <3>1, <4>1 DEF Documents
      <4> QED BY <3>3, <4>2 DEF Active, Kept
    <3> QED BY <3>2, <3>3
  <2>5. Active' \subseteq Docs BY DEF Active, Kept
  <2>6. OneActive' BY <2>4, <2>5 DEF OneActive
  <2>7. Claimed'
    <3> SUFFICES ASSUME NEW g \in Hands, At(g, "demote")' \/ At(g, "write")', hand'[g].alone
                 PROVE hand'[g].doc \in Active'
      BY DEF Claimed
    <3>1. CASE g = h
      <4>1. hand'[h] = f BY <2>3, OthersDisturbed
      <4>2. f # Free BY <3>1, <4>1 DEF At, Edits, Free
      <4>3. f.doc = e.doc /\ f.alone = e.alone
        <5>1. f = [e EXCEPT !.step = "write", !.copy = DefaultDocument(e.slug)] BY <2>3, <4>2
        <5> HIDE DEF e
        <5> QED BY <2>1, <5>1 DEF EditShape, EditFields
      <4>4. e.doc \in Active BY <2>1, <3>1, <4>1, <4>3 DEF BookInv, Claimed, At, Edits, EditShape, EditFields
      <4> QED BY <1>2, <2>4, <3>1, <4>1, <4>3, <4>4
    <3>2. CASE g # h
      <4>1. Edits(g) => hand'[g].alone = FALSE BY <2>3, <3>2, OthersDisturbed
      <4>2. ~Edits(g) => hand'[g] = hand[g] BY <2>3, <3>2, OthersDisturbed
      <4> QED BY <4>1, <4>2 DEF At, Edits
    <3> QED BY <3>1, <3>2
  <2> QED BY <2>6, <2>7 DEF BookInv
<1>8. CASE Write(h)
  <2>1. EditShape(e) /\ e.step = "write" BY <1>1, <1>8 DEF Write, At, TypeOfHands, Edits, OtherShape
  <2>2. hand' = Disturbed(h, Free) BY <1>8 DEF Write
  <2>3. Active' = Active
    <3> DEFINE new == Mutated(e.copy, e)
               m == e.doc
    <3>1. docs' = [docs EXCEPT ![m].rules = new.rules, ![m].auto = new.auto, ![m].stamp = now + 1]
      BY <1>8 DEF Write
    <3> HIDE DEF new, m
    <3>2. ASSUME NEW d \in Docs PROVE docs'[d].slug = docs[d].slug /\ docs'[d].active = docs[d].active
      <4>1. docs[d] \in Documents BY <1>2
      <4>2. docs'[d] = IF d = m THEN [docs[d] EXCEPT !.rules = new.rules, !.auto = new.auto, !.stamp = now + 1]
                                ELSE docs[d]
        BY <1>2, <3>1
      <4> QED BY <4>1, <4>2 DEF Documents
    <3> QED BY <3>2 DEF Active, Kept
  <2>4. OneActive'
    <3> SUFFICES ASSUME NEW c \in Active, NEW d \in Active, c # d
                 PROVE \E g \in Hands : At(g, "demote")' /\ hand'[g].doc \in {c, d}
      BY <2>3 DEF OneActive
    <3>1. PICK g \in Hands : At(g, "demote") /\ hand[g].doc \in {c, d} BY DEF BookInv, OneActive
    <3>2. g # h /\ Edits(g) BY <2>1, <3>1 DEF At
    <3> QED BY <2>2, <3>1, <3>2, OthersDisturbed DEF At, Edits
  <2>5. Claimed'
    <3> SUFFICES ASSUME NEW g \in Hands, At(g, "demote")' \/ At(g, "write")', hand'[g].alone PROVE FALSE
      BY DEF Claimed
    <3>1. "step" \notin DOMAIN Free BY DEF Free
    <3> QED BY <2>2, <3>1, OthersDisturbed DEF At, Edits
  <2> QED BY <2>4, <2>5 DEF BookInv
<1> QED BY <1>4, <1>5, <1>6, <1>7, <1>8 DEF EditBook

LEMMA BookHeld == SearchSpec => [](TypeInv /\ BookInv)
<1>1. SearchInit => BookInv
  BY DEF SearchInit, Init, Household, BookInv, OneActive, Claimed, At, Edits, Free
<1>2. TypeInv /\ BookInv /\ [SearchNext]_<<vars, listing>> => BookInv'
  BY BookStep, BookQuiet, BookEdited
<1> QED BY <1>1, <1>2, WellTyped, PTL DEF SearchSpec

\* However many hands meet the household's first use together, once none of them
\* is between making its document and demoting the others at most one is active.
THEOREM OnlyOneActive == SearchSpec => []OneActive
<1>1. BookInv => OneActive BY DEF BookInv
<1> QED BY <1>1, BookHeld, PTL

-----------------------------------------------------------------------------
(* Lessons.                                                                 *)

\* A row in front of a table decides what it takes, and nothing else.
LEMMA FirstRowDecides ==
  ASSUME NEW row \in Rules, NEW rules \in Seq(Rules), NEW tx
  PROVE Decision(<<row>> \o rules, tx) =
          IF row.whole /\ Captures(row, tx) THEN OutputsOf(row) ELSE Decision(rules, tx)
<1> DEFINE all == <<row>> \o rules
           n == Len(rules)
<1>1. n \in Nat /\ <<row>> \in Seq(Rules) /\ Len(<<row>>) = 1 /\ <<row>>[1] = row
  BY LenProperties
<1>2. all \in Seq(Rules) /\ Len(all) = 1 + n
  BY <1>1, ConcatProperties
<1>3. all[1] = row /\ \A i \in 1 .. n : all[1 + i] = rules[i]
  <2>1. \A i \in 1 .. Len(<<row>>) + Len(rules) :
          (<<row>> \o rules)[i] = IF i <= Len(<<row>>) THEN <<row>>[i] ELSE rules[i - Len(<<row>>)]
    BY <1>1, ConcatProperties
  <2> HIDE DEF n
  <2> QED BY <1>1, <2>1 DEF n
<1> HIDE DEF all, n
<1>4. CASE row.whole /\ Captures(row, tx)
  <2>1. 1 \in Deciding(all, tx) /\ \A j \in Deciding(all, tx) : 1 <= j
    BY <1>1, <1>2, <1>3, <1>4 DEF Deciding
  <2>2. Decision(all, tx) = OutputsOf(row) BY <1>2, <1>3, <2>1, DecisionFirst
  <2> QED BY <1>4, <2>2 DEF all
<1>5. CASE ~(row.whole /\ Captures(row, tx))
  <2>1. \A i \in 1 .. 1 + n : i = 1 \/ i - 1 \in 1 .. n BY <1>1
  <2>2. ASSUME NEW i \in Deciding(all, tx) PROVE i - 1 \in Deciding(rules, tx) /\ i \in Nat
    <3>1. i \in 1 .. 1 + n /\ all[i].whole /\ Captures(all[i], tx) BY <1>2, <2>2 DEF Deciding
    <3>2. i # 1 BY <1>3, <1>5, <3>1
    <3>3. i - 1 \in 1 .. n /\ 1 + (i - 1) = i BY <1>1, <3>1, <3>2
    <3>4. all[i] = rules[i - 1] BY <1>3, <3>3
    <3> QED BY <3>1, <3>3, <3>4 DEF Deciding, n
  <2>3. ASSUME NEW i \in Deciding(rules, tx) PROVE 1 + i \in Deciding(all, tx) /\ i \in Nat
    <3>1. i \in 1 .. n /\ 1 + i \in 1 .. 1 + n BY <1>1, <2>3 DEF Deciding, n
    <3>2. all[1 + i] = rules[i] BY <1>3, <3>1
    <3> QED BY <1>2, <2>3, <3>1, <3>2 DEF Deciding
  <2>4. CASE Deciding(rules, tx) = {}
    <3>1. Deciding(all, tx) = {} BY <2>2, <2>4
    <3>2. Decision(rules, tx) = Nothing /\ Decision(all, tx) = Nothing
      BY <1>2, <2>4, <3>1, DecisionFirst
    <3> QED BY <1>5, <3>2 DEF all
  <2>5. CASE Deciding(rules, tx) # {}
    <3>1. PICK i \in Deciding(rules, tx) : \A j \in Deciding(rules, tx) : i <= j
      BY <2>5, DecisionFirst
    <3>2. 1 + i \in Deciding(all, tx) /\ \A j \in Deciding(all, tx) : 1 + i <= j
      <4>1. ASSUME NEW j \in Deciding(all, tx) PROVE 1 + i <= j
        <5>1. j - 1 \in Deciding(rules, tx) /\ j \in Nat /\ i \in Nat BY <2>2, <2>3
        <5>2. i <= j - 1 BY <3>1, <5>1
        <5> QED BY <5>1, <5>2
      <4> QED BY <2>3, <4>1
    <3>3. Decision(all, tx) = OutputsOf(all[1 + i]) BY <1>2, <3>2, DecisionFirst
    <3>4. Decision(rules, tx) = OutputsOf(rules[i]) BY <3>1, DecisionFirst
    <3>5. all[1 + i] = rules[i] BY <1>3 DEF Deciding, n
    <3> QED BY <1>5, <3>3, <3>4, <3>5 DEF all
  <2> QED BY <2>4, <2>5
<1> QED BY <1>4, <1>5

\* Rows that take nothing of a transaction may be filtered away.
LEMMA FilterDecides ==
  ASSUME NEW rules \in Seq(Rules), NEW I \in SUBSET (DOMAIN rules), NEW tx,
         Deciding(rules, tx) \subseteq I
  PROVE Decision(Filter(rules, I), tx) = Decision(rules, tx)
<1> DEFINE n == Cardinality(I)
           kept == Filter(rules, I)
<1>1. n \in Nat /\ kept \in Seq(Rules) /\ Len(kept) = n /\ Picked(rules, I, kept)
  BY FilterPlaces
<1>2. PICK f \in [1 .. n -> I] :
        /\ \A k \in 1 .. n : kept[k] = rules[f[k]]
        /\ \A k, l \in 1 .. n : k < l => f[k] < f[l]
        /\ \A i \in I : \E k \in 1 .. n : f[k] = i
  BY <1>1 DEF Picked
<1> HIDE DEF n, kept
<1>3. Len(rules) \in Nat /\ DOMAIN rules = 1 .. Len(rules) BY LenProperties
<1>4. ASSUME NEW k \in 1 .. n PROVE k \in Deciding(kept, tx) <=> f[k] \in Deciding(rules, tx)
  BY <1>1, <1>2, <1>3 DEF Deciding
<1>5. CASE Deciding(rules, tx) = {}
  <2>1. Deciding(kept, tx) = {}
    <3>1. ASSUME NEW k \in Deciding(kept, tx) PROVE FALSE
      <4>1. k \in 1 .. n BY <1>1 DEF Deciding
      <4> QED BY <1>4, <1>5, <4>1
    <3> QED BY <3>1
  <2>2. Decision(rules, tx) = Nothing /\ Decision(kept, tx) = Nothing
    BY <1>1, <1>5, <2>1, DecisionFirst
  <2> QED BY <2>2 DEF kept
<1>6. CASE Deciding(rules, tx) # {}
  <2>1. PICK i \in Deciding(rules, tx) : \A j \in Deciding(rules, tx) : i <= j
    BY <1>6, DecisionFirst
  <2>2. PICK k \in 1 .. n : f[k] = i BY <1>2, <2>1
  <2>3. k \in Deciding(kept, tx) BY <1>4, <2>2
  <2>4. ASSUME NEW l \in Deciding(kept, tx) PROVE k <= l
    <3>1. l \in 1 .. n BY <1>1 DEF Deciding
    <3>2. f[k] <= f[l] /\ f[k] \in Nat /\ f[l] \in Nat
      <4>1. f[l] \in Deciding(rules, tx) BY <1>4, <3>1
      <4> QED BY <1>3, <2>1, <2>2, <3>1, <4>1
    <3>3. ~(l < k) BY <1>2, <3>1, <3>2
    <3> QED BY <1>1, <3>1, <3>3
  <2>5. Decision(kept, tx) = OutputsOf(kept[k]) BY <1>1, <2>3, <2>4, DecisionFirst
  <2>6. Decision(rules, tx) = OutputsOf(rules[i]) BY <2>1, DecisionFirst
  <2> QED BY <1>2, <2>2, <2>5, <2>6 DEF kept
<1> QED BY <1>5, <1>6

\* What a row of some outputs is, and what it takes.
LEMMA LessonRow ==
  ASSUME NEW id \in Nat, NEW match \in Matches, NEW outputs \in Outcomes, NEW tx
  PROVE LET row == Row(id, match, outputs)
        IN  /\ row \in Rules /\ row.whole /\ OutputsOf(row) = outputs
            /\ (match.type # None => match.type = tx.type) /\ ToSet(match.words) \subseteq tx.words
                 <=> Captures(row, tx)
<1>1. Row(id, match, outputs) \in Rules BY RowTyped
<1>2. outputs = [category |-> outputs.category, payee |-> outputs.payee, label |-> outputs.label]
  BY DEF Outcomes
<1> QED BY <1>1, <1>2 DEF Row, OutputsOf, Outputs, Captures

\* A lesson that is new goes in front of what it does not subsume.
Unsubsumed(rules, match, outputs) ==
  Filter(rules, {i \in DOMAIN rules : ~Narrower(rules[i], match, outputs)})

LEMMA LessonAdded ==
  ASSUME NEW rules \in Seq(Rules), NEW id, NEW match, NEW outputs, IsNew(rules, match, outputs)
  PROVE Upserted(Normalized(rules), id, match, outputs) =
          <<Row(id, match, outputs)>> \o Unsubsumed(Normalized(rules), match, outputs)
<1> DEFINE old == Normalized(rules)
<1>1. old \in Seq(Rules) /\ DOMAIN old = DOMAIN rules BY NormalizedTyped
<1>2. ASSUME NEW i \in DOMAIN rules
      PROVE /\ MatchOf(old[i]) = MatchOf(rules[i]) /\ old[i].shaped = rules[i].shaped
            /\ Broader(old[i], match, outputs) <=> Broader(rules[i], match, outputs)
  <2>1. rules[i] \in Rules BY RulesIn
  <2>2. old[i] = [rules[i] EXCEPT !.whole = TRUE] BY DEF Normalized
  <2>3. /\ old[i].type = rules[i].type /\ old[i].words = rules[i].words
        /\ old[i].shaped = rules[i].shaped /\ old[i].category = rules[i].category
        /\ old[i].payee = rules[i].payee /\ old[i].label = rules[i].label
    BY <2>1, <2>2 DEF Rules
  <2> QED BY <2>3 DEF MatchOf, Broader, SameKind, OutputsOf
<1>3. ~IsExact(old, match) /\ IsNew(old, match, outputs)
  BY <1>1, <1>2 DEF IsNew, IsExact
<1> HIDE DEF old
<1>4. Upserted(old, id, match, outputs) =
        Added(Unsubsumed(old, match, outputs), Row(id, match, outputs))
  BY <1>3 DEF Upserted, Unsubsumed
<1> QED BY <1>4 DEF Added, old

\* What it subsumes takes nothing that it does not take itself.
LEMMA LessonSubsumes ==
  ASSUME NEW rules \in Seq(Rules), NEW id \in Nat, NEW match \in Matches, NEW outputs \in Outcomes,
         NEW tx, IsNew(rules, match, outputs)
  PROVE LET row == Row(id, match, outputs)
            old == Normalized(rules)
        IN  Decision(Upserted(old, id, match, outputs), tx) = Decision(<<row>> \o old, tx)
<1> DEFINE row == Row(id, match, outputs)
           old == Normalized(rules)
           I == {i \in DOMAIN old : ~Narrower(old[i], match, outputs)}
<1>1. old \in Seq(Rules) BY NormalizedTyped
<1>2. /\ row \in Rules /\ row.whole
      /\ (match.type # None => match.type = tx.type) /\ ToSet(match.words) \subseteq tx.words
           <=> Captures(row, tx)
  BY LessonRow
<1>3. Upserted(old, id, match, outputs) = <<row>> \o Filter(old, I) BY LessonAdded DEF Unsubsumed
<1>4. I \in SUBSET (DOMAIN old) /\ Filter(old, I) \in Seq(Rules)
  <2>1. I \in SUBSET (DOMAIN old) OBVIOUS
  <2> HIDE DEF I, old
  <2> QED BY <1>1, <2>1, FilterSeq
<1>5. CASE Captures(row, tx)
  <2> HIDE DEF row, old, I
  <2>1. Decision(<<row>> \o Filter(old, I), tx) = OutputsOf(row) /\ Decision(<<row>> \o old, tx) = OutputsOf(row)
    BY <1>1, <1>2, <1>4, <1>5, FirstRowDecides
  <2> QED BY <1>3, <2>1 DEF row, old
<1>6. CASE ~Captures(row, tx)
  <2>1. Deciding(old, tx) \subseteq I
    <3> SUFFICES ASSUME NEW i \in Deciding(old, tx), Narrower(old[i], match, outputs) PROVE FALSE
      BY <1>1, LenProperties DEF Deciding
    <3>1. /\ old[i].shaped /\ old[i].type = match.type /\ ToSet(match.words) \subseteq ToSet(old[i].words)
      BY DEF Narrower, SameKind
    <3>2. Captures(old[i], tx) BY DEF Deciding
    <3> HIDE DEF old, row
    <3>3. ToSet(match.words) \subseteq tx.words /\ (match.type # None => match.type = tx.type)
      BY <3>1, <3>2 DEF Captures
    <3> QED BY <1>2, <1>6, <3>3
  <2> HIDE DEF row, old, I
  <2>2. Decision(<<row>> \o Filter(old, I), tx) = Decision(Filter(old, I), tx)
        /\ Decision(<<row>> \o old, tx) = Decision(old, tx)
    BY <1>1, <1>2, <1>4, <1>6, FirstRowDecides
  <2>3. Decision(Filter(old, I), tx) = Decision(old, tx) BY <1>1, <1>4, <2>1, FilterDecides
  <2> QED BY <1>3, <2>2, <2>3 DEF row, old
<1> QED BY <1>5, <1>6

\* Only its own write ends a lesson.
LEMMA LessonWritten ==
  ASSUME TypeInv, [SearchNext]_<<vars, listing>>, NEW h \in Hands, Teaches(h) PROVE Write(h)
<1>1. /\ Edits(h) /\ hand[h].step = "write" /\ hand'[h] = Free /\ "step" \notin DOMAIN Free
      /\ EditShape(hand[h])
  BY DEF Teaches, At, Free, TypeInv, TypeOfHands, Edits, OtherShape
<1>2. ~Quiet BY <1>1 DEF Quiet, Edits
<1>3. PICK g \in Hands : EditBook(g) BY <1>2, BookStep
<1>4. CASE g = h BY <1>1, <1>3, <1>4 DEF EditBook, Open, Name, Create, Demote, At
<1>5. CASE g # h
  <2>1. hand'[h] # hand[h] BY <1>1 DEF Edits
  <2>2. ASSUME NEW e, Goes(g, e) PROVE FALSE BY <1>5, <2>1, <2>2, OthersGo
  <2>3. ASSUME NEW e, hand' = Disturbed(g, e) PROVE FALSE
    BY <1>1, <1>5, <2>3, OthersDisturbed
  <2>4. (\E e : Goes(g, e)) \/ (\E e : hand' = Disturbed(g, e))
    BY <1>3 DEF EditBook, Open, Name, Create, Demote, Write
  <2> QED BY <2>2, <2>3, <2>4
<1> QED BY <1>4, <1>5

\* What it leaves in the document it found.
LEMMA LessonLeaves ==
  ASSUME TypeInv, NEW h \in Hands, At(h, "write"), hand[h].op = "teach", Write(h)
  PROVE LET m == hand[h].doc
        IN  /\ m \in Docs /\ hand[h].copy.rules \in Seq(Rules)
            /\ hand[h].match \in Matches /\ hand[h].outputs \in Outcomes
            /\ now \in Nat /\ minted \in Nat /\ minted' = minted + 1
            /\ docs'[m].rules =
                 Upserted(Normalized(hand[h].copy.rules), minted + 1, hand[h].match, hand[h].outputs)
            /\ docs'[m].stamp = now + 1
            /\ \A d \in Docs \ {m} : docs'[d] = docs[d]
            /\ \A d \in Docs : docs[d].stamp \in Nat /\ docs[d].stamp <= now
            /\ Active' = Active
<1> DEFINE e == hand[h]
           m == e.doc
           new == Mutated(e.copy, e)
           rules == Upserted(Normalized(e.copy.rules), minted + 1, e.match, e.outputs)
<1>1. EditShape(e) /\ e.step = "write" /\ e.op = "teach"
  BY DEF At, TypeInv, TypeOfHands, Edits, OtherShape
<1>2. m \in Docs /\ e.copy \in Documents /\ e.match \in Matches /\ e.outputs \in Outcomes
  BY <1>1 DEF EditShape
<1>3. docs \in [Docs -> Documents] /\ now \in Nat /\ minted \in Nat
  BY DEF TypeInv, TypeOfDocs
<1>4. \A d \in Docs : docs[d].stamp \in Nat /\ docs[d].stamp <= now
  BY <1>3 DEF TypeInv, TypeOfDocs, Documents
<1>5. minted' = minted + 1 BY <1>1 DEF Write
<1>6. new.rules = rules
  <2>1. new = [e.copy EXCEPT !.rules = rules] BY <1>1 DEF Mutated
  <2> HIDE DEF rules, new, e
  <2> QED BY <1>2, <2>1 DEF Documents
<1>7. docs' = [docs EXCEPT ![m].rules = new.rules, ![m].auto = new.auto, ![m].stamp = now + 1]
  BY DEF Write
<1>8. e.copy.rules \in Seq(Rules) BY <1>2 DEF Documents
<1> HIDE DEF new, rules, m
<1>9. ASSUME NEW d \in Docs
      PROVE /\ docs'[d].slug = docs[d].slug /\ docs'[d].active = docs[d].active
            /\ d # m => docs'[d] = docs[d]
            /\ d = m => docs'[d].rules = rules /\ docs'[d].stamp = now + 1
  <2>1. docs[d] \in Documents BY <1>3
  <2>2. docs'[d] = IF d = m THEN [docs[d] EXCEPT !.rules = new.rules, !.auto = new.auto, !.stamp = now + 1]
                            ELSE docs[d]
    BY <1>3, <1>7
  <2> QED BY <1>6, <2>1, <2>2 DEF Documents
<1>10. Active' = Active BY <1>9 DEF Active, Kept
<1> QED BY <1>2, <1>3, <1>4, <1>5, <1>8, <1>9, <1>10 DEF rules, m

\* A lesson that replaces the narrower rows it subsumes changes what is decided of
\* no transaction there could be: the book decides as if it had kept them.
THEOREM NoLessonLost == SearchSpec => NothingLost
<1> DEFINE Kept1 ==
             \A h \in Hands : Teaches(h) /\ Fresh(h) =>
               \A rules \in {docs'[hand[h].doc].rules}, old \in {Normalized(hand[h].copy.rules)} :
               \A row \in {Row(minted', hand[h].match, hand[h].outputs)} :
               \A tx \in Worlds : Decision(rules, tx) = Decision(<<row>> \o old, tx)
<1>1. TypeInv /\ [SearchNext]_<<vars, listing>> => Kept1
  <2> SUFFICES ASSUME TypeInv, [SearchNext]_<<vars, listing>>, NEW h \in Hands, Teaches(h), Fresh(h),
                      NEW tx \in Worlds
               PROVE Decision(docs'[hand[h].doc].rules, tx) =
                       Decision(<<Row(minted', hand[h].match, hand[h].outputs)>>
                                  \o Normalized(hand[h].copy.rules), tx)
    OBVIOUS
  <2>1. Write(h) /\ At(h, "write") /\ hand[h].op = "teach" BY LessonWritten DEF Teaches
  <2>2. /\ hand[h].copy.rules \in Seq(Rules) /\ hand[h].match \in Matches /\ hand[h].outputs \in Outcomes
        /\ minted \in Nat /\ minted' = minted + 1
        /\ docs'[hand[h].doc].rules =
             Upserted(Normalized(hand[h].copy.rules), minted + 1, hand[h].match, hand[h].outputs)
    BY <2>1, LessonLeaves
  <2>3. minted + 1 \in Nat BY <2>2
  <2>4. IsNew(hand[h].copy.rules, hand[h].match, hand[h].outputs) BY DEF Fresh
  <2> QED BY <2>2, <2>3, <2>4, LessonSubsumes
<1>2. Kept1 => [Kept1]_vars OBVIOUS
<1> QED BY <1>1, WellTyped, PTL DEF SearchSpec, NothingLost

\* A lesson answered as a new rule, by a hand alone with the book, decides every
\* transaction its words reach in the book the worker reads next.
THEOREM LessonsTaught == SearchSpec => Taught
<1> DEFINE Decides ==
             \A h \in Hands : Teaches(h) /\ Fresh(h) /\ hand[h].alone =>
               \A d \in Active' : \A t \in Reach(hand[h].match) :
                 (\A e \in Active' : docs'[e].stamp <= docs'[d].stamp)
                   => Decision(Healed(docs'[d].rules), txs[t]) = hand[h].outputs
<1>1. TypeInv /\ BookInv /\ [SearchNext]_<<vars, listing>> => Decides
  <2> SUFFICES ASSUME TypeInv, BookInv, [SearchNext]_<<vars, listing>>, NEW h \in Hands, Teaches(h),
                      Fresh(h), hand[h].alone, NEW d \in Active', NEW t \in Reach(hand[h].match),
                      \A e \in Active' : docs'[e].stamp <= docs'[d].stamp
               PROVE Decision(Healed(docs'[d].rules), txs[t]) = hand[h].outputs
    OBVIOUS
  <2> DEFINE m == hand[h].doc
             match == hand[h].match
             outputs == hand[h].outputs
             old == Normalized(hand[h].copy.rules)
             row == Row(minted + 1, match, outputs)
             rest == Unsubsumed(old, match, outputs)
  <2>1. Write(h) /\ At(h, "write") /\ hand[h].op = "teach" BY LessonWritten DEF Teaches
  <2>2. /\ m \in Docs /\ hand[h].copy.rules \in Seq(Rules) /\ match \in Matches /\ outputs \in Outcomes
        /\ now \in Nat /\ minted \in Nat
        /\ docs'[m].rules = Upserted(old, minted + 1, match, outputs)
        /\ docs'[m].stamp = now + 1
        /\ \A e \in Docs \ {m} : docs'[e] = docs[e]
        /\ \A e \in Docs : docs[e].stamp \in Nat /\ docs[e].stamp <= now
        /\ Active' = Active
    BY <2>1, LessonLeaves
  <2>3. d = m
    <3>1. m \in Active' BY <2>1, <2>2 DEF BookInv, Claimed
    <3>2. d \in Docs BY <2>2 DEF Active, Kept
    <3> HIDE DEF m, old, match, outputs
    <3>3. d # m => docs'[d].stamp <= now /\ docs'[d].stamp \in Nat BY <2>2, <3>2
    <3>4. now + 1 <= docs'[d].stamp BY <2>2, <3>1
    <3>5. ~(d # m)
      <4> SUFFICES ASSUME d # m PROVE FALSE OBVIOUS
      <4> QED BY <2>2, <3>3, <3>4
    <3> QED BY <3>5
  <2>4. IsNew(hand[h].copy.rules, match, outputs) BY DEF Fresh
  <2>5. docs'[d].rules = <<row>> \o rest
    <3>1. Upserted(old, minted + 1, match, outputs) = <<row>> \o rest
      <4> DEFINE taken == hand[h].copy.rules
      <4>1. taken \in Seq(Rules) /\ IsNew(taken, match, outputs) BY <2>2, <2>4
      <4> HIDE DEF taken, match, outputs
      <4>2. Upserted(Normalized(taken), minted + 1, match, outputs) =
              <<Row(minted + 1, match, outputs)>> \o Unsubsumed(Normalized(taken), match, outputs)
        BY <4>1, LessonAdded
      <4> QED BY <4>2 DEF taken
    <3> HIDE DEF m, old, row, rest, match, outputs
    <3> QED BY <2>2, <2>3, <3>1
  <2>6. minted + 1 \in Nat /\ old \in Seq(Rules) BY <2>2, NormalizedTyped
  <2>7. /\ row \in Rules /\ row.whole /\ OutputsOf(row) = outputs /\ Captures(row, txs[t])
    <3>1. /\ row \in Rules /\ row.whole /\ OutputsOf(row) = outputs
          /\ (match.type # None => match.type = txs[t].type) /\ ToSet(match.words) \subseteq txs[t].words
               <=> Captures(row, txs[t])
      BY <2>2, <2>6, LessonRow
    <3>2. (match.type # None => txs[t].type = match.type) /\ ToSet(match.words) \subseteq txs[t].words
      BY DEF Reach
    <3> HIDE DEF row, match, outputs
    <3> QED BY <3>1, <3>2
  <2>8. rest \in Seq(Rules)
    <3> HIDE DEF old, match, outputs
    <3> QED BY <2>6, FilterSeq DEF Unsubsumed
  <2> HIDE DEF row, rest, outputs, match, old, m
  <2> DEFINE all == <<row>> \o rest
  <2>9. all \in Seq(Rules) /\ all[1] = row /\ Len(all) \in Nat /\ Len(all) >= 1
    <3>1. <<row>> \in Seq(Rules) /\ Len(<<row>>) = 1 /\ <<row>>[1] = row BY <2>7
    <3>2. Len(rest) \in Nat BY <2>8, LenProperties
    <3> QED BY <2>8, <3>1, <3>2, ConcatProperties
  <2> HIDE DEF all
  <2> DEFINE healed == Normalized(all)
  <2>10. healed \in Seq(Rules) /\ Len(healed) \in Nat /\ Len(healed) >= 1 /\ healed[1] = row
    <3>1. healed \in Seq(Rules) /\ DOMAIN healed = DOMAIN all BY <2>9, NormalizedTyped
    <3>2. 1 \in DOMAIN all /\ DOMAIN all = 1 .. Len(all) BY <2>9, LenProperties
    <3>3. healed[1] = [all[1] EXCEPT !.whole = TRUE] BY <3>2 DEF Normalized
    <3>4. [row EXCEPT !.whole = TRUE] = row BY <2>7 DEF Rules
    <3>5. DOMAIN healed = 1 .. Len(healed) /\ Len(healed) \in Nat
      <4> HIDE DEF healed
      <4> QED BY <3>1, LenProperties
    <3>6. 1 \in 1 .. Len(healed) BY <3>1, <3>2, <3>5
    <3> HIDE DEF healed
    <3> QED BY <2>9, <3>1, <3>3, <3>4, <3>5, <3>6
  <2> HIDE DEF healed
  <2>11. 1 \in Deciding(healed, txs[t]) /\ \A j \in Deciding(healed, txs[t]) : 1 <= j
    BY <2>7, <2>10 DEF Deciding
  <2>12. Decision(healed, txs[t]) = OutputsOf(healed[1]) BY <2>10, <2>11, DecisionFirst
  <2>13. Decision(healed, txs[t]) = OutputsOf(row) BY <2>10, <2>12
  <2> QED BY <2>5, <2>7, <2>13 DEF Healed, healed, all, outputs
<1> QED BY <1>1, BookHeld, PTL DEF SearchSpec, Taught

-----------------------------------------------------------------------------
(* A pass.                                                                  *)

\* The names a pass has still to tag with.
ToTag == {x[1] : x \in pass.wanted}
\* How far a pass has got with a row: not yet there; there, with the tag still to
\* be put on or not to be had; or as its rules decide.
Due(t, out, c, p) == (c \/ p \/ t \in pass.linked) /\ out.label # None
Put(label) == pass.todo = {} /\ label \notin pass.missed /\ label \notin ToTag
Progress(t, out, c, p) ==
  /\ pass.snap[t].tags \subseteq Living
  /\ t \in pass.todo =>
       /\ txs[t].category = pass.snap[t].category /\ txs[t].payee = pass.snap[t].payee
       /\ txs[t].tags = pass.snap[t].tags
       /\ t \notin pass.linked /\ t \notin pass.failed
  /\ t \notin pass.todo /\ t \notin pass.failed =>
       /\ txs[t].category = IF c THEN out.category ELSE pass.snap[t].category
       /\ txs[t].payee = IF p THEN out.payee ELSE pass.snap[t].payee
       /\ \/ /\ txs[t].tags = pass.snap[t].tags
             /\ Due(t, out, c, p) => <<out.label, t>> \in pass.wanted \/ out.label \in pass.missed
          \/ /\ Due(t, out, c, p) /\ Put(out.label)
             /\ TagNames(txs[t]) = TagNames(pass.snap[t]) \cup {out.label}
  /\ t \in pass.failed => txs[t].tags = pass.snap[t].tags
  /\ \A name \in Names :
       <<name, t>> \in pass.wanted =>
         t \notin pass.todo /\ t \notin pass.failed /\ Due(t, out, c, p) /\ out.label = name
\* What it linked, it was told to and found unlinked.
Linked(t) ==
  /\ t \in pass.linked => pass.auto /\ ~pass.snap[t].linked /\ txs[t].linked
  /\ ~pass.auto => txs[t].linked = pass.snap[t].linked
PassOn(t) ==
  /\ Linked(t)
  /\ \E out \in Outcomes, c \in BOOLEAN, p \in BOOLEAN :
       /\ out = Decision(pass.rules, pass.snap[t])
       /\ c = SetsCategory(out, pass.snap[t]) /\ p = SetsPayee(out, pass.snap[t])
       /\ Progress(t, out, c, p)
Missing == (pass.todo # {} => pass.missed = {}) /\ \A name \in ToTag : name \notin pass.missed
Read == \E d \in Active : pass.rules = Healed(docs[d].rules) /\ pass.auto = docs[d].auto
PassInv ==
  pass # Idle /\ pass.alone =>
    /\ Read
    /\ pass.at \in {"apply", "label", "tag", "done"} => Missing /\ \A t \in Txs : PassOn(t)
    /\ pass.at \in {"label", "tag"} =>
         /\ pass.label \in Labels /\ labels[pass.label] = pass.name
         /\ pass.name \in ToTag /\ pass.todo = {}
    /\ pass.at = "tag" =>
         pass.ids = {t \in Txs : <<pass.name, t>> \in pass.wanted /\ pass.label \notin txs[t].tags}
    /\ pass.at = "done" => pass.todo = {} /\ pass.wanted = {}

LEMMA PassFields ==
  ASSUME PassShape(pass), pass # Idle
  PROVE /\ pass.at \in {"read", "apply", "label", "tag", "done"}
        /\ {"at", "rules", "auto", "alone"} \subseteq DOMAIN pass /\ pass.rules \in Seq(Rules)
        /\ pass.at # "read" => Fields
        /\ pass.at \in {"label", "tag"} => {"name", "label"} \subseteq DOMAIN pass /\ pass.name \in Names
        /\ pass.at = "tag" => "ids" \in DOMAIN pass
BY DEF PassShape, Fields

\* Nothing of it changes while the rows stay and tags are only made.
PassRests ==
  /\ pass'.rules = pass.rules /\ pass'.auto = pass.auto /\ pass'.snap = pass.snap
  /\ pass'.todo = pass.todo /\ pass'.wanted = pass.wanted /\ pass'.linked = pass.linked
  /\ pass'.failed = pass.failed /\ pass'.missed = pass.missed
LEMMA PassStays ==
  ASSUME NEW t \in Txs, PassOn(t), UNCHANGED <<txs, payees>>, txs[t].tags \subseteq Living,
         \A l \in Living : l \in Living' /\ labels'[l] = labels[l], PassRests
  PROVE PassOn(t)'
<1>1. PICK out \in Outcomes, c \in BOOLEAN, p \in BOOLEAN :
        /\ out = Decision(pass.rules, pass.snap[t])
        /\ c = SetsCategory(out, pass.snap[t]) /\ p = SetsPayee(out, pass.snap[t])
        /\ Progress(t, out, c, p)
  BY DEF PassOn
<1>2. p = SetsPayee(out, pass.snap[t])' BY <1>1 DEF SetsPayee, PassRests
<1>3. /\ {labels'[l] : l \in txs[t].tags} = {labels[l] : l \in txs[t].tags}
      /\ pass.snap[t].tags \subseteq Living
      /\ {labels'[l] : l \in pass.snap[t].tags} = {labels[l] : l \in pass.snap[t].tags}
  BY <1>1 DEF Progress
<1>4. \A label : Put(label)' <=> Put(label) BY DEF Put, ToTag, PassRests
<1>5. Due(t, out, c, p)' <=> Due(t, out, c, p) BY DEF Due, PassRests
<1>6. Progress(t, out, c, p)' BY <1>1, <1>3, <1>4, <1>5 DEF Progress, TagNames, PassRests
<1>7. Linked(t)' BY DEF PassOn, Linked, PassRests
<1> QED BY <1>1, <1>2, <1>6, <1>7 DEF PassOn, SetsCategory, PassRests

LEMMA PassBegins ==
  ASSUME TypeInv, PassInv, UNCHANGED bookVars, ReadTransactions PROVE PassInv'
<1>1. /\ pass.at = "read" /\ UNCHANGED <<txs, payees, labels, docs>>
      /\ pass' = With([at |-> "apply", snap |-> txs, todo |-> Txs, wanted |-> {},
                       linked |-> {}, failed |-> {}, missed |-> {}], pass)
  BY DEF ReadTransactions, tagVars, bookVars
<1>2. pass # Idle /\ {"at", "rules", "auto", "alone"} \subseteq DOMAIN pass /\ pass.rules \in Seq(Rules)
  BY <1>1, PassFields DEF TypeInv, Idle
<1>3. /\ pass'.at = "apply" /\ pass'.snap = txs /\ pass'.todo = Txs /\ pass'.wanted = {}
      /\ pass'.linked = {} /\ pass'.failed = {} /\ pass'.missed = {}
      /\ pass'.rules = pass.rules /\ pass'.auto = pass.auto /\ pass'.alone = pass.alone
  BY <1>1, <1>2 DEF With
<1>4. ASSUME NEW t \in Txs PROVE PassOn(t)'
  <2> DEFINE out == Decision(pass.rules, txs[t])
             c == SetsCategory(out, txs[t])
             p == SetsPayee(out, txs[t])
  <2>1. out \in Outcomes /\ c \in BOOLEAN /\ p \in BOOLEAN
    BY <1>2, DecisionTyped DEF SetsCategory, SetsPayee, Sets
  <2>2. txs[t].tags \subseteq Living /\ Living' = Living BY <1>1 DEF TypeInv, TypeOfRows, Living
  <2> HIDE DEF out, c, p
  <2>3. PICK o \in Outcomes, d \in BOOLEAN, q \in BOOLEAN : o = out /\ d = c /\ q = p BY <2>1
  <2>4. Progress(t, o, d, q)' BY <1>1, <1>3, <2>2 DEF Progress
  <2>5. o = Decision(pass'.rules, pass'.snap[t]) /\ d = SetsCategory(o, pass'.snap[t])
    BY <1>3, <2>3 DEF out, c
  <2>6. q = SetsPayee(o, pass.snap[t])' BY <1>1, <1>3, <2>3 DEF p, SetsPayee
  <2>7. Linked(t)' BY <1>1, <1>3 DEF Linked
  <2> QED BY <2>4, <2>5, <2>6, <2>7 DEF PassOn, SetsCategory
<1>5. pass.alone => Read BY <1>2 DEF PassInv
<1>6. Active' = Active BY <1>1 DEF Active, Kept
<1>7. Read => Read' BY <1>1, <1>3, <1>6 DEF Read
<1>8. Missing' BY <1>3 DEF Missing, ToTag
<1> QED BY <1>1, <1>3, <1>4, <1>5, <1>7, <1>8 DEF PassInv

LEMMA PassApplies == ASSUME TypeInv, PassInv, UNCHANGED bookVars, Apply PROVE PassInv'
<1>1. pass.at = "apply" /\ pass.todo # {} /\ UNCHANGED <<payees, labels, docs>>
  BY DEF Apply, bookVars
<1>2. pass # Idle /\ Fields /\ txs \in [Txs -> Transactions]
  BY <1>1, PassFields DEF TypeInv, TypeOfRows, Idle
<1>3. PICK u \in pass.todo, best \in Outcomes, givesC \in BOOLEAN, givesP \in BOOLEAN, leg \in {Leg(Turn)} :
        /\ u = Turn /\ best = Decision(pass.rules, pass.snap[u])
        /\ givesC = SetsCategory(best, pass.snap[u]) /\ givesP = SetsPayee(best, pass.snap[u])
        /\ TurnRows(u, best, givesC, givesP, leg)
        /\ \/ /\ Applies(u, best, givesC, givesP, leg)
              /\ txs'[u].category = IF givesC THEN best.category ELSE txs[u].category
              /\ txs'[u].payee = IF givesP THEN best.payee ELSE txs[u].payee
              /\ leg # {} => txs'[u].linked
           \/ StepsOver(u, best, givesC, givesP, leg)
  BY TurnTaken DEF TypeInv
<1> DEFINE links == leg # {}
           done == /\ Applies(u, best, givesC, givesP, leg)
                   /\ txs'[u].category = IF givesC THEN best.category ELSE txs[u].category
                   /\ txs'[u].payee = IF givesP THEN best.payee ELSE txs[u].payee
                   /\ links => txs'[u].linked
           tags == done /\ (givesC \/ givesP \/ links) /\ best.label # None
<1>4. links => pass.auto /\ ~pass.snap[u].linked BY <1>3 DEF Leg
<1>5. /\ pass'.at = "apply" /\ pass'.rules = pass.rules /\ pass'.auto = pass.auto
      /\ pass'.snap = pass.snap /\ pass'.alone = pass.alone /\ pass'.todo = pass.todo \ {u}
      /\ pass'.missed = pass.missed
  BY <1>1, <1>2, <1>3 DEF Applies, StepsOver, Fields
<1>6. /\ done => /\ pass'.failed = pass.failed
                 /\ pass'.linked = IF links THEN pass.linked \cup {u} ELSE pass.linked
                 /\ pass'.wanted = IF tags THEN pass.wanted \cup {<<best.label, u>>} ELSE pass.wanted
      /\ ~done => /\ pass'.failed = pass.failed \cup {u} /\ pass'.linked = pass.linked
                  /\ pass'.wanted = pass.wanted
  BY <1>2, <1>3 DEF Applies, StepsOver, Fields
<1>7. /\ done => /\ txs'[u].category = IF givesC THEN best.category ELSE txs[u].category
                 /\ txs'[u].payee = IF givesP THEN best.payee ELSE txs[u].payee
                 /\ links => txs'[u].linked
      /\ \A t \in Txs :
           /\ txs'[t].tags = txs[t].tags
           /\ t # u => txs'[t].category = txs[t].category /\ txs'[t].payee = txs[t].payee
           /\ txs[t].linked => txs'[t].linked
           /\ ~links => txs'[t].linked = txs[t].linked
  BY <1>3 DEF TurnRows
<1> HIDE DEF links, done, tags
<1>8. SUFFICES ASSUME pass.alone PROVE PassInv' BY <1>5 DEF PassInv
<1>9. Read /\ Missing /\ \A t \in Txs : PassOn(t) BY <1>1, <1>2, <1>8 DEF PassInv
<1>10. pass.missed = {} BY <1>1, <1>9 DEF Missing
<1>11. ASSUME NEW t \in Txs PROVE PassOn(t)'
  <2>1. PICK out \in Outcomes, c \in BOOLEAN, p \in BOOLEAN :
          /\ out = Decision(pass.rules, pass.snap[t])
          /\ c = SetsCategory(out, pass.snap[t]) /\ p = SetsPayee(out, pass.snap[t])
          /\ Progress(t, out, c, p)
    BY <1>9 DEF PassOn
  <2>2. p = SetsPayee(out, pass.snap[t])' BY <1>1, <1>5, <2>1 DEF SetsPayee
  <2>3. c = SetsCategory(out, pass'.snap[t]) /\ out = Decision(pass'.rules, pass'.snap[t])
    BY <1>5, <2>1
  <2>4. Living' = Living /\ pass.snap[t].tags \subseteq Living BY <1>1, <2>1 DEF Living, Progress
  <2>5. ~Put(out.label) BY <1>1 DEF Put
  <2>6. Linked(t)'
    <3>1. Linked(t) BY <1>9 DEF PassOn
    <3>2. ~pass.auto => txs'[t].linked = txs[t].linked BY <1>4, <1>7
    <3>3. CASE t \in pass'.linked /\ t \notin pass.linked
      <4>1. t = u /\ links /\ done BY <1>6, <3>3
      <4> QED BY <1>4, <1>5, <1>7, <3>1, <3>2, <4>1 DEF Linked
    <3>4. CASE ~(t \in pass'.linked /\ t \notin pass.linked)
      BY <1>5, <1>7, <3>1, <3>2, <3>4 DEF Linked
    <3> QED BY <3>3, <3>4
  <2>7. CASE t # u
    <3>1. /\ txs'[t].category = txs[t].category /\ txs'[t].payee = txs[t].payee
          /\ txs'[t].tags = txs[t].tags
      BY <1>7, <2>7
    <3>2. /\ t \in pass'.todo <=> t \in pass.todo
          /\ t \in pass'.failed <=> t \in pass.failed
          /\ t \in pass'.linked <=> t \in pass.linked
          /\ \A name : <<name, t>> \in pass'.wanted <=> <<name, t>> \in pass.wanted
      BY <1>5, <1>6, <2>7
    <3>3. Due(t, out, c, p)' <=> Due(t, out, c, p) BY <3>2 DEF Due
    <3>4. Progress(t, out, c, p)'
      BY <1>5, <2>1, <2>4, <2>5, <3>1, <3>2, <3>3 DEF Progress
    <3> QED BY <2>2, <2>3, <2>6, <3>4 DEF PassOn, SetsCategory
  <2>8. CASE t = u
    <3>1. out = best /\ c = givesC /\ p = givesP BY <1>3, <2>1, <2>8
    <3>2. /\ txs[t].category = pass.snap[t].category /\ txs[t].payee = pass.snap[t].payee
          /\ txs[t].tags = pass.snap[t].tags /\ t \notin pass'.todo
          /\ t \notin pass.linked /\ t \notin pass.failed
          /\ \A name \in Names : <<name, t>> \notin pass.wanted
      BY <1>5, <2>1, <2>8 DEF Progress
    <3>3. txs'[t].tags = pass.snap[t].tags BY <1>7, <3>2
    <3>4. out.label \in Names \cup {None} BY DEF Outcomes
    <3>5. CASE done
      <4>1. /\ txs'[t].category = IF c THEN out.category ELSE pass.snap[t].category
            /\ txs'[t].payee = IF p THEN out.payee ELSE pass.snap[t].payee
        BY <1>7, <2>8, <3>1, <3>2, <3>5
      <4>2. t \notin pass'.failed /\ (t \in pass'.linked <=> links) BY <1>6, <2>8, <3>2, <3>5
      <4>3. Due(t, out, c, p)' <=> tags BY <3>1, <3>5, <4>2 DEF Due, tags
      <4>4. /\ tags => <<out.label, t>> \in pass'.wanted
            /\ \A name \in Names : <<name, t>> \in pass'.wanted => tags /\ out.label = name
        BY <1>6, <2>8, <3>1, <3>2, <3>5
      <4>5. Progress(t, out, c, p)'
        BY <1>5, <2>4, <3>2, <3>3, <4>1, <4>2, <4>3, <4>4 DEF Progress
      <4> QED BY <2>2, <2>3, <2>6, <4>5 DEF PassOn, SetsCategory
    <3>6. CASE ~done
      <4>1. t \in pass'.failed /\ \A name \in Names : <<name, t>> \notin pass'.wanted
        BY <1>6, <2>8, <3>2, <3>6
      <4>2. Progress(t, out, c, p)' BY <1>5, <2>4, <3>2, <3>3, <4>1 DEF Progress
      <4> QED BY <2>2, <2>3, <2>6, <4>2 DEF PassOn, SetsCategory
    <3> QED BY <3>5, <3>6
  <2> QED BY <2>7, <2>8
<1>12. Active' = Active BY <1>1 DEF Active, Kept
<1>13. Read' BY <1>1, <1>5, <1>9, <1>12 DEF Read
<1>14. Missing' BY <1>5, <1>10 DEF Missing, ToTag
<1> QED BY <1>5, <1>11, <1>13, <1>14 DEF PassInv

LEMMA PassTags == ASSUME TypeInv, PassInv, UNCHANGED bookVars, TagTransactions PROVE PassInv'
<1>1. /\ pass.at = "tag" /\ UNCHANGED <<payees, labels, docs>>
      /\ pass.label \in Living /\ txs' = Tagged(pass.ids, pass.label)
      /\ pass' = [pass EXCEPT !.at = "apply", !.wanted = {w \in pass.wanted : w[1] # pass.name}]
  BY DEF TagTransactions, Joinable, bookVars
<1>2. /\ pass # Idle /\ Fields /\ txs \in [Txs -> Transactions] /\ pass.name \in Names
  BY <1>1, PassFields DEF TypeInv, TypeOfRows, Idle
<1>3. /\ pass'.at = "apply" /\ pass'.rules = pass.rules /\ pass'.auto = pass.auto
      /\ pass'.snap = pass.snap /\ pass'.alone = pass.alone /\ pass'.todo = pass.todo
      /\ pass'.linked = pass.linked /\ pass'.failed = pass.failed /\ pass'.missed = pass.missed
      /\ pass'.wanted = {w \in pass.wanted : w[1] # pass.name}
  BY <1>1, <1>2 DEF Fields
<1>4. SUFFICES ASSUME pass.alone PROVE PassInv' BY <1>3 DEF PassInv
<1>5. /\ Read /\ Missing /\ \A t \in Txs : PassOn(t)
      /\ pass.label \in Labels /\ labels[pass.label] = pass.name
      /\ pass.name \in ToTag /\ pass.todo = {} /\ pass.name \notin pass.missed
      /\ pass.ids = {t \in Txs : <<pass.name, t>> \in pass.wanted /\ pass.label \notin txs[t].tags}
  BY <1>1, <1>2, <1>4 DEF PassInv, Missing
<1>6. \A t \in Txs, name \in Names \cup {None} :
        <<name, t>> \in pass'.wanted <=> <<name, t>> \in pass.wanted /\ name # pass.name
  BY <1>3
<1>7. ASSUME NEW label, Put(label) \/ label = pass.name PROVE Put(label)'
  <2>1. \A x \in pass'.wanted : x \in pass.wanted /\ x[1] # pass.name BY <1>3
  <2>2. label \notin ToTag' BY <1>7, <2>1 DEF Put, ToTag
  <2>3. pass'.todo = {} /\ label \notin pass'.missed BY <1>3, <1>5, <1>7 DEF Put
  <2> QED BY <2>2, <2>3 DEF Put
<1>9. ASSUME NEW t \in Txs
      PROVE /\ txs'[t].category = txs[t].category /\ txs'[t].payee = txs[t].payee
            /\ txs'[t].tags = IF t \in pass.ids THEN txs[t].tags \cup {pass.label} ELSE txs[t].tags
            /\ t \notin pass.ids => txs'[t] = txs[t]
            /\ txs'[t].linked = txs[t].linked
  <2>1. txs[t] \in Transactions BY <1>2
  <2>2. txs'[t] = IF t \in pass.ids THEN [txs[t] EXCEPT !.tags = txs[t].tags \cup {pass.label}] ELSE txs[t]
    BY <1>1 DEF Tagged
  <2> QED BY <2>1, <2>2 DEF Transactions
<1>10. Living' = Living BY <1>1 DEF Living
<1>11. ASSUME NEW t \in Txs PROVE PassOn(t)'
  <2>1. PICK out \in Outcomes, c \in BOOLEAN, p \in BOOLEAN :
          /\ out = Decision(pass.rules, pass.snap[t])
          /\ c = SetsCategory(out, pass.snap[t]) /\ p = SetsPayee(out, pass.snap[t])
          /\ Progress(t, out, c, p)
    BY <1>5 DEF PassOn
  <2>2. p = SetsPayee(out, pass.snap[t])' BY <1>1, <1>3, <2>1 DEF SetsPayee
  <2>3. c = SetsCategory(out, pass'.snap[t]) /\ out = Decision(pass'.rules, pass'.snap[t])
    BY <1>3, <2>1
  <2>4. out.label \in Names \cup {None} BY DEF Outcomes
  <2>5. Due(t, out, c, p)' <=> Due(t, out, c, p) BY <1>3 DEF Due
  <2>6. Progress(t, out, c, p)'
    <3>1. CASE <<pass.name, t>> \notin pass.wanted
      <4>1. t \notin pass.ids BY <1>5, <3>1
      <4>2. txs'[t] = txs[t] BY <1>9, <4>1
      <4>3. \A name \in Names \cup {None} : <<name, t>> \in pass'.wanted <=> <<name, t>> \in pass.wanted
        BY <1>6, <3>1
      <4>5. {labels'[l] : l \in txs'[t].tags} = {labels[l] : l \in txs[t].tags}
            /\ {labels'[l] : l \in pass'.snap[t].tags} = {labels[l] : l \in pass.snap[t].tags}
        BY <1>1, <1>3, <4>2
      <4> QED BY <1>3, <1>7, <1>10, <2>1, <2>4, <2>5, <4>2, <4>3, <4>5 DEF Progress, TagNames
    <3>2. CASE <<pass.name, t>> \in pass.wanted
      <4>1. t \notin pass.todo /\ t \notin pass.failed /\ Due(t, out, c, p) /\ out.label = pass.name
        BY <1>2, <2>1, <3>2 DEF Progress
      <4>2. txs[t].tags = pass.snap[t].tags BY <1>5, <2>1, <4>1 DEF Progress, Put
      <4>3. {labels[l] : l \in txs'[t].tags} = {labels[l] : l \in pass.snap[t].tags} \cup {pass.name}
        <5>1. CASE t \in pass.ids
          <6>1. txs'[t].tags = pass.snap[t].tags \cup {pass.label} BY <1>9, <4>2, <5>1
          <6> DEFINE S == pass.snap[t].tags
                     l0 == pass.label
          <6>2. {labels[l] : l \in S \cup {l0}} = {labels[l] : l \in S} \cup {labels[l0]}
            <7> HIDE DEF S, l0
            <7> QED OBVIOUS
          <6> QED BY <1>5, <6>1, <6>2
        <5>2. CASE t \notin pass.ids
          <6>1. pass.label \in txs[t].tags /\ txs'[t].tags = txs[t].tags BY <1>5, <1>9, <3>2, <5>2
          <6> QED BY <1>5, <4>2, <6>1
        <5> QED BY <5>1, <5>2
      <4>4. TagNames(txs[t])' = TagNames(pass.snap[t])' \cup {out.label}
        BY <1>1, <1>3, <4>1, <4>3 DEF TagNames
      <4>5. \A name \in Names : <<name, t>> \notin pass'.wanted
        BY <1>6, <2>1, <4>1 DEF Progress
      <4>6. pass.snap[t].tags \subseteq Living
            /\ txs[t].category = (IF c THEN out.category ELSE pass.snap[t].category)
            /\ txs[t].payee = (IF p THEN out.payee ELSE pass.snap[t].payee)
        BY <2>1, <4>1 DEF Progress
      <4>7. Put(out.label)' BY <1>7, <4>1
      <4> QED BY <1>3, <1>9, <1>10, <2>5, <4>1, <4>4, <4>5, <4>6, <4>7 DEF Progress
    <3> QED BY <3>1, <3>2
  <2>7. Linked(t)'
    <3>1. Linked(t) BY <1>5 DEF PassOn
    <3>2. txs'[t].linked = txs[t].linked BY <1>9
    <3> QED BY <1>3, <3>1, <3>2 DEF Linked
  <2> QED BY <2>2, <2>3, <2>6, <2>7 DEF PassOn, SetsCategory
<1>12. Active' = Active BY <1>1 DEF Active, Kept
<1>13. Read' BY <1>1, <1>3, <1>5, <1>12 DEF Read
<1>14. Missing' BY <1>3, <1>5 DEF Missing, ToTag
<1> QED BY <1>3, <1>11, <1>13, <1>14 DEF PassInv

\* A tag given up leaves the rows that wanted it as they are.
LEMMA PassMisses == ASSUME TypeInv, PassInv, UNCHANGED bookVars, TagFails PROVE PassInv'
<1>1. /\ pass.at \in {"apply", "label", "tag"} /\ pass.todo = {}
      /\ UNCHANGED <<txs, payees, labels, docs>>
  BY DEF TagFails, tagVars, bookVars
<1>2. pass # Idle /\ Fields BY <1>1, PassFields DEF TypeInv, Idle
<1>3. PICK name \in IF pass.at = "apply" THEN ToTag ELSE {pass.name} :
        pass' = [pass EXCEPT !.at = "apply", !.wanted = {w \in pass.wanted : w[1] # name},
                   !.missed = pass.missed \cup {name}]
  BY DEF TagFails, ToTag
<1>4. /\ pass'.at = "apply" /\ pass'.rules = pass.rules /\ pass'.auto = pass.auto
      /\ pass'.snap = pass.snap /\ pass'.alone = pass.alone /\ pass'.todo = pass.todo
      /\ pass'.linked = pass.linked /\ pass'.failed = pass.failed
      /\ pass'.wanted = {w \in pass.wanted : w[1] # name} /\ pass'.missed = pass.missed \cup {name}
  BY <1>2, <1>3 DEF Fields
<1>5. SUFFICES ASSUME pass.alone PROVE PassInv' BY <1>4 DEF PassInv
<1>6. Read /\ Missing /\ (\A t \in Txs : PassOn(t)) /\ name \in ToTag
  BY <1>1, <1>2, <1>3, <1>5 DEF PassInv
<1>7. ASSUME NEW t \in Txs PROVE PassOn(t)'
  <2>1. PICK out \in Outcomes, c \in BOOLEAN, p \in BOOLEAN :
          /\ out = Decision(pass.rules, pass.snap[t])
          /\ c = SetsCategory(out, pass.snap[t]) /\ p = SetsPayee(out, pass.snap[t])
          /\ Progress(t, out, c, p)
    BY <1>6 DEF PassOn
  <2>2. p = SetsPayee(out, pass.snap[t])' BY <1>1, <1>4, <2>1 DEF SetsPayee
  <2>3. Due(t, out, c, p)' <=> Due(t, out, c, p) BY <1>4 DEF Due
  <2>4. Living' = Living /\ TagNames(txs[t])' = TagNames(txs[t])
        /\ TagNames(pass.snap[t])' = TagNames(pass.snap[t])
    BY <1>1, <1>4 DEF Living, TagNames
  <2>5. Put(out.label) => Put(out.label)' BY <1>4, <1>6 DEF Put, ToTag
  <2>6. <<out.label, t>> \in pass.wanted \/ out.label \in pass.missed
          => <<out.label, t>> \in pass'.wanted \/ out.label \in pass'.missed
    BY <1>4
  <2>7. \A other \in Names : <<other, t>> \in pass'.wanted => <<other, t>> \in pass.wanted BY <1>4
  <2>8. Progress(t, out, c, p)'
    BY <1>1, <1>4, <2>1, <2>3, <2>4, <2>5, <2>6, <2>7 DEF Progress
  <2>9. Linked(t)' BY <1>1, <1>4, <1>6 DEF PassOn, Linked
  <2> QED BY <1>4, <2>1, <2>2, <2>8, <2>9 DEF PassOn, SetsCategory
<1>8. Active' = Active BY <1>1 DEF Active, Kept
<1>9. Read' BY <1>1, <1>4, <1>6, <1>8 DEF Read
<1>10. Missing' BY <1>1, <1>4, <1>6 DEF Missing, ToTag
<1> QED BY <1>4, <1>7, <1>9, <1>10 DEF PassInv

\* Where nothing but a tag's name was made.
LEMMA PassGoesOn ==
  ASSUME TypeInv, PassInv, pass # Idle, pass.alone, UNCHANGED <<docs, txs, payees>>,
         \A l \in Living : l \in Living' /\ labels'[l] = labels[l],
         PassRests, pass.at \in {"apply", "label", "tag", "done"}
  PROVE Read' /\ Missing' /\ \A t \in Txs : PassOn(t)'
<1>1. Read /\ Missing /\ \A t \in Txs : PassOn(t) BY DEF PassInv
<1>2. Active' = Active BY DEF Active, Kept
<1>3. \A t \in Txs : txs[t].tags \subseteq Living BY DEF TypeInv, TypeOfRows
<1>4. \A t \in Txs : PassOn(t)' BY <1>1, <1>3, PassStays
<1>5. Read' BY <1>1, <1>2 DEF Read, PassRests
<1>6. Missing' BY <1>1 DEF Missing, ToTag, PassRests
<1> QED BY <1>4, <1>5, <1>6

LEMMA PassWorks ==
  ASSUME TypeInv, PassInv, UNCHANGED <<bookVars, hand>>, Worker PROVE PassInv'
<1> USE BookIds
<1>1. CASE StartPass
  <2>1. CASE pass' = Idle BY <2>1 DEF PassInv
  <2>2. CASE pass' # Idle
    <3>1. PICK d \in Active : pass' = [at |-> "read", rules |-> Healed(docs[d].rules), auto |-> docs[d].auto, alone |-> TRUE]
      BY <1>1, <2>2 DEF StartPass
    <3>2. Active' = Active /\ docs' = docs BY DEF bookVars, Active, Kept
    <3> QED BY <3>1, <3>2 DEF PassInv, Read
  <2> QED BY <2>1, <2>2
<1>2. CASE ReadTransactions BY <1>2, PassBegins
<1>3. CASE Apply BY <1>3, PassApplies
<1>4. CASE EnsureLabel
  <2>1. PICK name \in {w[1] : w \in pass.wanted} :
          /\ Taken(name) \/ Room
          /\ labels' = IF Taken(name) THEN labels ELSE [labels EXCEPT ![Minted] = name]
          /\ pass' = With([at |-> "label", name |-> name, label |-> CHOOSE l \in Labels : labels'[l] = name], pass)
    BY <1>4 DEF EnsureLabel
  <2>2. pass.at = "apply" /\ UNCHANGED <<docs, txs, payees>> BY <1>4 DEF EnsureLabel, bookVars
  <2>3. pass # Idle /\ Fields BY <2>2, PassFields DEF TypeInv, Idle
  <2>4. name \in Names /\ TypeOfRows BY <2>1, <2>3 DEF TypeInv, Fields
  <2>5. /\ pass'.at = "label" /\ pass'.name = name /\ PassRests
        /\ pass'.alone = pass.alone /\ pass'.label = CHOOSE l \in Labels : labels'[l] = name
    BY <2>1, <2>3 DEF With, Fields, PassRests
  <2>6. (\E l \in Labels : labels'[l] = name)
        /\ \A l \in Living : l \in Living' /\ labels'[l] = labels[l]
    <3>1. CASE Taken(name) BY <2>1, <3>1 DEF Taken, Living
    <3>2. CASE ~Taken(name)
      <4> DEFINE m == Minted
      <4>1. m \in Labels /\ labels[m] = None /\ labels' = [labels EXCEPT ![m] = name]
        BY <2>1, <2>4, <3>2, LabelMade
      <4> HIDE DEF m
      <4> QED BY <2>4, <4>1 DEF TypeOfRows, Living
    <3> QED BY <3>1, <3>2
  <2>7. pass'.label \in Labels /\ labels'[pass'.label] = pass'.name BY <2>5, <2>6
  <2>8. pass.alone => Read' /\ Missing' /\ \A t \in Txs : PassOn(t)'
    BY <2>2, <2>3, <2>5, <2>6, PassGoesOn
  <2>9. name \in ToTag' /\ pass'.todo = {}
    BY <1>4, <2>1, <2>5 DEF EnsureLabel, ToTag, PassRests
  <2> QED BY <2>5, <2>7, <2>8, <2>9 DEF PassInv
<1>5. CASE ReadJoins
  <2> DEFINE ids == {t \in {t \in Txs : <<pass.name, t>> \in pass.wanted} : pass.label \notin txs[t].tags}
  <2>1. /\ pass.at = "label" /\ pass' = With([at |-> "tag", ids |-> ids], pass)
        /\ UNCHANGED <<docs, txs, labels, payees>>
    BY <1>5 DEF ReadJoins, bookVars, tagVars
  <2>2. pass # Idle /\ Fields /\ {"name", "label"} \subseteq DOMAIN pass
    BY <2>1, PassFields DEF TypeInv, Idle
  <2>3. /\ pass'.at = "tag" /\ pass'.ids = ids /\ pass'.name = pass.name /\ pass'.label = pass.label
        /\ PassRests /\ pass'.alone = pass.alone
    BY <2>1, <2>2 DEF With, Fields, PassRests
  <2>4. \A l \in Living : l \in Living' /\ labels'[l] = labels[l] BY <2>1 DEF Living
  <2>5. pass.alone => Read' /\ Missing' /\ \A t \in Txs : PassOn(t)'
    BY <2>1, <2>2, <2>3, <2>4, PassGoesOn
  <2>6. pass'.ids = {t \in Txs : <<pass'.name, t>> \in pass'.wanted /\ pass'.label \notin txs'[t].tags}
    BY <2>1, <2>3 DEF PassRests
  <2>7. pass.alone => /\ pass.label \in Labels /\ labels[pass.label] = pass.name
                      /\ pass'.name \in ToTag' /\ pass'.todo = {}
    BY <2>1, <2>2, <2>3 DEF PassInv, PassRests, ToTag
  <2> QED BY <2>1, <2>3, <2>5, <2>6, <2>7 DEF PassInv
<1>6. CASE TagTransactions BY <1>6, PassTags
<1>9. CASE TagFails BY <1>9, PassMisses
<1>7. CASE FinishPass
  <2>1. /\ pass.at = "apply" /\ pass.todo = {} /\ pass.wanted = {} /\ pass' = [pass EXCEPT !.at = "done"]
        /\ UNCHANGED <<docs, txs, labels, payees>>
    BY <1>7 DEF FinishPass, bookVars, tagVars
  <2>2. pass # Idle /\ Fields BY <2>1, PassFields DEF TypeInv, Idle
  <2>3. pass'.at = "done" /\ PassRests /\ pass'.alone = pass.alone
    BY <2>1, <2>2 DEF Fields, PassRests
  <2>4. \A l \in Living : l \in Living' /\ labels'[l] = labels[l] BY <2>1 DEF Living
  <2>5. pass.alone => Read' /\ Missing' /\ \A t \in Txs : PassOn(t)'
    BY <2>1, <2>2, <2>3, <2>4, PassGoesOn
  <2> QED BY <2>1, <2>3, <2>5 DEF PassInv, PassRests
<1>8. CASE NextPass BY <1>8 DEF NextPass, PassInv
<1> QED BY <1>1, <1>2, <1>3, <1>4, <1>5, <1>6, <1>7, <1>8, <1>9 DEF Worker

LEMMA PassStep == ASSUME TypeInv, PassInv, [SearchNext]_<<vars, listing>> PROVE PassInv'
<1>1. CASE pass' = IF pass = Idle THEN pass ELSE [pass EXCEPT !.alone = FALSE]
  <2>1. CASE pass' = Idle BY <2>1 DEF PassInv
  <2>2. CASE pass' # Idle
    <3>1. pass # Idle /\ pass' = [pass EXCEPT !.alone = FALSE] BY <1>1, <2>2
    <3>2. "alone" \in DOMAIN pass BY <3>1, PassFields DEF TypeInv
    <3>3. pass'.alone = FALSE BY <3>1, <3>2
    <3> QED BY <3>3 DEF PassInv
  <2> QED BY <2>1, <2>2
<1>2. CASE Worker /\ UNCHANGED <<bookVars, hand>> BY <1>2, PassWorks
<1>3. CASE UNCHANGED <<docs, txs, payees, labels, pass>>
  <2>1. Active' = Active /\ Living' = Living BY <1>3 DEF Active, Kept, Living
  <2>2. ASSUME NEW t \in Txs, PassOn(t) PROVE PassOn(t)'
    <3>1. \A u \in Txs : txs[u].tags \subseteq Living BY DEF TypeInv, TypeOfRows
    <3>2. PassRests BY <1>3 DEF PassRests
    <3> QED BY <1>3, <2>1, <2>2, <3>1, <3>2, PassStays
  <2>3. (Read => Read') /\ (Missing => Missing') /\ ToTag' = ToTag
    BY <1>3, <2>1 DEF Read, Missing, ToTag
  <2> QED BY <1>3, <2>1, <2>2, <2>3 DEF PassInv
<1> QED BY <1>1, <1>2, <1>3 DEF SearchNext, Next, SearchTransactions, ReadPage, vars, bookVars, tagVars

\* What the page says of a row is what the worker decides, where no row written
\* by hand comes first.
LEMMA ListedDecides ==
  ASSUME NEW rules \in Seq(Rules), NEW tx, ~Unclear(rules, tx)
  PROVE Listed(rules, tx) = Decision(Normalized(rules), tx)
<1> DEFINE healed == Normalized(rules)
           claims == MatchedByRules(rules, tx)
           n == Len(rules)
<1>1. n \in Nat /\ DOMAIN rules = 1 .. n /\ healed \in Seq(Rules) /\ DOMAIN healed = 1 .. n /\ Len(healed) = n
  <2>1. n \in Nat /\ DOMAIN rules = 1 .. n BY LenProperties
  <2>2. healed \in Seq(Rules) /\ DOMAIN healed = DOMAIN rules BY NormalizedTyped
  <2>3. DOMAIN healed = 1 .. Len(healed) /\ Len(healed) \in Nat
    <3> HIDE DEF healed
    <3> QED BY <2>2, LenProperties
  <2>4. Len(healed) = n
    <3> HIDE DEF healed, n
    <3> QED BY <2>1, <2>2, <2>3
  <2> QED BY <2>1, <2>2, <2>4
<1>2. ASSUME NEW i \in 1 .. n
      PROVE /\ rules[i] \in Rules /\ healed[i].whole /\ OutputsOf(healed[i]) = OutputsOf(rules[i])
            /\ Captures(healed[i], tx) <=> Captures(rules[i], tx)
            /\ MatchesTransaction(rules[i], tx) <=> rules[i].shaped /\ Captures(rules[i], tx)
  <2>1. rules[i] \in Rules BY <1>1, RulesIn
  <2>2. healed[i] = [rules[i] EXCEPT !.whole = TRUE] BY <1>1 DEF Normalized
  <2>3. /\ healed[i].whole /\ healed[i].type = rules[i].type /\ healed[i].words = rules[i].words
        /\ healed[i].shaped = rules[i].shaped /\ healed[i].category = rules[i].category
        /\ healed[i].payee = rules[i].payee /\ healed[i].label = rules[i].label
    BY <2>1, <2>2 DEF Rules
  <2>4. rules[i].shaped => rules[i].type # None \/ rules[i].words # << >> BY <2>1 DEF Rules
  <2>5. rules[i].shaped \in BOOLEAN BY <2>1 DEF Rules
  <2> HIDE DEF healed
  <2>6. MatchesTransaction(rules[i], tx) <=> rules[i].shaped /\ Captures(rules[i], tx)
    BY <2>4, <2>5 DEF Captures, MatchesTransaction
  <2> QED BY <2>1, <2>3, <2>6 DEF OutputsOf, Captures
<1> HIDE DEF healed, n
<1>3. Deciding(healed, tx) = {i \in 1 .. n : Captures(rules[i], tx)} BY <1>1, <1>2 DEF Deciding
<1>4. claims = {i \in 1 .. n : rules[i].shaped /\ Captures(rules[i], tx)}
  BY <1>1, <1>2 DEF MatchedByRules
<1>5. CASE Deciding(healed, tx) = {}
  <2>1. claims = {} BY <1>3, <1>4, <1>5
  <2>2. Decision(healed, tx) = Nothing BY <1>1, <1>5, DecisionFirst
  <2> QED BY <2>1, <2>2 DEF Listed, healed
<1>6. CASE Deciding(healed, tx) # {}
  <2>1. PICK i \in Deciding(healed, tx) : \A j \in Deciding(healed, tx) : i <= j
    BY <1>1, <1>6, DecisionFirst
  <2>2. i \in 1 .. n /\ Captures(rules[i], tx) BY <1>3, <2>1
  <2>3. rules[i].shaped
    <3> SUFFICES ASSUME ~rules[i].shaped PROVE FALSE OBVIOUS
    <3>1. PICK j \in 1 .. i : MatchesTransaction(rules[j], tx) BY <1>1, <2>2 DEF Unclear
    <3>2. j \in 1 .. n /\ j <= i BY <1>1, <2>2
    <3>3. rules[j].shaped /\ j \in Deciding(healed, tx) BY <1>2, <1>3, <3>1, <3>2
    <3>4. i <= j BY <2>1, <3>3
    <3>5. i = j BY <1>1, <2>2, <3>2, <3>4
    <3> QED BY <3>3, <3>5
  <2>4. i \in claims /\ \A j \in claims : i <= j BY <1>3, <1>4, <2>1, <2>2, <2>3
  <2>5. NextOf(claims) = i
    <3>1. claims \in SUBSET Nat BY <1>1, <1>4
    <3> HIDE DEF claims
    <3> DEFINE k == NextOf(claims)
    <3>2. k \in claims /\ \A j \in claims : k <= j BY <2>4, <3>1, NextIsThere
    <3> HIDE DEF k
    <3>3. k \in Nat /\ i \in Nat /\ k <= i /\ i <= k BY <2>4, <3>1, <3>2
    <3>4. k = i BY <3>3
    <3> QED BY <3>4 DEF k
  <2>6. Listed(rules, tx) = OutputsOf(rules[i]) BY <2>4, <2>5 DEF Listed
  <2>7. Decision(healed, tx) = OutputsOf(healed[i]) BY <1>1, <2>1, DecisionFirst
  <2>8. OutputsOf(healed[i]) = OutputsOf(rules[i]) BY <1>2, <2>2
  <2> QED BY <2>6, <2>7, <2>8 DEF healed
<1> QED BY <1>5, <1>6

LEMMA PassAsListed == TypeInv /\ PassInv => AsListed
<1> SUFFICES ASSUME TypeInv, PassInv, pass.at = "done", NEW d \in Active, pass.alone,
                    Cardinality(Active) = 1
             PROVE /\ \A t \in Txs \ pass.failed :
                        \/ Unclear(docs[d].rules, pass.snap[t])
                        \/ AsDecided(t, Listed(docs[d].rules, pass.snap[t]))
                   /\ \A t \in pass.failed : TagNames(txs[t]) = TagNames(pass.snap[t])
                   /\ \A t \in pass.linked : docs[d].auto /\ ~pass.snap[t].linked /\ txs[t].linked
                   /\ ~docs[d].auto => \A t \in Txs : txs[t].linked = pass.snap[t].linked
  BY DEF AsListed
<1>1. pass # Idle /\ Fields BY PassFields DEF Idle, TypeInv
<1>2. PICK e \in Active : pass.rules = Healed(docs[e].rules) /\ pass.auto = docs[e].auto
  BY <1>1 DEF PassInv, Read
<1>3. e = d
  <2>1. IsFiniteSet(Active)
    <3>1. Active \in SUBSET Docs /\ IsFiniteSet(Docs) BY BookIds DEF Active, Kept
    <3> QED BY <3>1, FS_Subset
  <2>2. PICK x : Active = {x} BY <2>1, FS_Singleton
  <2> QED BY <2>2
<1>4. docs[d].rules \in Seq(Rules) BY DEF TypeInv, TypeOfDocs, Documents, Active, Kept
<1>5. (\A t \in Txs : PassOn(t)) /\ pass.todo = {} /\ pass.wanted = {} BY <1>1 DEF PassInv
<1>6. ASSUME NEW t \in Txs, t \notin pass.failed, ~Unclear(docs[d].rules, pass.snap[t])
      PROVE AsDecided(t, Listed(docs[d].rules, pass.snap[t]))
  <2>1. Listed(docs[d].rules, pass.snap[t]) = Decision(pass.rules, pass.snap[t])
    BY <1>2, <1>3, <1>4, <1>6, ListedDecides DEF Healed
  <2>2. PICK out \in Outcomes, c \in BOOLEAN, p \in BOOLEAN :
          /\ out = Decision(pass.rules, pass.snap[t])
          /\ c = SetsCategory(out, pass.snap[t]) /\ p = SetsPayee(out, pass.snap[t])
          /\ Progress(t, out, c, p)
    BY <1>5 DEF PassOn
  <2>3. /\ txs[t].category = IF c THEN out.category ELSE pass.snap[t].category
        /\ txs[t].payee = IF p THEN out.payee ELSE pass.snap[t].payee
        /\ TagNames(txs[t]) = TagNames(pass.snap[t])
             \cup (IF c \/ p \/ t \in pass.linked THEN {out.label} \ ({None} \cup pass.missed) ELSE {})
    <3>1. /\ txs[t].category = IF c THEN out.category ELSE pass.snap[t].category
          /\ txs[t].payee = IF p THEN out.payee ELSE pass.snap[t].payee
          /\ \/ /\ txs[t].tags = pass.snap[t].tags
                /\ Due(t, out, c, p) => out.label \in pass.missed
             \/ /\ Due(t, out, c, p) /\ out.label \notin pass.missed
                /\ TagNames(txs[t]) = TagNames(pass.snap[t]) \cup {out.label}
      BY <1>5, <1>6, <2>2 DEF Progress, Put
    <3> QED BY <3>1 DEF Due, TagNames
  <2>4. AsDecided(t, out) BY <2>2, <2>3 DEF AsDecided
  <2> QED BY <2>1, <2>2, <2>4
<1>7. ASSUME NEW t \in pass.failed PROVE TagNames(txs[t]) = TagNames(pass.snap[t])
  <2>1. t \in Txs BY <1>1 DEF Fields
  <2>2. txs[t].tags = pass.snap[t].tags BY <1>5, <2>1 DEF PassOn, Progress
  <2> QED BY <2>2 DEF TagNames
<1>8. ASSUME NEW t \in Txs PROVE Linked(t) BY <1>5 DEF PassOn
<1>9. pass.linked \subseteq Txs BY <1>1 DEF Fields
<1> QED BY <1>2, <1>3, <1>6, <1>7, <1>8, <1>9 DEF Linked

\* A pass that nobody disturbed leaves every transaction as the rules page says
\* its rules decide, read top to bottom, in fields nobody owns, and the rule's tag
\* on exactly those it changed, a transfer it linked among them; it links only what
\* was unlinked, and nothing where the document says not to.
THEOREM PassesAsListed == SearchSpec => []AsListed
<1>1. SearchInit => PassInv BY DEF SearchInit, Init, PassInv
<1>2. TypeInv /\ PassInv /\ [SearchNext]_<<vars, listing>> => PassInv' BY PassStep
<1> QED BY <1>1, <1>2, WellTyped, PassAsListed, PTL DEF SearchSpec

=============================================================================
