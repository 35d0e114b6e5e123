--------------------------- MODULE Search ---------------------------
(* A chat reading the household's transactions page by page: the tools
   search_transactions and get_uncategorised_transactions
   (lib/server/chat/tools/transactions), beside everything RuleBook lets
   happen to the rows between two pages.

   Money is in one currency, the names of accounts and spending areas are left
   out, and a row's id orders rows as it does in RuleBook.                    *)
EXTENDS RuleBook

CONSTANTS Day,       \* [Txs -> Int]
          Amount,    \* [Txs -> Int]: money in above zero, money out below
          Filters,   \* what a chat narrows a search by
          Limits,    \* rows to a page
          MaxPages   \* bound: pages read

VARIABLE listing     \* the pages read so far

Unread == [on |-> FALSE]

--------------------------------------------------------------------------
(* A filter: [text, merchant, category, label, type, from, to, direction, min,
   max, uncategorised, unlabelled, transfers], None for what is left out.    *)

\* FILTERS, with nothing narrowed.
Anything ==
  [text |-> None, merchant |-> None, category |-> None, label |-> None, type |-> None,
   from |-> None, to |-> None, direction |-> None, min |-> None, max |-> None,
   uncategorised |-> None, unlabelled |-> FALSE, transfers |-> FALSE]

ASSUME SearchAssumption ==
  /\ Day \in [Txs -> Int] /\ Amount \in [Txs -> Int]
  /\ Limits \subseteq Nat /\ None \notin {"in", "out"}
  /\ \A f \in Filters : /\ DOMAIN f = DOMAIN Anything
                        /\ f.direction \in {"in", "out", None}
                        /\ f.min \in Int \cup {None} /\ f.max \in Int \cup {None}

\* nameExists: a name nothing goes by is an error, not an empty answer.
Resolves(f) ==
  /\ f.merchant # None => \E p \in Payees : payees[p] = f.merchant
  /\ f.category # None => \E c \in Cats : Catalog[c] = f.category
  /\ f.label # None => FoundLabels(f.label) # {}

PayeeName(t) == IF txs[t].payee = None THEN None ELSE payees[txs[t].payee]
CategoryName(t) == IF txs[t].category = None THEN None ELSE Catalog[txs[t].category]
Named(f, t) ==
  /\ f.merchant # None => PayeeName(t) = f.merchant
  /\ f.category # None => CategoryName(t) = f.category
  /\ f.label # None => FoundLabels(f.label) \cap txs[t].tags # {}
Told(f, t) ==
  /\ f.text # None => f.text \in txs[t].words \cup {PayeeName(t), CategoryName(t)}
  /\ f.type # None => txs[t].type = f.type
  /\ f.from # None => Day[t] >= f.from
  /\ f.to # None => Day[t] <= f.to
Awaits(f, t) ==
  /\ f.uncategorised # None => (txs[t].category = None) = f.uncategorised
  /\ f.unlabelled => txs[t].tags = {}
  /\ ~f.transfers => ~txs[t].linked /\ txs[t].type # transfer

\* Signed amounts against unsigned bounds: they swap and invert for money out;
\* with no direction a row passes on either side of zero.
AbsOf(n) == IF n < 0 THEN 0 - n ELSE n
Over(f, a) == (f.min # None => a >= AbsOf(f.min)) /\ (f.max # None => a <= AbsOf(f.max))
Under(f, a) == (f.min # None => a <= 0 - AbsOf(f.min)) /\ (f.max # None => a >= 0 - AbsOf(f.max))
Bounds(f, a) ==
  CASE f.direction = "in"  -> a > 0 /\ Over(f, a)
    [] f.direction = "out" -> a < 0 /\ Under(f, a)
    [] OTHER -> Over(f, a) \/ Under(f, a)

\* buildWhere
Where(f, t) == Named(f, t) /\ Told(f, t) /\ Awaits(f, t) /\ Bounds(f, Amount[t])

--------------------------------------------------------------------------
(* Pages.                                                                  *)

Key(sort, t) ==
  CASE sort = "date" -> Day[t] [] sort = "amount" -> Amount[t] [] sort = "size" -> AbsOf(Amount[t])
AheadByKey(sort, t, u) == Key(sort, t) > Key(sort, u)
\* Largest first; the id breaks every tie.
Ahead(sort, t, u) == Key(sort, t) > Key(sort, u) \/ (Key(sort, t) = Key(sort, u) /\ t > u)
\* Any order the database may answer in.
Orders(sort, rows) ==
  {s \in SetToSeqs(rows) : \A i, j \in DOMAIN s : i < j => ~Ahead(sort, s[j], s[i])}

Page(order, offset, limit) ==
  SubSeq(order, offset + 1, IF offset + limit < Len(order) THEN offset + limit ELSE Len(order))

\* search_transactions by date or by amount; get_uncategorised_transactions is
\* a search of the uncategorised rows, by size.
ByDay == {f \in Filters : f = [Anything EXCEPT !.from = f.from, !.to = f.to, !.direction = f.direction]}
Asked ==
  (Filters \X {"date", "amount"}) \cup ({[f EXCEPT !.uncategorised = TRUE] : f \in ByDay} \X {"size"})
SearchTransactions ==
  /\ ops.search > 0 /\ ops' = [ops EXCEPT !.search = @ - 1]
  /\ \E asked \in Asked, limit \in Limits :
       listing' = [on |-> TRUE, filter |-> asked[1], sort |-> asked[2], limit |-> limit,
                   seen |-> << >>, more |-> TRUE, pages |-> 0, steady |-> TRUE]
  /\ UNCHANGED <<bookVars, tagVars, payees, hand, pass>>

\* One call, its offset advanced by the rows returned so far.
ReadPage ==
  /\ listing.on /\ listing.more /\ listing.pages < MaxPages
  /\ hand["chat"] = Free
  /\ IF Resolves(listing.filter)
     THEN \E rows \in {{t \in Txs : Where(listing.filter, t)}} :
          \E order \in Orders(listing.sort, rows) :
          \E page \in {Page(order, Len(listing.seen), listing.limit)} :
            listing' = [listing EXCEPT !.seen = @ \o page, !.pages = @ + 1,
                          !.more = Len(listing.seen) + Len(page) < Cardinality(rows)]
     ELSE listing' = [listing EXCEPT !.more = FALSE, !.steady = FALSE]
  /\ UNCHANGED vars

SearchInit == Init /\ listing = Unread
SearchNext ==
  \/ SearchTransactions \/ ReadPage
  \/ /\ Next
     /\ listing' = IF listing.on /\ <<txs, labels, payees>>' # <<txs, labels, payees>>
                   THEN [listing EXCEPT !.steady = FALSE] ELSE listing
SearchSpec == SearchInit /\ [][SearchNext]_<<vars, listing>>

--------------------------------------------------------------------------
\* What the words of the parameters ask of a row.
Means(f, t) ==
  /\ Named(f, t) /\ Told(f, t) /\ Awaits(f, t)
  /\ f.direction = "in" => Amount[t] > 0
  /\ f.direction = "out" => Amount[t] < 0
  /\ Over(f, AbsOf(Amount[t]))
Uncapped(f) == f.max # None /\ f.min = None /\ f.direction = None

\* A listing read to its end while nothing changed holds every row the filter
\* means, once, and in the order asked for.  "Means" is the words of the
\* parameters: a bound is on the size of the amount, "as a positive number
\* regardless of direction".  An upper bound alone, on both directions, is not
\* held to it: it lets every row through.
PagesWhole ==
  listing.on /\ ~listing.more /\ listing.steady =>
    /\ IsInjective(listing.seen)
    /\ ~Uncapped(listing.filter) =>
         ToSet(listing.seen) = {t \in Txs : Means(listing.filter, t)}
    /\ \A i, j \in DOMAIN listing.seen :
         i < j => Key(listing.sort, listing.seen[i]) >= Key(listing.sort, listing.seen[j])
=====================================================================
