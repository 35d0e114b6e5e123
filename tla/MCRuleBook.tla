---- MODULE MCRuleBook ----
(* Six scenes: a household's first lessons, a book that is edited while the
   worker runs it, transactions changed by hand, tags, transfers, and a search. *)
EXTENDS Search

CONSTANTS debit, food, rent, Food, Rent, trip, Trip

MCTypes == {debit, transfer}
MCCatalog == (food :> Food) @@ (rent :> Rent)
MCNames == {trip, Trip}
MCFolded == (trip :> trip) @@ (Trip :> trip)

\* Words 1 to 3 name somebody; 4 says how, 5 is a reference.
Tx(words, category, owner, payee) ==
  [type |-> debit, words |-> words, category |-> category, owner |-> owner,
   payee |-> payee, powner |-> "akahu", tags |-> {}, linked |-> FALSE]
Ledger ==
  txs = [t \in Txs |-> CASE t = 1 -> Tx({1, 2, 3, 4}, food, "user", None)
                         [] t = 2 -> Tx({1, 2, 5}, None, "akahu", 1)
                         [] OTHER -> [Tx({1, 3}, rent, "akahu", None) EXCEPT !.linked = TRUE]]
Learned(id, words, c, p, label, shaped, whole) ==
  [Row(id, Match(debit, words), Outputs(c, p, label)) EXCEPT !.shaped = shaped, !.whole = whole]
\* A book taught over time: a row from before tags, one written by hand.
Book ==
  << Learned(1, <<2, 1>>, food, None, None, TRUE, FALSE),
     Learned(2, <<3>>, rent, 1, trip, TRUE, TRUE),
     Learned(3, <<1>>, None, 1, None, FALSE, TRUE) >>
Document(rules) == [slug |-> 1, active |-> TRUE, stamp |-> 0, rules |-> rules, auto |-> TRUE]
Holding(rules) ==
  docs = [d \in Docs |-> IF d = 1 THEN Document(rules) ELSE NoDocument] /\ minted = Len(rules)
Able(page, chat) == [h \in Hands |-> IF h = "page" THEN page ELSE chat]
No == Able(0, 0)
May(edits, enriches, tags, passes, fails) ==
  ops = [edit |-> edits, enrich |-> enriches, tag |-> tags, pass |-> passes, search |-> 0, fail |-> fails]
Payee == payees = [p \in Payees |-> IF p = 1 THEN trip ELSE None]
Tag == labels = [l \in Labels |-> IF l = 1 THEN trip ELSE None]
NoTag == labels = [l \in Labels |-> None]
NoBooks == docs = [d \in Docs |-> NoDocument] /\ minted = 0

FirstScene == NoBooks /\ NoTag /\ May(Able(1, 1), No, No, 0, 0)
BookScene ==
  /\ Holding(Book) /\ NoTag
  /\ \/ May(Able(1, 1), No, No, 0, 0)
     \/ May(Able(1, 0), No, No, 1, 0) \/ May(Able(0, 1), No, No, 1, 0)
EnrichScene == Holding(Book) /\ NoTag /\ May(No, Able(1, 1), No, 1, 0)
TagScene == Holding(SubSeq(Book, 1, 2)) /\ Tag /\ May(No, No, Able(1, 1), 1, 0)

\* Row 1 offsets either of the others, to within the two dollars of a fee.
MCLegs == (1 :> {2, 3}) @@ (2 :> {1}) @@ (3 :> {1})
\* Rows the book has nothing to add to but its tag, save for one's category.
Moved(t, type, linked) ==
  [Tx({3}, IF t = 2 THEN None ELSE rent, "rule", 1) EXCEPT !.type = type, !.linked = linked]
Moving == [Learned(1, <<3>>, rent, 1, trip, TRUE, TRUE) EXCEPT !.type = None]
TransferScene ==
  /\ \E auto \in BOOLEAN, types \in [Txs -> {debit, transfer}], linked \in SUBSET Txs :
       /\ docs = [d \in Docs |-> IF d = 1 THEN [Document(<<Moving>>) EXCEPT !.auto = auto] ELSE NoDocument]
       /\ txs = [t \in Txs |-> Moved(t, types[t], t \in linked)]
  /\ minted = 1 /\ NoTag /\ May(No, No, No, 2, 2)

\* Two rows of a day and of a size, one in, one out; filters that cross zero.
MCDay == (1 :> 1) @@ (2 :> 2) @@ (3 :> 2)
MCAmount == (1 :> 5) @@ (2 :> 0 - 5) @@ (3 :> 0 - 7)
MCFilters ==
  {Anything, [Anything EXCEPT !.transfers = TRUE], [Anything EXCEPT !.direction = "out"],
   [Anything EXCEPT !.direction = "out", !.min = 6, !.max = 0 - 7, !.transfers = TRUE],
   [Anything EXCEPT !.direction = "in", !.max = 7], [Anything EXCEPT !.min = 6],
   [Anything EXCEPT !.max = 6], [Anything EXCEPT !.text = Rent, !.transfers = TRUE],
   [Anything EXCEPT !.label = Trip, !.to = 2], [Anything EXCEPT !.category = Rent, !.unlabelled = TRUE],
   [Anything EXCEPT !.merchant = trip, !.transfers = TRUE], [Anything EXCEPT !.text = 1, !.type = debit, !.from = 2]}
SearchScene ==
  /\ Holding(SubSeq(Book, 1, 2)) /\ Tag
  /\ ops = [edit |-> No, enrich |-> Able(1, 0), tag |-> No, pass |-> 0, search |-> 1, fail |-> 0]

MCInit ==
  /\ Payee
  /\ \/ TransferScene
     \/ Ledger /\ (FirstScene \/ BookScene \/ EnrichScene \/ TagScene \/ SearchScene)
  /\ SearchInit
MCSpec == MCInit /\ [][SearchNext]_<<vars, listing>>
====
