--------------------------- MODULE Budgets ---------------------------
(* A household's budgets: base budgets, the layers stacked on them and the
   items in either, with everything that writes them: the budget pages' forms
   (app/w/[workspace]/budgets), the chat's write tools
   (lib/server/chat/tools/budget-write) and the worker that turns a finished
   inference into rows (lib/server/budget/run, write), whose conversation and
   log are module Inference.

   A handler reads, waits, and writes: what it read is kept in `hand` until
   it writes.  A commitment is one per spending area (see Inference); an
   item's identity, streamKeyOf, is its commitment, or the bare area when no
   category and no payee are stored.  Figures, names, dates and currencies
   are left out, as is the resolving of a budget by name, which either finds
   one budget or refuses.                                                   *)
EXTENDS Inference, TLC

CONSTANTS Budgets,  \* budget ids the database may mint, in order
          Items,    \* item ids, likewise
          Hands,    \* who acts: "page" a form, "chat" a tool call
          Gone      \* what is left of a row once deleted: ids are never reused

ASSUME BudgetIds ==
  /\ IsFiniteSet(Budgets) /\ Budgets \subseteq Nat
  /\ IsFiniteSet(Items) /\ Items = 1 .. Cardinality(Items)
  /\ {"page", "chat"} \subseteq Hands

\* What the tables hold.
Runs == [status : States, target : Budgets \cup {None}, thread : Threads \cup {None},
         stop : BOOLEAN, other : BOOLEAN]
BudgetRows ==
  [base : Budgets \cup {None}, origin : {"user", "inferred"}, forecast : BOOLEAN, live : BOOLEAN]
Figures == {"typed", "guessed", "copied", "blended"}
Sources == {"ai", "computed", None}
Contents == [about : Areas, bare : BOOLEAN, inferred : BOOLEAN, source : Sources, figure : Figures]
ItemRows ==
  [budget : Budgets, about : Areas, bare : BOOLEAN, inferred : BOOLEAN, source : Sources, figure : Figures]
ASSUME NothingThere ==
  /\ None \notin Runs \cup Budgets \cup BudgetRows \cup ItemRows
  /\ Gone \notin BudgetRows \cup ItemRows \cup {None}

VARIABLES
  plan,   \* each Budget row: [base, origin, forecast, live], None, or Gone
  rows,   \* each BudgetItem row: [budget, about, bare, inferred, source, figure], None, or Gone
  hand,   \* each handler between its read and its write
  ops,    \* bound: operations each of them may still start
  kept,   \* the worker's: the identities of the hand-edited rows it read
  readAt  \* history: those rows, each with its identity, as they were then

budgetVars == <<plan, rows, hand, ops, kept, readAt>>
vars == <<inferVars, budgetVars>>

Existing == {b \in Budgets : plan[b] \notin {None, Gone}}
Present == {i \in Items : rows[i] \notin {None, Gone}}
ItemsOf(b) == {i \in Present : rows[i].budget = b}
IsBase(b)  == b \in Existing /\ plan[b].base = None
LayersOf(b) == {l \in Existing : plan[l].base = b}
NewBudgets == {b \in Budgets : plan[b] = None}
NewItems   == {i \in Items : rows[i] = None}
NextOf(S)   == CHOOSE i \in S : \A j \in S : i <= j
Free    == [op |-> "free"]

\* streamKeyOf
Key(row) == <<row.about, row.bare>>

--------------------------------------------------------------------------
(* What the tables do by themselves.                                       *)

\* A row is stored in a budget, its own or another.
In(b, row) ==
  [budget |-> b, about |-> row.about, bare |-> row.bare, inferred |-> row.inferred,
   source |-> row.source, figure |-> row.figure]
\* Inserting rows: ids are never used again.
PlacedAfter(n, b, new) ==
  [i \in Items |-> IF i \in n + 1 .. n + Len(new) THEN In(b, new[i - n]) ELSE rows[i]]
Placed(b, new) == PlacedAfter(Cardinality(Items \ NewItems), b, SetToSeq(new))
Room(new) == Cardinality(new) <= Cardinality(NewItems)

\* Budget rows cascade: a base takes its layers, a budget its items; a run
\* pointing at one is left pointing at none.
Swept(b) == {b} \cup LayersOf(b)
DeleteBudgetRow(b) ==
  /\ plan' = [c \in Budgets |-> IF c \in Swept(b) THEN Gone ELSE plan[c]]
  /\ rows' = [i \in Items |-> IF i \in Present /\ rows[i].budget \in Swept(b)
                              THEN Gone ELSE rows[i]]
  /\ run' = IF run # None /\ run.target \in Swept(b) THEN [run EXCEPT !.target = None] ELSE run
  /\ UNCHANGED <<log, talk, teller, taker, left, loose, lost>>

Base(live, forecast) == [base |-> None, origin |-> "user", forecast |-> forecast, live |-> live]
Layer(b, live) == [base |-> b, origin |-> "user", forecast |-> FALSE, live |-> live]

\* A row as a person types it, as a chat writes it, as the seeder does (itemRow).
Typed(a, bare) == [about |-> a, bare |-> bare, inferred |-> FALSE, source |-> None,
                   figure |-> "typed"]
Chatted(a, bare) == [about |-> a, bare |-> bare, inferred |-> FALSE, source |-> "ai",
                     figure |-> "guessed"]
Seeded(row) == [about |-> row.about, bare |-> row.bare, inferred |-> TRUE,
                source |-> row.source, figure |-> "guessed"]

\* A handler starts, holding what it read; it ends, whatever it wrote.
Begin(h, op) ==
  /\ hand[h] = Free /\ ops[h] > 0
  /\ ops' = [ops EXCEPT ![h] = @ - 1]
  /\ hand' = [hand EXCEPT ![h] = op]
Reads == UNCHANGED <<plan, rows, kept, readAt, inferVars>>
AtOnce(h) == Begin(h, Free) /\ UNCHANGED <<kept, readAt>>
Ends(h) == hand' = [hand EXCEPT ![h] = Free] /\ UNCHANGED <<ops, kept, readAt>>
Does(h, op) == hand[h] # Free /\ hand[h].op = op

--------------------------------------------------------------------------
(* The pages.                                                              *)

\* What a budget's page offers, by what it is: settings.tsx, layers.tsx.  The
\* page may be stale when its form is posted, but neither a budget's origin
\* nor whether it is a layer ever changes.
OtherBases(b) == {c \in Existing : plan[c].base = None /\ c # plan[b].base}
Offered(b) ==
  {"save", "duplicate", "delete"}
    \cup (IF IsBase(b) THEN {"forecast", "addLayer"} ELSE {})
    \cup (IF plan[b].origin = "inferred" THEN {"reinfer", "refine"} ELSE {})
    \cup (IF ~IsBase(b) /\ OtherBases(b) # {} THEN {"move", "copyTo"} ELSE {})

\* createBudget
CreateBudget ==
  /\ NewBudgets # {} /\ AtOnce("page")
  /\ \E live, forecast \in BOOLEAN :
       plan' = [plan EXCEPT ![NextOf(NewBudgets)] = Base(live, forecast)]
  /\ UNCHANGED <<rows, inferVars>>

\* What the budget form may post over a budget: whether it is in force and
\* whether it is the forecast, whatever the budget is.
Posted(budget) ==
  {[budget EXCEPT !.live = live, !.forecast = forecast] : live, forecast \in BOOLEAN}

\* updateBudget and toggleBudgetForecast: the row is found, then written; a row
\* deleted in between throws.  The form posts the whole budget, layer or not.
FindBudget ==
  /\ \E b \in Existing : \E op \in {"save", "forecast"} \cap Offered(b) :
       Begin("page", [op |-> op, b |-> b, forecast |-> plan[b].forecast])
  /\ Reads

SaveBudget ==
  /\ Does("page", "save")
  /\ LET b == hand["page"].b
     IN  plan' \in IF b \in Existing
                   THEN {[plan EXCEPT ![b] = budget] : budget \in Posted(plan[b])}
                   ELSE {plan}
  /\ Ends("page") /\ UNCHANGED <<rows, inferVars>>

ToggleForecast ==
  /\ Does("page", "forecast")
  /\ LET b == hand["page"].b
     IN  plan' = IF b \in Existing
                 THEN [plan EXCEPT ![b].forecast = ~hand["page"].forecast] ELSE plan
  /\ Ends("page") /\ UNCHANGED <<rows, inferVars>>

\* deleteBudget: "Delete ... and all its items?", and its layers with it.
DeleteBudget ==
  /\ AtOnce("page")
  /\ \E b \in Existing : DeleteBudgetRow(b)

\* duplicateBudget: the budget, its items and the base to copy onto are read;
\* one transaction writes the copy.  The base may be gone by then, which the
\* foreign key refuses.  Marks and provenance are not copied.
Copied(row) == [about |-> row.about, bare |-> row.bare, inferred |-> FALSE, source |-> None,
                figure |-> IF row.figure = "typed" THEN "typed" ELSE "copied"]
FindSource ==
  /\ \E b \in Existing :
       \E onto \in {plan[b].base} \cup (IF "copyTo" \in Offered(b) THEN OtherBases(b) ELSE {}) :
         Begin("page", [op |-> "duplicate", onto |-> onto, live |-> plan[b].live,
                        items |-> {Copied(rows[i]) : i \in ItemsOf(b)}])
  /\ Reads

\* A budget or a layer with its items, in one transaction; a base that is gone
\* fails the whole of it.
Insert(budget, items) ==
  /\ NewBudgets # {} /\ Room(items)
  /\ IF budget.base = None \/ budget.base \in Existing
     THEN /\ plan' = [plan EXCEPT ![NextOf(NewBudgets)] = budget]
          /\ rows' = Placed(NextOf(NewBudgets), items)
     ELSE UNCHANGED <<plan, rows>>

WriteCopy ==
  /\ Does("page", "duplicate")
  /\ LET copy == hand["page"] IN Insert(Layer(copy.onto, copy.live), copy.items)
  /\ Ends("page") /\ UNCHANGED inferVars

\* createLayer, by the form: an empty one.
FindBase ==
  /\ \E b \in Existing : /\ plan[b].base = None
                         /\ Begin("page", [op |-> "layer", b |-> b])
  /\ Reads

CreateLayer ==
  /\ Does("page", "layer")
  /\ \E live \in BOOLEAN : Insert(Layer(hand["page"].b, live), {})
  /\ Ends("page") /\ UNCHANGED inferVars

\* moveLayerToBase: the layer and the base are read one after the other, but
\* what is read of each, whether it is a layer, never changes.
MayCarry(b, target) == plan[b].base # None /\ plan[target].base = None
FindLayer ==
  /\ \E b, target \in Existing :
       /\ MayCarry(b, target)
       /\ Begin("page", [op |-> "move", b |-> b, onto |-> target])
  /\ Reads

\* The write of both move and the chat's update_budget.
Moved(b, onto) == IF b \in Existing /\ onto \in Existing
                  THEN [plan EXCEPT ![b].base = onto] ELSE plan
MoveLayer ==
  /\ Does("page", "move")
  /\ plan' = Moved(hand["page"].b, hand["page"].onto)
  /\ Ends("page") /\ UNCHANGED <<rows, inferVars>>

\* createBudgetItem: the budget is found, the form validated, the row written.
FindBudgetForItem ==
  /\ \E b \in Existing : Begin("page", [op |-> "item", b |-> b])
  /\ Reads

\* What an item's form may post: a group, and a category and a payee or neither.
FormRows == {Typed(a, bare) : a \in Areas, bare \in BOOLEAN}

AddItems(b, items) ==
  /\ Room(items)
  /\ rows' = IF b \in Existing THEN Placed(b, items) ELSE rows

CreateItem ==
  /\ Does("page", "item")
  /\ \E row \in FormRows : AddItems(hand["page"].b, {row})
  /\ Ends("page") /\ UNCHANGED <<plan, inferVars>>

\* An item's form opens with the row as the page has it, one row at a time,
\* and posts the whole of it: updateBudgetItem.
OpenItemForm ==
  /\ \E i \in Present : Begin("page", [op |-> "edit", i |-> i])
  /\ Reads

SaveItem ==
  /\ Does("page", "edit")
  /\ LET i == hand["page"].i
     IN  rows' \in IF i \in Present
                   THEN {[rows EXCEPT ![i] = In(rows[i].budget, row)] : row \in FormRows}
                   ELSE {rows}
  /\ Ends("page") /\ UNCHANGED <<plan, inferVars>>

\* deleteBudgetItem, and the chat's delete_budget_item.
DeleteItem ==
  /\ \E h \in Hands : AtOnce(h)
  /\ \E i \in Present : rows' = [rows EXCEPT ![i] = Gone]
  /\ UNCHANGED <<plan, inferVars>>

\* refineBudgetTowardActuals: the figures that would move are computed from the
\* items and the recent transactions of the same identity; one transaction
\* writes them, and fails whole if an item is gone by then.
Refinable(b) == {i \in ItemsOf(b) : ~rows[i].bare /\ rows[i].about \in Detected}
ComputeRefinements ==
  /\ \E b \in Existing :
       /\ "refine" \in Offered(b) /\ Refinable(b) # {}
       /\ Begin("page", [op |-> "refine", items |-> Refinable(b)])
  /\ Reads

Refine ==
  /\ Does("page", "refine")
  /\ LET moved == hand["page"].items
     IN  rows' = IF moved \subseteq Present
                 THEN [i \in Items |-> IF i \in moved
                                       THEN [rows[i] EXCEPT !.figure = "blended"] ELSE rows[i]]
                 ELSE rows
  /\ Ends("page") /\ UNCHANGED <<plan, inferVars>>

\* reinferBudget and startBudgetInference: a queued run, for this budget or for
\* a new one.  (The queue keeps one per budget: here, one in all.)
AskForRun ==
  /\ ~Awaiting
  /\ left.asks > 0 /\ left' = [left EXCEPT !.asks = @ - 1]
  /\ AtOnce("page")
  /\ \E target \in {b \in Existing : "reinfer" \in Offered(b)} \cup {None} :
       run' = [status |-> "queued", target |-> target, thread |-> None, stop |-> FALSE, other |-> FALSE]
  /\ talk' = [talk EXCEPT !.row = "gone"]
  /\ UNCHANGED <<plan, rows, log, teller, taker, loose, lost>>

--------------------------------------------------------------------------
(* The chat's tools.  A batch of items is resolved a row at a time, and one
   that resolves to nothing is refused.                                      *)

Batches == {{Chatted(a, bare)} : a \in Areas, bare \in BOOLEAN}

\* create_budget
ChatCreateBudget ==
  /\ AtOnce("chat")
  /\ \E live \in BOOLEAN, items \in Batches : Insert(Base(live, FALSE), items)
  /\ UNCHANGED inferVars

\* create_layer: "an empty layer is a real thing to make".
ChatFindBase ==
  /\ \E b \in Existing : plan[b].base = None /\ Begin("chat", [op |-> "layer", b |-> b])
  /\ Reads

ChatCreateLayer ==
  /\ Does("chat", "layer")
  /\ \E live \in BOOLEAN, items \in Batches \cup {{}} :
       Insert(Layer(hand["chat"].b, live), items)
  /\ Ends("chat") /\ UNCHANGED inferVars

\* update_budget: "only a layer can be moved, and only onto a base".
ChatFindBudget ==
  /\ \E b \in Existing : \E onto \in {None} \cup {t \in Existing : MayCarry(b, t)} :
       Begin("chat", [op |-> "update", b |-> b, onto |-> onto])
  /\ Reads

ChatUpdateBudget ==
  /\ Does("chat", "update")
  /\ LET b == hand["chat"].b  onto == hand["chat"].onto
     IN  \/ onto # None /\ plan' = Moved(b, onto)
         \/ onto = None /\ plan' = IF b \in Existing THEN [plan EXCEPT ![b].live = ~@] ELSE plan
  /\ Ends("chat") /\ UNCHANGED <<rows, inferVars>>

\* delete_budget: the layers that would go too are listed, and asked about.
MayDelete(b, agreed) == LayersOf(b) = {} \/ agreed
ChatListLayers ==
  /\ \E b \in Existing, agreed \in BOOLEAN :
       /\ MayDelete(b, agreed)
       /\ Begin("chat", [op |-> "delete", b |-> b, agreed |-> agreed])
  /\ Reads

ChatDeleteBudget ==
  /\ Does("chat", "delete")
  /\ IF hand["chat"].b \in Existing THEN DeleteBudgetRow(hand["chat"].b)
     ELSE UNCHANGED <<plan, rows, inferVars>>
  /\ Ends("chat")

\* add_budget_items
ChatFindForItems ==
  /\ \E b \in Existing : Begin("chat", [op |-> "items", b |-> b])
  /\ Reads

ChatAddItems ==
  /\ Does("chat", "items")
  /\ \E items \in Batches : AddItems(hand["chat"].b, items)
  /\ Ends("chat") /\ UNCHANGED <<plan, inferVars>>

\* update_budget_item: the row is read, the change merged into it, resolved as
\* a new row would be, and written whole.  Its area is not for changing; a
\* figure left alone keeps being whoever's it was.
ChatReadItem ==
  /\ \E i \in Present : Begin("chat", [op |-> "change", i |-> i, row |-> rows[i]])
  /\ Reads

Merged(row, bare, figure) ==
  [row EXCEPT !.bare = bare, !.inferred = FALSE, !.source = "ai", !.figure = figure]
ChatUpdateItem ==
  /\ Does("chat", "change")
  /\ LET i == hand["chat"].i  seen == hand["chat"].row
     IN  rows' \in IF i \in Present
                   THEN {[rows EXCEPT ![i] = [Merged(seen, bare, figure)
                                               EXCEPT !.about = rows[i].about]] :
                           bare \in BOOLEAN, figure \in {seen.figure, "guessed"}}
                   ELSE {rows}
  /\ Ends("chat") /\ UNCHANGED <<plan, inferVars>>

--------------------------------------------------------------------------
(* The worker's half: from a proposal to rows.                              *)

Proposal == talk.items
Unhand == UNCHANGED <<hand, ops>>
Onward(at) == talk' = [talk EXCEPT !.at = at]

\* An empty proposal fails the run, stopped or not.
ProposeNothing ==
  /\ talk.at = "proposed" /\ Proposal = {}
  /\ Onward("failed")
  /\ UNCHANGED <<run, log, teller, taker, left, loose, lost, plan, rows, kept, readAt>> /\ Unhand

\* createInferredBudget
CreateInferred ==
  /\ talk.at = "proposed" /\ Proposal # {} /\ talk.target = None
  /\ Insert([Base(TRUE, FALSE) EXCEPT !.origin = "inferred"], {Seeded(r) : r \in Proposal})
  /\ talk' = [talk EXCEPT !.at = "closing", !.target = NextOf(NewBudgets)]
  /\ UNCHANGED <<run, log, teller, taker, left, loose, lost, kept, readAt>> /\ Unhand

\* A re-inference reads what people have taken over, before its transaction.
HandEdited(b) == {i \in ItemsOf(b) : ~rows[i].inferred}
ReadKept ==
  /\ talk.at = "proposed" /\ Proposal # {} /\ talk.target # None
  /\ IF talk.target \in Existing
     THEN /\ kept' = {Key(rows[i]) : i \in HandEdited(talk.target)}
          /\ readAt' = {<<i, Key(rows[i])>> : i \in HandEdited(talk.target)}
          /\ Onward("keeping")
     ELSE Onward("failed") /\ UNCHANGED <<kept, readAt>>
  /\ UNCHANGED <<run, log, teller, taker, left, loose, lost, plan, rows>> /\ Unhand

\* refreshInferred: one transaction.  A budget deleted since fails it.
Guesses(b) == {i \in ItemsOf(b) : rows[i].inferred}
Without(cleared, placed) == [i \in Items |-> IF i \in cleared THEN Gone ELSE placed[i]]
AddedAll == Proposal
Added == {r \in Proposal : Key(r) \notin kept}
Refresh ==
  /\ talk.at = "keeping"
  /\ LET b == talk.target  fresh == {Seeded(r) : r \in Added}  cleared == Guesses(b)
     IN  IF b \in Existing
         THEN /\ Room(fresh)
              /\ rows' = Without(cleared, Placed(b, fresh))
              /\ Onward("closing")
         ELSE Onward("failed") /\ UNCHANGED rows
  /\ UNCHANGED <<run, log, teller, taker, left, loose, lost, plan, kept, readAt>> /\ Unhand

--------------------------------------------------------------------------
\* A layer lies on a budget that lies on none.
Stacked ==
  \A l \in Existing : plan[l].base # None =>
    plan[l].base \in Existing /\ plan[plan[l].base].base = None
\* An item is an item of some budget.
Housed == \A i \in Present : rows[i].budget \in Existing

\* What there may be when the watching starts: any budgets, no run, one that was
\* asked for, or one whose proposal is ready to be written.
Household ==
  /\ plan \in [Budgets -> BudgetRows \cup {None, Gone}]
  /\ rows \in [Items -> ItemRows \cup {None, Gone}]
  /\ Stacked /\ Housed
  /\ Items \ NewItems = 1 .. Cardinality(Items \ NewItems)
  /\ run \in {None} \cup {r \in Runs : r.thread = None /\ ~r.other}
  /\ \/ talk = Quiet
     \/ /\ run # None => run.status = "running"
        /\ \E target \in Budgets \cup {None}, items \in SUBSET Commitments :
             talk = [Quiet EXCEPT !.at = "proposed", !.target = target, !.items = items,
                                  !.row = IF run = None THEN "gone" ELSE "held"]
  /\ left \in [{"typed", "asks", "deaths", "retries", "fails", "others"} -> Nat]
  /\ ops \in [Hands -> Nat]

Init ==
  /\ InferInit /\ Household
  /\ hand = [h \in Hands |-> Free]
  /\ kept = {} /\ readAt = {}

Pages == \/ CreateBudget \/ FindBudget \/ SaveBudget \/ ToggleForecast \/ DeleteBudget
         \/ FindSource \/ WriteCopy \/ FindBase \/ CreateLayer \/ FindLayer \/ MoveLayer
         \/ FindBudgetForItem \/ CreateItem \/ OpenItemForm \/ SaveItem \/ DeleteItem
         \/ ComputeRefinements \/ Refine \/ AskForRun
Chat  == \/ ChatCreateBudget \/ ChatFindBase \/ ChatCreateLayer \/ ChatFindBudget
         \/ ChatUpdateBudget \/ ChatListLayers \/ ChatDeleteBudget \/ ChatFindForItems
         \/ ChatAddItems \/ ChatReadItem \/ ChatUpdateItem
Writing == ProposeNothing \/ CreateInferred \/ ReadKept \/ Refresh
Alone  == UNCHANGED budgetVars
Worker == \/ Conversing /\ Alone
          \/ (CloseLog \/ Settle(talk.target \in Existing)) /\ Alone
          \/ Writing

Next ==
  \/ (Claim \/ Die \/ Reap \/ OtherClaims \/ OtherLinks \/ OtherSettles(Existing)) /\ Alone
  \/ Watching /\ Alone
  \/ Worker
  \/ Pages
  \/ Chat

\* The worker keeps going; nobody else need do anything.
Spec == Init /\ [][Next]_vars /\ WF_vars(Worker)

\* A refresh adds no row for a commitment a hand-edited row already covers, if
\* that row was so when the worker looked: nothing is counted twice.
StreamOnce ==
  [][talk.at = "keeping" /\ talk'.at = "closing" =>
       \A i \in HandEdited(talk.target) : <<i, Key(rows[i])>> \in readAt =>
         \A j \in NewItems : rows'[j] # None => Key(rows'[j]) # Key(rows[i])]_vars

======================================================================
