---- MODULE MCBudgets ----
(* Three scenes: people change budgets while a run writes to one of them,
   they ask for a run and go on, and a person talks to a run.              *)
EXTENDS Budgets

History(b, a, inferred) ==
  [budget |-> b, about |-> a, bare |-> FALSE, inferred |-> inferred,
   source |-> IF inferred THEN "computed" ELSE None,
   figure |-> IF inferred THEN "guessed" ELSE "typed"]

\* An inferred base with a guess and a hand-edited row, its layer, another base.
Given ==
  /\ plan = [b \in Budgets |->
       CASE b = 1 -> [base |-> None, origin |-> "inferred", forecast |-> FALSE, live |-> TRUE]
         [] b = 2 -> [base |-> 1, origin |-> "user", forecast |-> FALSE, live |-> FALSE]
         [] b = 3 -> [base |-> None, origin |-> "user", forecast |-> FALSE, live |-> FALSE]
         [] OTHER -> None]
  /\ LET a == CHOOSE a \in Areas : TRUE
         c == CHOOSE c \in Areas : c # a
     IN  rows = [i \in Items |-> CASE i = 1 -> History(1, a, TRUE)
                                   [] i = 2 -> History(1, c, FALSE)
                                   [] OTHER -> None]

Nobody(typed, asks, deaths, retries, fails, others) ==
  [typed |-> typed, asks |-> asks, deaths |-> deaths, retries |-> retries, fails |-> fails,
   others |-> others]
Queued(target) ==
  [status |-> "queued", target |-> target, thread |-> None, stop |-> FALSE, other |-> FALSE]

\* People change budgets while a run has its proposal ready.
Proposals == {Computed, FilledIn(Areas)}
ChangingScene ==
  /\ ops = [h \in Hands |-> 1]
  /\ left = Nobody(0, 0, 0, 0, 0, 0)
  /\ run = [Queued(1) EXCEPT !.status = "running"]
  /\ \E items \in Proposals :
       talk = [Quiet EXCEPT !.at = "proposed", !.target = 1, !.items = items, !.row = "held"]
\* They ask for a run, and change something while it works.
AskingScene ==
  /\ ops = [h \in Hands |-> IF h = "page" THEN 2 ELSE 0]
  /\ left = Nobody(0, 1, 0, 0, 0, 0)
  /\ run = None /\ talk = Quiet
\* A person talks to a run, or the run dies and is taken up again.
TalkingScene ==
  /\ ops = [h \in Hands |-> 0]
  /\ left \in {Nobody(2, 0, 0, 0, 0, 0), Nobody(0, 0, 1, 1, 0, 0), Nobody(0, 0, 0, 1, 1, 1)}
  /\ run = Queued(1) /\ talk = Quiet

MCInit == Given /\ (ChangingScene \/ AskingScene \/ TalkingScene) /\ Init
MCSpec == MCInit /\ [][Next]_vars /\ WF_vars(Worker)
====
