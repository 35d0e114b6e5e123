--------------------------- MODULE BudgetsProofs ---------------------------
(* What holds of the budgets and of a run's log, whatever people and a worker *)
(* do to them (Budgets, Inference).                                           *)
EXTENDS Budgets, FiniteSetTheorems, SequenceTheorems, WellFoundedInduction, TLAPS

-----------------------------------------------------------------------------
(* Shapes.                                                                  *)

Stages == {"idle", "claimed", "opened", "ready", "listening", "asking", "over", "computing",
           "proposed", "keeping", "closing", "failed"}
Talks ==
  [at : Stages, thread : Threads \cup {None}, target : Budgets \cup {None}, step : Nat,
   nudges : Nat, accounted : SUBSET Nat, heard : Seq(Nat), due : SUBSET Nat,
   covered : SUBSET Areas, items : SUBSET Commitments, stopped : BOOLEAN,
   row : Rows]
Supplies == [{"typed", "asks", "deaths", "retries", "fails", "others"} -> Int]
TypeOfRun ==
  /\ run \in Runs \cup {None}
  /\ log \in [Threads -> Logs \cup {None}]
  /\ talk \in Talks
  /\ teller \in Threads \cup {None} /\ taker \in Threads \cup {None}
  /\ left \in Supplies
  /\ loose \subseteq Threads /\ lost \subseteq Threads

-----------------------------------------------------------------------------
(* Who writes a log.                                                        *)

\* Whoever names a log names one there is; while the row is a worker's alone it
\* says so; a person about to take over its log found no run naming it, or one
\* the worker had lost.
Named ==
  /\ talk.thread # None => talk.thread \in LogIds
  /\ run # None /\ run.thread # None => run.thread \in LogIds
  /\ teller # None => teller \in LogIds
  /\ taker # None => taker \in LogIds
RowHeld ==
  /\ talk.row # "gone" => run # None
  /\ talk.row = "held" => run.status = "running" /\ ~run.other
  /\ talk.row = "gone" /\ talk.thread # None => run = None \/ run.thread # talk.thread
HoldInv ==
  /\ Named /\ RowHeld
  /\ talk.thread # None => talk.at # "idle"
  /\ taker # None /\ taker = talk.thread => taker \in loose
  /\ OneWriter

-----------------------------------------------------------------------------
(* What was said.                                                           *)

Heard == {talk.heard[i] : i \in DOMAIN talk.heard}
\* What the worker has heard of the log it holds.
Listened(t) ==
  /\ talk.accounted \subseteq DOMAIN log[t].rows
  /\ Told(t) \cap talk.accounted = Heard
  /\ Users(t) \ talk.accounted \subseteq Told(t)
  /\ \A h \in Heard, j \in Users(t) \ talk.accounted : h < j
HearInv ==
  /\ talk.at \in {"claimed", "opened"} => talk.heard = << >> /\ talk.accounted = {}
  /\ talk.at \in {"ready", "listening", "asking"} /\ talk.thread = None => talk.heard = << >>
  /\ \A t \in Threads : t = talk.thread => Listened(t)
  /\ talk.at \in {"listening", "asking"} => talk.due = Heard
  /\ \A i, j \in DOMAIN talk.heard : i < j => talk.heard[i] < talk.heard[j]

-----------------------------------------------------------------------------
(* Numbers in order.                                                        *)

LEMMA FewerBelow ==
  ASSUME NEW S \in SUBSET Nat, IsFiniteSet(S), NEW i \in S, NEW j \in S, i < j
  PROVE Cardinality(Below(i, S)) < Cardinality(Below(j, S))
<1>1. Below(i, S) \in SUBSET S /\ Below(j, S) \in SUBSET S BY DEF Below
<1>2. IsFiniteSet(Below(i, S)) /\ IsFiniteSet(Below(j, S)) BY <1>1, FS_Subset
<1>3. Below(i, S) \in SUBSET Below(j, S) /\ Below(i, S) # Below(j, S)
  <2>1. i \in Below(j, S) /\ i \notin Below(i, S) BY DEF Below
  <2>2. \A k \in S : k < i => k < j OBVIOUS
  <2> QED BY <2>1, <2>2 DEF Below
<1>4. /\ Cardinality(Below(i, S)) <= Cardinality(Below(j, S))
      /\ Cardinality(Below(j, S)) # Cardinality(Below(i, S))
  BY <1>2, <1>3, FS_Subset
<1> QED BY <1>2, <1>4, FS_CardinalityType

LEMMA EachPlace ==
  ASSUME NEW S \in SUBSET Nat, IsFiniteSet(S)
  PROVE /\ Cardinality(S) \in Nat
        /\ \A k \in 1 .. Cardinality(S) : \E i \in S : Cardinality(Below(i, S)) = k - 1
        /\ \A i \in S : Cardinality(Below(i, S)) + 1 \in 1 .. Cardinality(S)
        /\ \A i, j \in S : Cardinality(Below(i, S)) = Cardinality(Below(j, S)) => i = j
<1> DEFINE n == Cardinality(S)
           place == [i \in S |-> Cardinality(Below(i, S)) + 1]
<1>1. n \in Nat BY FS_CardinalityType
<1>2. IsFiniteSet(1 .. n) /\ Cardinality(1 .. n) = n
  <2>1. IsFiniteSet(1 .. n) /\ Cardinality(1 .. n) = IF 1 > n THEN 0 ELSE n - 1 + 1
    BY <1>1, FS_Interval
  <2> QED BY <1>1, <2>1
<1>3. \A i \in S : Cardinality(Below(i, S)) + 1 \in 1 .. n
  <2> TAKE i \in S
  <2>1. Below(i, S) \in SUBSET S /\ Below(i, S) # S BY DEF Below
  <2>2. /\ Cardinality(Below(i, S)) <= n /\ IsFiniteSet(Below(i, S))
        /\ n # Cardinality(Below(i, S))
    BY <2>1, FS_Subset
  <2> QED BY <1>1, <2>2, FS_CardinalityType
<1>4. \A i, j \in S : Cardinality(Below(i, S)) = Cardinality(Below(j, S)) => i = j
  <2> SUFFICES ASSUME NEW i \in S, NEW j \in S, i # j
               PROVE Cardinality(Below(i, S)) # Cardinality(Below(j, S))
    OBVIOUS
  <2>1. /\ Below(i, S) \in SUBSET S /\ Below(j, S) \in SUBSET S BY DEF Below
  <2>2. Cardinality(Below(i, S)) \in Nat /\ Cardinality(Below(j, S)) \in Nat
    BY <2>1, FS_Subset, FS_CardinalityType
  <2>3. i < j \/ j < i OBVIOUS
  <2> QED BY <2>2, <2>3, FewerBelow
<1>5. place \in [S -> 1 .. n] BY <1>3
<1>6. \A i, j \in S : place[i] = place[j] => i = j
  <2> SUFFICES ASSUME NEW i \in S, NEW j \in S, place[i] = place[j] PROVE i = j OBVIOUS
  <2>1. Cardinality(Below(i, S)) + 1 \in 1 .. n /\ Cardinality(Below(j, S)) + 1 \in 1 .. n BY <1>3
  <2>2. Below(i, S) \in SUBSET S /\ Below(j, S) \in SUBSET S BY DEF Below
  <2>3. Cardinality(Below(i, S)) \in Nat /\ Cardinality(Below(j, S)) \in Nat
    BY <2>2, FS_Subset, FS_CardinalityType
  <2> QED BY <1>4, <2>1, <2>3
<1>7. place \in Injection(S, 1 .. n) BY <1>5, <1>6 DEF Injection, IsInjective
<1>8. place \in Surjection(S, 1 .. n)
  <2> HIDE DEF place
  <2> QED BY <1>2, <1>7, FS_Injection
<1>9. ASSUME NEW k \in 1 .. n PROVE \E i \in S : Cardinality(Below(i, S)) = k - 1
  <2>1. PICK i \in S : place[i] = k BY <1>8 DEF Surjection
  <2>2. Below(i, S) \in SUBSET S BY DEF Below
  <2>3. Cardinality(Below(i, S)) \in Nat BY <2>2, FS_Subset, FS_CardinalityType
  <2> QED BY <1>1, <2>1, <2>3
<1> QED BY <1>1, <1>3, <1>4, <1>9

\* InOrder lists each of some numbers once, the lower first.
LEMMA Sorted ==
  ASSUME NEW S \in SUBSET Nat, IsFiniteSet(S)
  PROVE /\ InOrder(S) \in Seq(Nat) /\ DOMAIN InOrder(S) = 1 .. Cardinality(S)
        /\ \A k \in DOMAIN InOrder(S) : InOrder(S)[k] \in S
        /\ \A i \in S : \E k \in DOMAIN InOrder(S) : InOrder(S)[k] = i
        /\ \A k, l \in DOMAIN InOrder(S) : k < l => InOrder(S)[k] < InOrder(S)[l]
<1> DEFINE n == Cardinality(S)
           At1(k) == CHOOSE i \in S : Cardinality(Below(i, S)) = k - 1
<1>1. n \in Nat BY FS_CardinalityType
<1>2. ASSUME NEW k \in 1 .. n PROVE At1(k) \in S /\ Cardinality(Below(At1(k), S)) = k - 1
  BY EachPlace
<1>3. InOrder(S) = [k \in 1 .. n |-> At1(k)] BY DEF InOrder
<1> HIDE DEF At1
<1>4. InOrder(S) \in Seq(Nat)
  <2>1. \A k \in 1 .. n : At1(k) \in Nat BY <1>2
  <2>2. [k \in 1 .. n |-> At1(k)] \in [1 .. n -> Nat] BY <2>1
  <2> QED BY <1>1, <1>3, <2>2
<1>5. ASSUME NEW i \in S PROVE \E k \in 1 .. n : At1(k) = i
  <2> DEFINE k == Cardinality(Below(i, S)) + 1
  <2>1. k \in 1 .. n BY EachPlace
  <2>2. At1(k) \in S /\ Cardinality(Below(At1(k), S)) = k - 1 BY <1>2, <2>1
  <2>3. Below(i, S) \in SUBSET S BY DEF Below
  <2>4. Cardinality(Below(i, S)) \in Nat BY <2>3, FS_Subset, FS_CardinalityType
  <2>5. Cardinality(Below(At1(k), S)) = Cardinality(Below(i, S)) BY <2>2, <2>4
  <2> QED BY <2>1, <2>2, <2>5, EachPlace
<1>6. ASSUME NEW k \in 1 .. n, NEW l \in 1 .. n, k < l PROVE At1(k) < At1(l)
  <2>1. /\ At1(k) \in S /\ Cardinality(Below(At1(k), S)) = k - 1
        /\ At1(l) \in S /\ Cardinality(Below(At1(l), S)) = l - 1
    BY <1>2
  <2>2. At1(k) \in Nat /\ At1(l) \in Nat BY <2>1
  <2>3. k \in Int /\ l \in Int /\ k - 1 < l - 1 BY <1>1, <1>6
  <2>4. At1(k) # At1(l) BY <2>1, <2>3
  <2>5. ~(At1(l) < At1(k))
    <3>1. SUFFICES ASSUME At1(l) < At1(k) PROVE FALSE OBVIOUS
    <3>2. Cardinality(Below(At1(l), S)) < Cardinality(Below(At1(k), S))
      BY <2>1, <3>1, FewerBelow
    <3> QED BY <2>1, <2>3, <3>2
  <2> QED BY <2>2, <2>4, <2>5
<1>7. DOMAIN InOrder(S) = 1 .. n /\ \A k \in 1 .. n : InOrder(S)[k] = At1(k) BY <1>3
<1> HIDE DEF n
<1> QED BY <1>2, <1>4, <1>5, <1>6, <1>7 DEF n

-----------------------------------------------------------------------------
(* Shapes are kept.                                                         *)

LEMMA LeastIsThere ==
  ASSUME NEW S \in SUBSET Nat, S # {}
  PROVE LET i == CHOOSE i \in S : \A j \in S : i <= j IN i \in S /\ \A j \in S : i <= j
<1>1. PICK i \in S : \A j \in S : <<j, i>> \notin OpToRel(<, Nat) BY NatLessThanWellFounded, WFMin
<1>2. \A j \in S : i \in Nat /\ j \in Nat /\ ~(j < i) BY <1>1 DEF OpToRel
<1>3. \A j \in S : i <= j BY <1>2
<1> QED BY <1>3

LEMMA AppendTyped ==
  ASSUME TypeOfRun, NEW t \in Threads \cup {None}, NEW kind \in Kinds, t # None => t \in LogIds
  PROVE /\ Append1(t, kind) \in [Threads -> Logs \cup {None}]
        /\ \A u \in Threads : u # t => Append1(t, kind)[u] = log[u]
        /\ t # None => /\ Append1(t, kind)[t] \in Logs
                       /\ Append1(t, kind)[t].rows = Append(log[t].rows, kind)
                       /\ Append1(t, kind)[t].unattended = log[t].unattended
                       /\ Append1(t, kind)[t].running = log[t].running
<1>1. CASE t = None BY <1>1, NoneIsNoLog DEF Append1, TypeOfRun
<1>2. CASE t # None
  <2>1. t \in Threads /\ log[t] \in Logs BY <1>2 DEF TypeOfRun, LogIds
  <2>2. Append1(t, kind) = [log EXCEPT ![t] = [log[t] EXCEPT !.rows = Append(log[t].rows, kind)]]
    BY <1>2 DEF Append1
  <2>3. Append(log[t].rows, kind) \in Seq(Kinds) BY <2>1 DEF Logs
  <2> DEFINE new == [log[t] EXCEPT !.rows = Append(log[t].rows, kind)]
  <2>4. /\ new \in Logs /\ new.rows = Append(log[t].rows, kind)
        /\ new.unattended = log[t].unattended /\ new.running = log[t].running
    BY <2>1, <2>3 DEF Logs
  <2> HIDE DEF new
  <2> QED BY <2>1, <2>2, <2>4 DEF TypeOfRun, new
<1> QED BY <1>1, <1>2

LEMMA AccountedTyped ==
  ASSUME TypeOfRun, NEW kind, talk.thread # None => talk.thread \in LogIds
  PROVE AccountedWith(talk.thread, kind) \in SUBSET Nat
<1>1. talk.accounted \in SUBSET Nat /\ talk.thread \in Threads \cup {None} BY DEF TypeOfRun, Talks
<1>2. CASE talk.thread = None BY <1>1, <1>2 DEF AccountedWith
<1>3. CASE talk.thread # None
  <2>1. log[talk.thread] \in Logs BY <1>1, <1>3 DEF TypeOfRun, LogIds
  <2>2. Len(log[talk.thread].rows) \in Nat BY <2>1 DEF Logs
  <2> QED BY <1>1, <2>2 DEF AccountedWith
<1> QED BY <1>2, <1>3

\* The worker claims, is done, dies or is started over.
LEMMA QuietTyped == Quiet \in Talks
BY NoneIsNoLog DEF Quiet, Talks, Stages, Rows

LEMMA ClaimTyped == ASSUME TypeOfRun, Claim PROVE TypeOfRun'
<1>1. run \in Runs /\ run' = [run EXCEPT !.status = "running"] BY DEF TypeOfRun, Claim
<1>2. run' \in Runs BY <1>1 DEF Runs, States
<1>3. run.target \in Budgets \cup {None} BY <1>1 DEF Runs
<1>4. talk' \in Talks BY <1>3, QuietTyped DEF Claim, Talks, Stages, Rows
<1> QED BY <1>2, <1>4 DEF TypeOfRun, Claim

\* All a step does to the conversation is say whose the row is now.
SameTalk == UNCHANGED <<talk.heard, talk.due, talk.accounted, talk.thread, talk.at>>
LEMMA RowMarked ==
  ASSUME TypeOfRun, NEW row \in Rows, talk' = [talk EXCEPT !.row = row]
  PROVE talk' \in Talks /\ talk'.row = row /\ SameTalk
BY DEF TypeOfRun, Talks, SameTalk

LEMMA DieTyped == ASSUME TypeOfRun, Die PROVE TypeOfRun'
<1>1. talk.thread \in Threads \cup {None} BY DEF TypeOfRun, Talks
<1>2. left' \in Supplies BY DEF TypeOfRun, Die, Supplies
<1>3. talk' \in Talks BY QuietTyped DEF Die
<1>4. lost' \subseteq Threads BY <1>1 DEF Die, TypeOfRun
<1> QED BY <1>2, <1>3, <1>4 DEF TypeOfRun, Die

\* The row in a reaper's hands, in another drainer's, or started over.
Elsewhere == Reap \/ OtherClaims \/ OtherLinks \/ OtherSettles(Existing) \/ RetryRun
LEMMA ElsewhereRow ==
  ASSUME TypeOfRun, Elsewhere
  PROVE /\ run \in Runs /\ run' \in Runs /\ run # None /\ run' # None
        /\ run'.thread \in {run.thread, None} /\ left' \in Supplies
<1>1. run \in Runs /\ run # None
  BY DEF Elsewhere, Reap, OtherClaims, OtherLinks, OtherSettles, RetryRun, Buttons, Awaiting, TypeOfRun
<1>2. CASE Reap
  <2>1. PICK status \in {"failed", "queued"} :
          /\ left' = IF status = "queued" THEN [left EXCEPT !.retries = @ - 1] ELSE left
          /\ run' = [run EXCEPT !.status = status]
    BY <1>2 DEF Reap
  <2>2. run' \in Runs /\ run'.thread = run.thread BY <1>1, <2>1 DEF Runs, States
  <2>3. left' \in Supplies BY <2>1 DEF TypeOfRun, Supplies
  <2> QED BY <1>1, <2>2, <2>3, NothingThere
<1>3. CASE OtherClaims
  <2>1. run' \in Runs /\ run'.thread = run.thread BY <1>1, <1>3 DEF OtherClaims, Runs, States
  <2>2. left' \in Supplies BY <1>3 DEF OtherClaims, TypeOfRun, Supplies
  <2> QED BY <1>1, <2>1, <2>2, NothingThere
<1>4. CASE OtherLinks
  <2>1. run' \in Runs /\ run'.thread = None BY <1>1, <1>4 DEF OtherLinks, Runs
  <2> QED BY <1>1, <1>4, <2>1, NothingThere DEF OtherLinks, TypeOfRun
<1>5. CASE OtherSettles(Existing)
  <2>1. PICK status \in {"done", "failed", "queued"}, b \in Existing \cup {None} :
          /\ left' = IF status = "queued" THEN [left EXCEPT !.retries = @ - 1] ELSE left
          /\ run' = [run EXCEPT !.status = status, !.other = FALSE,
                                !.target = IF status = "done" THEN b ELSE @]
    BY <1>5 DEF OtherSettles
  <2>2. b \in Budgets \cup {None} BY DEF Existing
  <2>3. run' \in Runs /\ run'.thread = run.thread BY <1>1, <2>1, <2>2 DEF Runs, States
  <2>4. left' \in Supplies BY <2>1 DEF TypeOfRun, Supplies
  <2> QED BY <1>1, <2>3, <2>4, NothingThere
<1>6. CASE RetryRun
  <2>1. run' \in Runs /\ run'.thread = run.thread BY <1>1, <1>6 DEF RetryRun, Runs, States
  <2>2. left' \in Supplies BY <1>6 DEF RetryRun, TypeOfRun, Supplies
  <2> QED BY <1>1, <2>1, <2>2, NothingThere
<1> QED BY <1>2, <1>3, <1>4, <1>5, <1>6 DEF Elsewhere

LEMMA ElsewhereTalk ==
  ASSUME TypeOfRun, Elsewhere
  PROVE /\ talk' \in Talks /\ SameTalk /\ UNCHANGED <<log, teller, taker, loose, lost>>
        /\ talk'.row = IF Reap /\ talk.row = "held" THEN "shared" ELSE talk.row
<1>1. talk \in Talks /\ talk.row \in Rows BY DEF TypeOfRun, Talks
<1>2. UNCHANGED <<log, teller, taker, loose, lost>>
  BY DEF Elsewhere, Reap, OtherClaims, OtherLinks, OtherSettles, RetryRun
<1>3. CASE Reap
  <2> DEFINE row == IF talk.row = "held" THEN "shared" ELSE talk.row
  <2>1. row \in Rows /\ talk' = [talk EXCEPT !.row = row] BY <1>1, <1>3 DEF Reap, SharedRow, Rows
  <2> HIDE DEF row
  <2>2. talk' \in Talks /\ talk'.row = row /\ SameTalk BY <2>1, RowMarked
  <2> QED BY <1>2, <1>3, <2>2 DEF row
<1>4. CASE ~Reap
  <2>1. talk' = talk BY <1>4 DEF Elsewhere, OtherClaims, OtherLinks, OtherSettles, RetryRun
  <2> QED BY <1>1, <1>2, <1>4, <2>1 DEF SameTalk
<1> QED BY <1>3, <1>4

LEMMA ElsewhereTyped == ASSUME TypeOfRun, Elsewhere PROVE TypeOfRun'
BY ElsewhereRow, ElsewhereTalk DEF TypeOfRun

LEMMA SettleTyped == ASSUME TypeOfRun, RowHeld, NEW stands, Settle(stands) PROVE TypeOfRun'
<1>1. PICK status \in {"done", "failed", "queued"} :
        /\ left' = IF status = "queued" THEN [left EXCEPT !.retries = @ - 1] ELSE left
        /\ run' = IF talk.row = "gone" THEN run
                  ELSE [run EXCEPT !.status = status,
                                   !.target = IF status = "done" THEN talk.target ELSE @]
  BY DEF Settle
<1>2. talk.target \in Budgets \cup {None} BY DEF TypeOfRun, Talks
<1>3. run' \in Runs \cup {None}
  <2>1. CASE talk.row = "gone" BY <1>1, <2>1 DEF TypeOfRun
  <2>2. CASE talk.row # "gone"
    <3>1. run \in Runs BY <2>2 DEF TypeOfRun, RowHeld
    <3> QED BY <1>1, <1>2, <2>2, <3>1 DEF Runs, States
  <2> QED BY <2>1, <2>2
<1>4. left' \in Supplies BY <1>1 DEF TypeOfRun, Supplies
<1> QED BY <1>3, <1>4, QuietTyped DEF TypeOfRun, Settle

LEMMA OpenTyped == ASSUME TypeOfRun, OpenLog PROVE TypeOfRun'
<1> DEFINE t == CHOOSE t \in Fresh : \A u \in Fresh : t <= u
<1>1. Fresh \in SUBSET Nat /\ Fresh # {} BY ThreadIds DEF OpenLog, Fresh
<1>2. t \in Fresh BY <1>1, LeastIsThere
<1> HIDE DEF t
<1>3. /\ log' = [log EXCEPT ![t] = [unattended |-> TRUE, running |-> TRUE, rows |-> << >>]]
      /\ talk' = [talk EXCEPT !.at = "opened", !.thread = t]
  BY DEF OpenLog, t
<1>4. t \in Threads BY <1>2 DEF Fresh
<1>5. [unattended |-> TRUE, running |-> TRUE, rows |-> << >>] \in Logs BY DEF Logs
<1>6. log' \in [Threads -> Logs \cup {None}] BY <1>3, <1>4, <1>5 DEF TypeOfRun
<1>7. talk' \in Talks BY <1>3, <1>4 DEF TypeOfRun, Talks, Stages
<1> QED BY <1>6, <1>7 DEF TypeOfRun, OpenLog

LEMMA OpenFailsTyped == ASSUME TypeOfRun, OpenFails PROVE TypeOfRun'
<1>1. talk.thread \in Threads \cup {None} BY DEF TypeOfRun, Talks
<1>2. left' \in Supplies BY DEF TypeOfRun, OpenFails, Supplies
<1>3. talk' \in Talks BY ZenonT(40) DEF TypeOfRun, OpenFails, Talks, Stages
<1>4. lost' \subseteq Threads BY <1>1 DEF OpenFails, TypeOfRun
<1> QED BY <1>2, <1>3, <1>4 DEF TypeOfRun, OpenFails

\* A round, as far as it changes what the worker holds.
LEMMA RoundTyped ==
  ASSUME talk \in Talks, NEW at \in Stages, NEW step \in Nat, NEW nudges \in Nat,
         NEW items \in SUBSET Commitments, NEW covered \in SUBSET Areas, NEW accounted \in SUBSET Nat
  PROVE [talk EXCEPT !.at = at, !.step = step, !.nudges = nudges, !.items = items,
                     !.covered = covered, !.accounted = accounted] \in Talks
BY DEF Talks

LEMMA TalkFields ==
  ASSUME TypeOfRun
  PROVE /\ talk \in Talks /\ talk.thread \in Threads \cup {None} /\ talk.target \in Budgets \cup {None}
        /\ talk.step \in Nat /\ talk.step + 1 \in Nat /\ talk.nudges \in Nat /\ talk.nudges + 1 \in Nat
        /\ talk.items \in SUBSET Commitments /\ talk.covered \in SUBSET Areas
        /\ talk.accounted \in SUBSET Nat /\ talk.heard \in Seq(Nat) /\ talk.row \in Rows
<1>1. talk \in Talks BY DEF TypeOfRun
<1>2. talk.step \in Nat /\ talk.nudges \in Nat BY <1>1 DEF Talks
<1> QED BY <1>1, <1>2 DEF Talks

\* What it says is a row of the log it holds.
LEMMA SaysTyped ==
  ASSUME TypeOfRun, Named, NEW kind \in Kinds
  PROVE Append1(talk.thread, kind) \in [Threads -> Logs \cup {None}]
<1>1. talk.thread \in Threads \cup {None} BY DEF TypeOfRun, Talks
<1> QED BY <1>1, AppendTyped DEF Named

LEMMA LinkTyped == ASSUME TypeOfRun, Named, RowHeld, LinkLog PROVE TypeOfRun'
<1>1. run' \in Runs \cup {None}
  <2>1. talk.thread \in Threads \cup {None} BY DEF TypeOfRun, Talks
  <2>2. CASE talk.row = "gone" BY <2>2 DEF LinkLog, TypeOfRun
  <2>3. CASE talk.row # "gone"
    <3>1. run \in Runs /\ run' = [run EXCEPT !.thread = talk.thread]
      BY <2>3 DEF TypeOfRun, LinkLog, RowHeld
    <3> QED BY <2>1, <3>1 DEF Runs
  <2> QED BY <2>2, <2>3
<1>2. AccountedWith(talk.thread, "asked") \in SUBSET Nat BY AccountedTyped DEF Named
<1>3. talk' \in Talks
  <2> DEFINE counted == AccountedWith(talk.thread, "asked")
  <2>1. \/ talk' = [talk EXCEPT !.at = "ready", !.accounted = counted]
        \/ talk' = [talk EXCEPT !.at = "computing"]
    BY DEF LinkLog
  <2>2. counted \in SUBSET Nat BY <1>2
  <2> HIDE DEF counted
  <2> QED BY <2>1, <2>2, TalkFields DEF Talks, Stages
<1>4. log' \in [Threads -> Logs \cup {None}] BY SaysTyped DEF LinkLog, Kinds
<1> QED BY <1>1, <1>3, <1>4 DEF TypeOfRun, LinkLog

LEMMA ListensTyped == ASSUME TypeOfRun, Named, LookForStop \/ Finish \/ ModelFails PROVE TypeOfRun'
<1>1. talk' \in Talks
  <2>1. CASE LookForStop
    <3>1. \/ talk' = [talk EXCEPT !.at = "over", !.stopped = TRUE]
          \/ talk' = [talk EXCEPT !.at = "asking"]
      BY <2>1 DEF LookForStop
    <3> QED BY <3>1, TalkFields DEF Talks, Stages
  <2>2. CASE Finish BY <2>2, TalkFields DEF Finish, Talks, Stages
  <2>3. CASE ModelFails BY <2>3, TalkFields DEF ModelFails, Talks, Stages
  <2> QED BY <2>1, <2>2, <2>3
<1>2. log' \in [Threads -> Logs \cup {None}]
  BY SaysTyped DEF LookForStop, Finish, ModelFails, Kinds, TypeOfRun
<1>3. left' \in Supplies BY DEF LookForStop, Finish, ModelFails, TypeOfRun, Supplies
<1> QED BY <1>1, <1>2, <1>3 DEF TypeOfRun, LookForStop, Finish, ModelFails

LEMMA ProposesTyped ==
  ASSUME NEW accepted \in {{}} \cup {{Proposed(a)} : a \in Areas}
  PROVE accepted \subseteq Commitments /\ {row.about : row \in accepted} \subseteq Areas
<1>1. CASE accepted = {} BY <1>1
<1>2. ASSUME NEW a \in Areas, accepted = {Proposed(a)}
      PROVE accepted \subseteq Commitments /\ {row.about : row \in accepted} \subseteq Areas
  <2>1. Proposed(a) \in Commitments /\ Proposed(a).about = a BY DEF Proposed, Commitments
  <2> QED BY <1>2, <2>1
<1> QED BY <1>1, <1>2

LEMMA CallTyped == ASSUME TypeOfRun, Named, CallTool PROVE TypeOfRun'
<1>1. PICK accepted \in {{}} \cup {{Proposed(a)} : a \in Areas} :
        talk' = [talk EXCEPT !.at = AfterRound, !.step = @ + 1, !.items = @ \cup accepted,
                             !.covered = @ \cup {row.about : row \in accepted}]
  BY DEF CallTool
<1> DEFINE areas == {row.about : row \in accepted}
<1>2. accepted \subseteq Commitments /\ areas \subseteq Areas BY ProposesTyped
<1>3. AfterRound \in Stages BY DEF AfterRound, Stages
<1>4. talk' = [talk EXCEPT !.at = AfterRound, !.step = talk.step + 1, !.nudges = talk.nudges,
                           !.items = talk.items \cup accepted,
                           !.covered = talk.covered \cup areas, !.accounted = talk.accounted]
  BY <1>1, TalkFields DEF Talks
<1> HIDE DEF areas
<1>5. talk' \in Talks
  <2>1. talk.items \cup accepted \in SUBSET Commitments /\ talk.covered \cup areas \in SUBSET Areas
    BY <1>2, TalkFields
  <2> QED BY <1>3, <1>4, <2>1, TalkFields, RoundTyped
<1>6. log' \in [Threads -> Logs \cup {None}] BY SaysTyped DEF CallTool, Kinds
<1> QED BY <1>5, <1>6 DEF TypeOfRun, CallTool

LEMMA SilenceTyped == ASSUME TypeOfRun, Named, SayNothing PROVE TypeOfRun'
<1>1. PICK salvaged \in {{}} \cup {{Proposed(a)} : a \in Areas}, done \in BOOLEAN :
        /\ talk' = [talk EXCEPT
             !.at = IF done THEN "over" ELSE AfterRound,
             !.step = @ + 1, !.items = @ \cup salvaged,
             !.covered = talk.covered \cup {row.about : row \in salvaged},
             !.nudges = IF done THEN @ ELSE @ + 1,
             !.accounted = IF done THEN @ ELSE AccountedWith(talk.thread, "asked")]
        /\ log' = Append1(talk.thread, IF done THEN "noted" ELSE "asked")
  BY DEF SayNothing
<1> DEFINE areas == {row.about : row \in salvaged}
           counted == AccountedWith(talk.thread, "asked")
           at == IF done THEN "over" ELSE AfterRound
<1>2. salvaged \subseteq Commitments /\ areas \subseteq Areas BY ProposesTyped
<1>3. at \in Stages BY DEF AfterRound, Stages
<1>4. counted \in SUBSET Nat BY AccountedTyped DEF Named
<1> DEFINE nudges == IF done THEN talk.nudges ELSE talk.nudges + 1
           accounted == IF done THEN talk.accounted ELSE counted
<1>5. talk' = [talk EXCEPT !.at = at, !.step = talk.step + 1, !.nudges = nudges,
                           !.items = talk.items \cup salvaged,
                           !.covered = talk.covered \cup areas, !.accounted = accounted]
  BY <1>1, TalkFields DEF Talks
<1>6. talk' \in Talks
  <2>1. talk.items \cup salvaged \in SUBSET Commitments /\ talk.covered \cup areas \in SUBSET Areas
    BY <1>2, TalkFields
  <2>2. nudges \in Nat /\ accounted \in SUBSET Nat BY <1>4, TalkFields
  <2> HIDE DEF areas, counted, at, nudges, accounted
  <2> QED BY <1>3, <1>5, <2>1, <2>2, TalkFields, RoundTyped
<1>7. log' \in [Threads -> Logs \cup {None}] BY <1>1, SaysTyped DEF Kinds
<1> QED BY <1>6, <1>7 DEF TypeOfRun, SayNothing

LEMMA ComputeTyped == ASSUME TypeOfRun, Compute PROVE TypeOfRun'
<1>1. \A a \in Detected : [about |-> a, bare |-> FALSE, source |-> "computed"] \in Commitments
  BY DetectedAreas DEF Commitments
<1>2. Computed \in SUBSET Commitments BY <1>1 DEF Computed
<1>3. talk' = [talk EXCEPT !.at = "proposed", !.items = Computed, !.stopped = FALSE, !.covered = {}]
  BY DEF Compute
<1>4. talk' \in Talks BY <1>2, <1>3, TalkFields DEF Talks, Stages
<1> QED BY <1>4 DEF TypeOfRun, Compute

LEMMA ResolveTyped == ASSUME TypeOfRun, Named, Resolve PROVE TypeOfRun'
<1> DEFINE rest == IF talk.stopped THEN {} ELSE FilledIn(Missed)
<1>1. rest \subseteq Commitments
  <2>1. \A a \in Detected : [about |-> a, bare |-> TRUE, source |-> "computed"] \in Commitments
    BY DetectedAreas DEF Commitments
  <2> QED BY <2>1 DEF FilledIn
<1>2. talk.items \subseteq Commitments BY DEF TypeOfRun, Talks
<1>3. PICK items \in Deduped(talk.items \cup rest) : talk' = [talk EXCEPT !.at = "proposed", !.items = items]
  BY DEF Resolve
<1>4. items \subseteq Commitments BY <1>1, <1>2, <1>3 DEF Deduped
<1>5. talk' \in Talks BY <1>3, <1>4 DEF TypeOfRun, Talks, Stages
<1>6. log' \in [Threads -> Logs \cup {None}] BY SaysTyped DEF Resolve, Kinds
<1> QED BY <1>5, <1>6 DEF TypeOfRun, Resolve

\* The user rows of a log are finitely many numbers.
LEMMA RowsOfLog ==
  ASSUME TypeOfRun, NEW t \in LogIds
  PROVE /\ log[t] \in Logs /\ DOMAIN log[t].rows = 1 .. Len(log[t].rows) /\ Len(log[t].rows) \in Nat
        /\ Users(t) \in SUBSET Nat /\ IsFiniteSet(Users(t))
        /\ Told(t) \in SUBSET Nat
<1>1. log[t] \in Logs BY DEF TypeOfRun, LogIds
<1>2. /\ log[t].rows \in Seq(Kinds) /\ DOMAIN log[t].rows = 1 .. Len(log[t].rows)
      /\ Len(log[t].rows) \in Nat
  BY <1>1 DEF Logs
<1>3. IsFiniteSet(1 .. Len(log[t].rows)) BY <1>2, FS_Interval
<1>4. Users(t) \in SUBSET (1 .. Len(log[t].rows)) /\ Told(t) \in SUBSET (1 .. Len(log[t].rows))
  BY <1>2 DEF Users, Told
<1>5. IsFiniteSet(Users(t)) BY <1>3, <1>4, FS_Subset
<1>6. 1 .. Len(log[t].rows) \in SUBSET Nat BY <1>2
<1> QED BY <1>1, <1>2, <1>4, <1>5, <1>6

LEMMA UnheardTyped ==
  ASSUME TypeOfRun, Named
  PROVE Unheard(talk.thread) \in SUBSET Nat /\ IsFiniteSet(Unheard(talk.thread))
<1>1. CASE talk.thread = None
  <2>1. Unheard(talk.thread) = {} BY <1>1 DEF Unheard
  <2> QED BY <2>1, FS_EmptySet
<1>2. CASE talk.thread # None
  <2>1. talk.thread \in LogIds BY <1>2 DEF Named
  <2>2. Unheard(talk.thread) \in SUBSET Users(talk.thread) BY <1>2 DEF Unheard
  <2> QED BY <2>1, <2>2, RowsOfLog, FS_Subset
<1> QED BY <1>1, <1>2

\* What hearing does to what the worker holds.
LEMMA Hears ==
  ASSUME TypeOfRun, Named, Hear
  PROVE LET new == Unheard(talk.thread)
        IN  /\ talk' \in Talks /\ talk'.at = "listening" /\ talk'.thread = talk.thread
            /\ talk'.accounted = talk.accounted \cup new
            /\ talk'.heard = talk.heard \o InOrder(new)
            /\ talk'.due = IF talk.thread = None THEN {} ELSE Told(talk.thread)
<1> DEFINE new == Unheard(talk.thread)
           due == IF talk.thread = None THEN {} ELSE Told(talk.thread)
           heard == talk.heard \o InOrder(new)
           counted == talk.accounted \cup new
<1>1. talk' = [talk EXCEPT !.at = "listening", !.accounted = counted, !.heard = heard, !.due = due]
  BY DEF Hear
<1>2. new \in SUBSET Nat /\ IsFiniteSet(new) BY UnheardTyped
<1>3. InOrder(new) \in Seq(Nat) BY <1>2, Sorted
<1>4. heard \in Seq(Nat) BY <1>3, TalkFields
<1>5. due \in SUBSET Nat
  <2>1. talk.thread # None => talk.thread \in LogIds BY DEF Named
  <2> QED BY <2>1, RowsOfLog
<1>6. counted \in SUBSET Nat BY <1>2, TalkFields
<1> HIDE DEF new, due, heard, counted
<1>7. /\ talk' \in Talks /\ talk'.at = "listening" /\ talk'.thread = talk.thread
      /\ talk'.accounted = counted /\ talk'.heard = heard /\ talk'.due = due
  BY <1>1, <1>4, <1>5, <1>6, TalkFields DEF Talks, Stages
<1> QED BY <1>7 DEF new, due, heard, counted

LEMMA HearTyped == ASSUME TypeOfRun, Named, Hear PROVE TypeOfRun'
<1>1. talk' \in Talks BY Hears
<1> QED BY <1>1 DEF TypeOfRun, Hear

LEMMA CloseTyped == ASSUME TypeOfRun, Named, CloseLog PROVE TypeOfRun'
<1>1. talk.thread \in Threads /\ log[talk.thread] \in Logs
  BY TalkFields DEF CloseLog, Named, LogIds, TypeOfRun
<1>2. log' = [log EXCEPT ![talk.thread] = [log[talk.thread] EXCEPT !.running = FALSE]]
  BY <1>1, NoneIsNoLog DEF CloseLog, Closed
<1>3. [log[talk.thread] EXCEPT !.running = FALSE] \in Logs BY <1>1 DEF Logs
<1>4. log' \in [Threads -> Logs \cup {None}] BY <1>1, <1>2, <1>3 DEF TypeOfRun
<1>5. talk' \in Talks BY TalkFields DEF CloseLog, Talks
<1> QED BY <1>4, <1>5 DEF TypeOfRun, CloseLog

LEMMA TellTyped == ASSUME TypeOfRun, Named, Tell PROVE TypeOfRun'
<1>1. teller \in LogIds BY DEF Tell, Named
<1>2. log' = Append1(teller, "told") BY DEF Tell, Append1
<1>3. log' \in [Threads -> Logs \cup {None}]
  BY <1>1, <1>2, AppendTyped DEF Kinds, TypeOfRun
<1>4. left' \in Supplies BY DEF Tell, TypeOfRun, Supplies
<1> QED BY <1>3, <1>4 DEF TypeOfRun, Tell

LEMMA TakeTyped == ASSUME TypeOfRun, Named, TakeOver PROVE TypeOfRun'
<1>1. taker \in Threads /\ log[taker] \in Logs BY DEF TakeOver, Named, LogIds, TypeOfRun
<1> DEFINE taken == [log[taker] EXCEPT !.unattended = FALSE, !.running = FALSE]
<1>2. taken \in Logs BY <1>1 DEF Logs
<1>3. log' = [log EXCEPT ![taker] = taken] BY <1>1 DEF TakeOver, TypeOfRun
<1> HIDE DEF taken
<1>4. log' \in [Threads -> Logs \cup {None}] BY <1>1, <1>2, <1>3 DEF TypeOfRun
<1> QED BY <1>4 DEF TypeOfRun, TakeOver

LEMMA WatchTyped ==
  ASSUME TypeOfRun, FindWorking \/ Stop \/ FindFinished \/ ClearRun
  PROVE TypeOfRun'
<1>1. CASE FindWorking BY <1>1 DEF FindWorking, TypeOfRun, LogIds
<1>2. CASE FindFinished BY <1>2 DEF FindFinished, TypeOfRun, LogIds
<1>3. CASE Stop
  <2>1. run \in Runs /\ run' = [run EXCEPT !.stop = TRUE] BY <1>3 DEF Stop, TypeOfRun
  <2>2. run' \in Runs BY <2>1 DEF Runs
  <2>3. left' \in Supplies BY <1>3 DEF Stop, TypeOfRun, Supplies
  <2> QED BY <1>3, <2>2, <2>3 DEF Stop, TypeOfRun
<1>4. CASE ClearRun
  <2>1. left' \in Supplies BY <1>4 DEF ClearRun, TypeOfRun, Supplies
  <2>2. talk' \in Talks BY <1>4, RowMarked DEF ClearRun, Rows
  <2> QED BY <1>4, <2>1, <2>2 DEF ClearRun, TypeOfRun
<1> QED BY <1>1, <1>2, <1>3, <1>4

-----------------------------------------------------------------------------
(* What a step does to the conversation.                                    *)

\* The worker writes a row or none, and goes on.
Spoke ==
  /\ talk'.thread = talk.thread /\ talk'.heard = talk.heard /\ talk'.due = talk.due
  /\ talk'.row = talk.row
  /\ talk'.at \notin {"idle", "claimed", "opened"}
  /\ talk'.at \in {"ready", "listening", "asking"} => talk.at \in {"opened", "listening", "asking"}
  /\ talk'.at \in {"listening", "asking"} => talk.at \in {"listening", "asking"}
  /\ \/ talk'.accounted = talk.accounted /\ (log' = log \/ log' = Append1(talk.thread, "noted"))
     \/ /\ talk'.accounted = AccountedWith(talk.thread, "asked")
        /\ log' = Append1(talk.thread, "asked")

LEMMA Speaks ==
  ASSUME TypeOfRun,
         LinkLog \/ LookForStop \/ CallTool \/ Finish \/ SayNothing \/ ModelFails \/ Compute \/ Resolve
  PROVE Spoke
<1> USE TalkFields DEF Talks, Spoke
<1>1. CASE LinkLog
  <2>1. \/ /\ talk' = [talk EXCEPT !.at = "ready", !.accounted = AccountedWith(talk.thread, "asked")]
           /\ log' = Append1(talk.thread, "asked")
        \/ talk' = [talk EXCEPT !.at = "computing"] /\ log' = Append1(talk.thread, "noted")
    BY <1>1 DEF LinkLog
  <2> QED BY <1>1, <2>1 DEF LinkLog
<1>2. CASE LookForStop
  <2>1. \/ /\ talk' = [talk EXCEPT !.at = "over", !.stopped = TRUE]
           /\ log' = Append1(talk.thread, "noted")
        \/ talk' = [talk EXCEPT !.at = "asking"] /\ log' = log
    BY <1>2 DEF LookForStop
  <2> QED BY <1>2, <2>1 DEF LookForStop
<1>3. CASE CallTool
  <2>1. PICK items, covered :
          talk' = [talk EXCEPT !.at = AfterRound, !.step = @ + 1, !.items = items, !.covered = covered]
    BY <1>3 DEF CallTool
  <2> QED BY <1>3, <2>1 DEF CallTool, AfterRound
<1>4. CASE Finish BY <1>4 DEF Finish
<1>5. CASE SayNothing
  <2>1. PICK salvaged \in {{}} \cup {{Proposed(a)} : a \in Areas}, done \in BOOLEAN :
          /\ talk' = [talk EXCEPT
               !.at = IF done THEN "over" ELSE AfterRound,
               !.step = @ + 1, !.items = @ \cup salvaged,
               !.covered = talk.covered \cup {row.about : row \in salvaged},
               !.nudges = IF done THEN @ ELSE @ + 1,
               !.accounted = IF done THEN @ ELSE AccountedWith(talk.thread, "asked")]
          /\ log' = Append1(talk.thread, IF done THEN "noted" ELSE "asked")
    BY <1>5 DEF SayNothing
  <2> QED BY <1>5, <2>1 DEF SayNothing, AfterRound
<1>6. CASE ModelFails BY <1>6 DEF ModelFails
<1>7. CASE Compute
  <2>1. talk' = [talk EXCEPT !.at = "proposed", !.items = Computed, !.stopped = FALSE, !.covered = {}]
    BY <1>7 DEF Compute
  <2> QED BY <1>7, <2>1 DEF Compute
<1>8. CASE Resolve
  <2>1. PICK items : talk' = [talk EXCEPT !.at = "proposed", !.items = items] BY <1>8 DEF Resolve
  <2> QED BY <1>8, <2>1 DEF Resolve
<1> QED BY <1>1, <1>2, <1>3, <1>4, <1>5, <1>6, <1>7, <1>8

\* A row more in a log.
LEMMA RowAdded ==
  ASSUME TypeOfRun, NEW t \in Threads \cup {None}, t # None => t \in LogIds, NEW kind \in Kinds,
         log' = Append1(t, kind)
  PROVE /\ LogIds' = LogIds
        /\ \A u \in LogIds : log'[u].unattended = log[u].unattended
        /\ \A u \in LogIds : u # t => log'[u] = log[u]
        /\ t # None =>
             \E n \in Nat :
               /\ n = Len(log[t].rows) + 1
               /\ DOMAIN log'[t].rows = DOMAIN log[t].rows \cup {n} /\ n \notin DOMAIN log[t].rows
               /\ \A i \in DOMAIN log[t].rows : i < n
               /\ Told(t)' = Told(t) \cup (IF kind = "told" THEN {n} ELSE {})
               /\ Users(t)' = Users(t) \cup (IF kind = "noted" THEN {} ELSE {n})
<1>1. /\ \A u \in Threads : u # t => log'[u] = log[u]
      /\ t # None => /\ log'[t] \in Logs
                     /\ log'[t].rows = Append(log[t].rows, kind)
                     /\ log'[t].unattended = log[t].unattended
  BY AppendTyped
<1>2. LogIds' = LogIds BY <1>1, NoneIsNoLog DEF LogIds
<1>3. ASSUME NEW u \in LogIds PROVE log'[u].unattended = log[u].unattended
  <2>1. u \in Threads /\ u # None BY NoneIsNoLog DEF LogIds
  <2>2. CASE u = t BY <1>1, <2>1, <2>2
  <2>3. CASE u # t BY <1>1, <2>1, <2>3
  <2> QED BY <2>2, <2>3
<1>4. \A u \in LogIds : u # t => log'[u] = log[u] BY <1>1 DEF LogIds
<1>5. ASSUME t # None
      PROVE \E n \in Nat :
              /\ n = Len(log[t].rows) + 1
              /\ DOMAIN log'[t].rows = DOMAIN log[t].rows \cup {n} /\ n \notin DOMAIN log[t].rows
              /\ \A i \in DOMAIN log[t].rows : i < n
              /\ Told(t)' = Told(t) \cup (IF kind = "told" THEN {n} ELSE {})
              /\ Users(t)' = Users(t) \cup (IF kind = "noted" THEN {} ELSE {n})
  <2> DEFINE old == log[t].rows
             n == Len(old) + 1
  <2>1. old \in Seq(Kinds) /\ DOMAIN old = 1 .. Len(old) /\ Len(old) \in Nat
    BY <1>5, RowsOfLog DEF Logs
  <2>2. log'[t].rows = Append(old, kind) BY <1>1, <1>5
  <2> HIDE DEF old
  <2>3. /\ DOMAIN Append(old, kind) = DOMAIN old \cup {n} /\ n \notin DOMAIN old
        /\ \A i \in DOMAIN old : i < n /\ Append(old, kind)[i] = old[i]
        /\ Append(old, kind)[n] = kind
    BY <2>1
  <2>4. Told(t)' = {i \in DOMAIN Append(old, kind) : Append(old, kind)[i] = "told"}
    BY <2>2 DEF Told
  <2>5. Told(t) = {i \in DOMAIN old : old[i] = "told"} BY DEF Told, old
  <2>6. Users(t)' = {i \in DOMAIN Append(old, kind) : Append(old, kind)[i] \in {"asked", "told"}}
    BY <2>2 DEF Users
  <2>7. Users(t) = {i \in DOMAIN old : old[i] \in {"asked", "told"}} BY DEF Users, old
  <2>10. n \in Nat BY <2>1
  <2> HIDE DEF n
  <2>8. Told(t)' = Told(t) \cup (IF kind = "told" THEN {n} ELSE {}) BY <2>3, <2>4, <2>5
  <2>9. Users(t)' = Users(t) \cup (IF kind = "noted" THEN {} ELSE {n})
    BY <2>3, <2>6, <2>7 DEF Kinds
  <2>11. n = Len(log[t].rows) + 1 BY DEF n, old
  <2>12. /\ DOMAIN log'[t].rows = DOMAIN log[t].rows \cup {n} /\ n \notin DOMAIN log[t].rows
         /\ \A i \in DOMAIN log[t].rows : i < n
    BY <2>2, <2>3 DEF old
  <2> QED BY <2>8, <2>9, <2>10, <2>11, <2>12
<1> QED BY <1>2, <1>3, <1>4, <1>5

-----------------------------------------------------------------------------
(* Who writes a log.                                                        *)

\* Logs there were stay, and so does who attends to them.
SameLogs == LogIds' = LogIds /\ \A t \in LogIds : log'[t].unattended = log[t].unattended

LEMMA HoldsOn ==
  ASSUME HoldInv, SameLogs, talk'.thread \in {talk.thread, None},
         teller' \in LogIds \cup {None}, taker' \in {taker, None}, loose' = loose,
         run' # None => run'.thread \in LogIds \cup {None},
         talk'.thread # None => talk'.at # "idle", RowHeld'
  PROVE HoldInv'
<1>1. Named' BY DEF HoldInv, Named, SameLogs
<1>2. (talk.thread # None => talk.at # "idle")' OBVIOUS
<1>3. (taker # None /\ taker = talk.thread => taker \in loose)' BY DEF HoldInv
<1>4. OneWriter' BY NoneIsNoLog DEF HoldInv, OneWriter, SameLogs, LogIds
<1> QED BY <1>1, <1>2, <1>3, <1>4 DEF HoldInv

\* The row is whose it was.
LEMMA RowKept ==
  ASSUME HoldInv, talk'.row = talk.row, talk'.thread \in {talk.thread, None},
         \/ run' = run
         \/ /\ run # None /\ run' # None /\ run'.status = run.status /\ run'.other = run.other
            /\ run'.thread = run.thread \/ talk.row # "gone"
  PROVE RowHeld'
BY DEF HoldInv, RowHeld

LEMMA SpokeHold ==
  ASSUME TypeOfRun, HoldInv, Spoke, talk.at # "idle", UNCHANGED <<teller, taker, loose>>,
         \/ run' = run
         \/ /\ run # None /\ run' # None /\ run'.status = run.status /\ run'.other = run.other
            /\ run'.thread = talk.thread /\ talk.row # "gone"
  PROVE HoldInv'
<1>1. talk.thread \in Threads \cup {None} /\ (talk.thread # None => talk.thread \in LogIds)
  BY TalkFields DEF HoldInv, Named
<1>2. SameLogs
  <2>1. CASE log' = log BY <2>1 DEF SameLogs, LogIds
  <2>2. CASE log' = Append1(talk.thread, "noted")
    BY <1>1, <2>2, RowAdded DEF SameLogs, Kinds
  <2>3. CASE log' = Append1(talk.thread, "asked")
    BY <1>1, <2>3, RowAdded DEF SameLogs, Kinds
  <2> QED BY <2>1, <2>2, <2>3 DEF Spoke
<1>3. talk'.thread = talk.thread /\ talk'.at # "idle" BY DEF Spoke
<1>4. run' # None => run'.thread \in LogIds \cup {None} BY <1>1 DEF HoldInv, Named
<1>5. teller' \in LogIds \cup {None} BY DEF HoldInv, Named
<1>6. RowHeld' BY RowKept DEF Spoke
<1> QED BY <1>2, <1>3, <1>4, <1>5, <1>6, HoldsOn

\* A step that leaves logs, people and the run row alone.
LEMMA QuietHold ==
  ASSUME HoldInv, UNCHANGED <<run, log, teller, taker, loose>>, talk'.thread \in {talk.thread, None},
         talk'.row = talk.row, talk'.at # "idle"
  PROVE HoldInv'
<1>1. SameLogs BY DEF SameLogs, LogIds
<1>2. teller' \in LogIds \cup {None} BY DEF HoldInv, Named
<1>3. run' # None => run'.thread \in LogIds \cup {None} BY DEF HoldInv, Named
<1>4. RowHeld' BY RowKept
<1> QED BY <1>1, <1>2, <1>3, <1>4, HoldsOn

LEMMA ConversingHold == ASSUME TypeOfRun, HoldInv, Conversing PROVE HoldInv'
<1>1. CASE LookForStop \/ CallTool \/ Finish \/ SayNothing \/ ModelFails \/ Compute \/ Resolve
  <2>1. Spoke BY <1>1, Speaks
  <2>2. UNCHANGED <<run, teller, taker, loose>> /\ talk.at # "idle"
    BY <1>1 DEF LookForStop, CallTool, Finish, SayNothing, ModelFails, Compute, Resolve
  <2> QED BY <2>1, <2>2, SpokeHold
<1>2. CASE Hear
  <2>1. talk'.thread = talk.thread /\ talk'.at # "idle" BY <1>2, Hears DEF HoldInv
  <2>3. talk'.row = talk.row BY <1>2, TalkFields DEF Hear, Talks
  <2>2. UNCHANGED <<run, log, teller, taker, loose>> BY <1>2 DEF Hear
  <2> QED BY <2>1, <2>2, <2>3, QuietHold
<1>3. CASE OpenFails
  <2>1. talk'.thread = None /\ talk'.at # "idle" /\ talk'.row = talk.row
    BY <1>3, TalkFields DEF OpenFails, Talks
  <2>2. UNCHANGED <<run, log, teller, taker, loose>> BY <1>3 DEF OpenFails
  <2> QED BY <2>1, <2>2, QuietHold
<1>4. CASE OpenLog
  <2> DEFINE t == CHOOSE t \in Fresh : \A u \in Fresh : t <= u
             new == [unattended |-> TRUE, running |-> TRUE, rows |-> << >>]
  <2>1. Fresh \in SUBSET Nat /\ Fresh # {} BY <1>4, ThreadIds DEF OpenLog, Fresh
  <2>2. t \in Fresh BY <2>1, LeastIsThere
  <2>3. /\ log' = [log EXCEPT ![t] = new] /\ talk' = [talk EXCEPT !.at = "opened", !.thread = t]
        /\ talk.at # "idle"
    BY <1>4 DEF OpenLog
  <2> HIDE DEF t
  <2>4. t \in Threads /\ t \notin LogIds /\ t # None BY <2>2, NoneIsNoLog DEF Fresh, LogIds
  <2>5. new \in Logs /\ new # None /\ new.unattended
    <3>1. new \in Logs BY DEF Logs
    <3> QED BY <3>1, NoneIsNoLog
  <2> HIDE DEF new
  <2>6. LogIds' = LogIds \cup {t} /\ \A u \in LogIds : log'[u] = log[u]
    BY <2>3, <2>4, <2>5 DEF LogIds, TypeOfRun
  <2>7. log'[t].unattended BY <2>3, <2>4, <2>5 DEF TypeOfRun
  <2>8. talk'.thread = t /\ talk'.at # "idle" /\ talk'.row = talk.row BY <2>3, TalkFields DEF Talks
  <2>9. UNCHANGED <<run, teller, taker, loose>> BY <1>4 DEF OpenLog
  <2>10. Named' BY <2>4, <2>6, <2>8, <2>9 DEF HoldInv, Named
  <2>11. OneWriter' BY <2>6, <2>7, <2>8 DEF OneWriter
  <2>12. taker # t BY <2>4 DEF HoldInv, Named
  <2>13. RowHeld' BY <2>4, <2>8, <2>9 DEF HoldInv, Named, RowHeld
  <2> QED BY <2>8, <2>9, <2>10, <2>11, <2>12, <2>13 DEF HoldInv
<1>5. CASE LinkLog
  <2>1. Spoke BY <1>5, Speaks
  <2>2. UNCHANGED <<teller, taker, loose>> /\ talk.at # "idle" BY <1>5 DEF LinkLog
  <2>3. CASE talk.row = "gone"
    <3>1. run' = run BY <1>5, <2>3 DEF LinkLog
    <3> QED BY <2>1, <2>2, <3>1, SpokeHold
  <2>4. CASE talk.row # "gone"
    <3>1. run # None /\ run \in Runs BY <2>4 DEF HoldInv, RowHeld, TypeOfRun
    <3>2. run' = [run EXCEPT !.thread = talk.thread] BY <1>5, <2>4 DEF LinkLog
    <3>3. run'.status = run.status /\ run'.other = run.other /\ run'.thread = talk.thread
      BY <3>1, <3>2 DEF Runs
    <3>4. run' # None
      <4>1. run' \in Runs BY <3>1, <3>2, TalkFields DEF Runs
      <4> QED BY <4>1, NothingThere
    <3> QED BY <2>1, <2>2, <2>4, <3>1, <3>3, <3>4, SpokeHold
  <2> QED BY <2>3, <2>4
<1> QED BY <1>1, <1>2, <1>3, <1>4, <1>5 DEF Conversing

\* A step that leaves the logs and the people alone, but not the run row.
LEMMA RunHold ==
  ASSUME HoldInv, UNCHANGED <<log, teller, taker, loose>>, talk'.thread \in {talk.thread, None},
         talk'.thread # None => talk'.at # "idle",
         run' # None => run'.thread = None \/ (run # None /\ run'.thread = run.thread), RowHeld'
  PROVE HoldInv'
<1>1. SameLogs BY DEF SameLogs, LogIds
<1>2. teller' \in LogIds \cup {None} BY DEF HoldInv, Named
<1>3. run' # None => run'.thread \in LogIds \cup {None} BY DEF HoldInv, Named
<1> QED BY <1>1, <1>2, <1>3, HoldsOn

LEMMA ElsewhereHold == ASSUME TypeOfRun, HoldInv, Elsewhere PROVE HoldInv'
<1>1. /\ run # None /\ run' # None /\ run'.thread \in {run.thread, None} /\ SameTalk
      /\ UNCHANGED <<log, teller, taker, loose>>
      /\ talk'.row = IF Reap /\ talk.row = "held" THEN "shared" ELSE talk.row
  BY ElsewhereRow, ElsewhereTalk
<1>2. ~Reap => talk.row # "held"
  BY DEF Elsewhere, OtherClaims, OtherLinks, OtherSettles, RetryRun, Buttons, HoldInv, RowHeld
<1>3. RowHeld' BY <1>1, <1>2 DEF HoldInv, RowHeld, SameTalk
<1>4. talk'.thread = talk.thread /\ (talk'.thread # None => talk'.at # "idle")
  BY <1>1 DEF HoldInv, SameTalk
<1> QED BY <1>1, <1>3, <1>4, RunHold

LEMMA QueueHold ==
  ASSUME TypeOfRun, HoldInv, Claim \/ Die \/ ClearRun \/ Stop \/ \E b \in BOOLEAN : Settle(b)
  PROVE HoldInv'
<1>1. Quiet.thread = None /\ Quiet.at = "idle" /\ Quiet.row = "gone" BY DEF Quiet
<1>2. CASE Claim
  <2>1. talk'.thread = None /\ talk'.row = IF run.other THEN "shared" ELSE "held"
    BY <1>2 DEF Claim, Quiet
  <2>2. /\ run # None /\ run'.thread = run.thread /\ run'.status = "running"
        /\ run'.other = run.other
    BY <1>2 DEF Claim, TypeOfRun, Runs
  <2>3. run' # None
    <3>1. run' \in Runs \cup {None} /\ run' = [run EXCEPT !.status = "running"] /\ run \in Runs
      BY <1>2, ClaimTyped DEF TypeOfRun, Claim
    <3>2. run' \in Runs BY <3>1 DEF Runs, States
    <3> QED BY <3>2, NothingThere
  <2>4. RowHeld' BY <2>1, <2>2, <2>3 DEF RowHeld
  <2> QED BY <1>2, <2>1, <2>2, <2>4, RunHold DEF Claim
<1>3. CASE Die
  <2>1. RowHeld' BY <1>1, <1>3 DEF Die, RowHeld
  <2> QED BY <1>1, <1>3, <2>1, RunHold DEF Die
<1>5. CASE ClearRun
  <2>1. SameTalk /\ talk'.row = "gone" BY <1>5, RowMarked DEF ClearRun, Rows
  <2>2. talk'.thread = talk.thread /\ (talk'.thread # None => talk'.at # "idle")
    BY <2>1 DEF HoldInv, SameTalk
  <2>3. RowHeld' BY <1>5, <2>1 DEF ClearRun, RowHeld
  <2> QED BY <1>5, <2>2, <2>3, RunHold DEF ClearRun
<1>6. CASE Stop
  <2>1. run # None /\ run'.thread = run.thread /\ run'.status = run.status /\ run'.other = run.other
    BY <1>6 DEF Stop, TypeOfRun, Runs
  <2>2. talk.thread # None => talk.at # "idle" BY DEF HoldInv
  <2>3. run' # None
    <3>1. run \in Runs /\ run' = [run EXCEPT !.stop = TRUE] BY <1>6 DEF Stop, TypeOfRun
    <3>2. run' \in Runs BY <3>1 DEF Runs
    <3> QED BY <3>2, NothingThere
  <2>4. RowHeld' BY <1>6, <2>1, <2>3, RowKept DEF Stop
  <2> QED BY <1>6, <2>1, <2>2, <2>4, RunHold DEF Stop
<1>7. ASSUME NEW b \in BOOLEAN, Settle(b) PROVE HoldInv'
  <2>1. PICK status \in {"done", "failed", "queued"} :
          run' = IF talk.row = "gone" THEN run
                 ELSE [run EXCEPT !.status = status,
                                  !.target = IF status = "done" THEN talk.target ELSE @]
    BY <1>7 DEF Settle
  <2>2. run' # None => run # None /\ run'.thread = run.thread
    <3>1. CASE talk.row = "gone" BY <2>1, <3>1
    <3>2. CASE talk.row # "gone"
      <4>1. run # None /\ run \in Runs BY <3>2 DEF HoldInv, RowHeld, TypeOfRun
      <4> QED BY <2>1, <3>2, <4>1 DEF Runs
    <3> QED BY <3>1, <3>2
  <2>3. talk' = Quiet /\ UNCHANGED <<log, teller, taker, loose>> BY <1>7 DEF Settle
  <2>4. RowHeld' BY <1>1, <2>3 DEF RowHeld
  <2> QED BY <1>1, <2>2, <2>3, <2>4, RunHold
<1> QED BY <1>2, <1>3, <1>5, <1>6, <1>7

LEMMA CloseHold == ASSUME TypeOfRun, HoldInv, CloseLog PROVE HoldInv'
<1>1. talk.thread \in Threads /\ talk.thread \in LogIds /\ log[talk.thread] \in Logs
  BY TalkFields DEF CloseLog, HoldInv, Named, LogIds, TypeOfRun
<1> DEFINE shut == [log[talk.thread] EXCEPT !.running = FALSE]
<1>2. shut \in Logs /\ shut # None /\ shut.unattended = log[talk.thread].unattended
  <2>1. shut \in Logs /\ shut.unattended = log[talk.thread].unattended BY <1>1 DEF Logs
  <2> QED BY <2>1, NoneIsNoLog
<1>3. log' = [log EXCEPT ![talk.thread] = shut] BY <1>1, NoneIsNoLog DEF CloseLog, Closed
<1> HIDE DEF shut
<1>4. SameLogs BY <1>1, <1>2, <1>3 DEF SameLogs, LogIds, TypeOfRun
<1>5. talk'.thread = None /\ talk'.at = talk.at /\ talk'.row = talk.row
  BY TalkFields DEF CloseLog, Talks
<1>6. UNCHANGED <<run, teller, taker, loose>> BY DEF CloseLog
<1>7. teller' \in LogIds \cup {None} BY <1>6 DEF HoldInv, Named
<1>8. run' # None => run'.thread \in LogIds \cup {None} BY <1>6 DEF HoldInv, Named
<1>9. RowHeld' BY <1>5, <1>6, RowKept
<1> QED BY <1>4, <1>5, <1>6, <1>7, <1>8, <1>9, HoldsOn

LEMMA TellHold == ASSUME TypeOfRun, HoldInv, Tell PROVE HoldInv'
<1>1. teller \in LogIds /\ teller \in Threads BY DEF Tell, HoldInv, Named, LogIds
<1>2. log' = Append1(teller, "told") BY <1>1, NoneIsNoLog DEF Tell, Append1
<1>3. SameLogs BY <1>1, <1>2, RowAdded DEF SameLogs, Kinds
<1>4. UNCHANGED <<run, talk, taker, loose>> /\ teller' = None BY DEF Tell
<1>5. run' # None => run'.thread \in LogIds \cup {None} BY <1>4 DEF HoldInv, Named
<1>6. talk.thread # None => talk.at # "idle" BY DEF HoldInv
<1>7. RowHeld' BY <1>4, RowKept
<1> QED BY <1>3, <1>4, <1>5, <1>6, <1>7, HoldsOn

\* Nobody takes over the log of a worker while the row is its own and points at it.
LEMMA FindHold == ASSUME TypeOfRun, HoldInv, FindWorking \/ FindFinished PROVE HoldInv'
<1>1. CASE FindWorking
  <2>1. UNCHANGED <<run, log, talk, taker, loose>> /\ teller' \in LogIds BY <1>1 DEF FindWorking
  <2>2. SameLogs BY <2>1 DEF SameLogs, LogIds
  <2>3. run' # None => run'.thread \in LogIds \cup {None} BY <2>1 DEF HoldInv, Named
  <2>4. talk.thread # None => talk.at # "idle" BY DEF HoldInv
  <2>5. RowHeld' BY <2>1, RowKept
  <2> QED BY <2>1, <2>2, <2>3, <2>4, <2>5, HoldsOn
<1>2. CASE FindFinished
  <2>1. PICK t \in LogIds : /\ ~Working(t) /\ taker' = t
                            /\ loose' = IF run = None \/ run.thread # t \/ talk.row = "shared"
                                        THEN loose \cup {t} ELSE loose
    BY <1>2 DEF FindFinished
  <2>2. UNCHANGED <<run, log, talk, teller>> /\ LogIds' = LogIds BY <1>2 DEF FindFinished, LogIds
  <2>3. loose \subseteq loose' BY <2>1
  <2>4. taker' = talk'.thread => taker' \in loose'
    <3>1. SUFFICES ASSUME t = talk.thread, t \notin loose' PROVE FALSE BY <2>1, <2>2
    <3>2. run # None /\ run.thread = t /\ talk.row # "shared" BY <2>1, <3>1
    <3>3. run.status \notin {"queued", "running"} BY <2>1, <3>2 DEF Working
    <3>4. t # None BY NoneIsNoLog DEF LogIds
    <3>5. talk.row \in Rows BY TalkFields
    <3> QED BY <3>1, <3>2, <3>3, <3>4, <3>5 DEF HoldInv, RowHeld, Rows
  <2>5. Named' BY <2>1, <2>2 DEF HoldInv, Named
  <2>6. OneWriter' BY <2>2, <2>3 DEF HoldInv, OneWriter
  <2>7. RowHeld' BY <2>2, RowKept
  <2> QED BY <2>2, <2>4, <2>5, <2>6, <2>7 DEF HoldInv
<1> QED BY <1>1, <1>2

LEMMA TakeHold == ASSUME TypeOfRun, HoldInv, TakeOver PROVE HoldInv'
<1>1. taker \in Threads /\ taker \in LogIds /\ log[taker] \in Logs
  BY DEF TakeOver, HoldInv, Named, LogIds, TypeOfRun
<1> DEFINE taken == [log[taker] EXCEPT !.unattended = FALSE, !.running = FALSE]
<1>2. taken \in Logs /\ taken # None
  <2>1. taken \in Logs BY <1>1 DEF Logs
  <2> QED BY <2>1, NoneIsNoLog
<1>3. log' = [log EXCEPT ![taker] = taken] BY <1>1 DEF TakeOver, TypeOfRun
<1> HIDE DEF taken
<1>4. LogIds' = LogIds BY <1>1, <1>2, <1>3 DEF LogIds, TypeOfRun
<1>5. \A t \in LogIds : t # taker => log'[t] = log[t] BY <1>1, <1>3 DEF LogIds, TypeOfRun
<1>6. UNCHANGED <<run, talk, teller, loose>> /\ taker' = None BY DEF TakeOver
<1>7. Named' BY <1>4, <1>6 DEF HoldInv, Named
<1>8. OneWriter'
  <2>1. SUFFICES ASSUME NEW t \in LogIds, ~log'[t].unattended, talk.thread = t PROVE t \in loose
    BY <1>4, <1>6 DEF OneWriter
  <2>2. CASE t = taker BY <1>1, <2>1, <2>2, NoneIsNoLog DEF HoldInv
  <2>3. CASE t # taker BY <1>5, <2>1, <2>3 DEF HoldInv, OneWriter
  <2> QED BY <2>2, <2>3
<1>9. RowHeld' BY <1>6, RowKept
<1> QED BY <1>6, <1>7, <1>8, <1>9 DEF HoldInv

-----------------------------------------------------------------------------
(* What was said.                                                           *)

\* The worker goes on knowing what it knew, of a log that may have grown.
LEMMA HearsOn ==
  ASSUME HearInv, UNCHANGED <<talk.heard, talk.due>>, talk'.thread \in {talk.thread, None},
         talk'.at \in {"claimed", "opened"} => /\ talk.at \in {"claimed", "opened"}
                                               /\ talk'.accounted = talk.accounted,
         talk'.at \in {"ready", "listening", "asking"} =>
           \/ talk.at \in {"claimed", "opened"}
           \/ talk.at \in {"ready", "listening", "asking"} /\ talk'.thread = talk.thread,
         talk'.at \in {"listening", "asking"} => talk.at \in {"listening", "asking"},
         \A t \in Threads : t = talk.thread /\ t = talk'.thread => Listened(t)'
  PROVE HearInv'
<1>1. Heard' = Heard BY DEF Heard
<1>2. \A t \in Threads : t = talk'.thread => Listened(t)' BY NoneIsNoLog
<1> QED BY <1>1, <1>2 DEF HearInv

\* The log it holds is as it was.
LEMMA SameHear ==
  ASSUME HearInv, NEW t \in Threads, t = talk.thread, log'[t].rows = log[t].rows,
         UNCHANGED <<talk.heard, talk.accounted>>
  PROVE Listened(t)'
<1>1. Listened(t) BY DEF HearInv
<1>2. Heard' = Heard /\ Told(t)' = Told(t) /\ Users(t)' = Users(t) BY DEF Heard, Told, Users
<1> QED BY <1>1, <1>2 DEF Listened

LEMMA SpokeHear ==
  ASSUME TypeOfRun, Named, HearInv, Spoke PROVE HearInv'
<1>1. ASSUME NEW t \in Threads, t = talk.thread PROVE Listened(t)'
  <2>1. Listened(t) BY <1>1 DEF HearInv
  <2>2. Heard' = Heard /\ t # None /\ t \in LogIds BY <1>1, NoneIsNoLog DEF Spoke, Heard, Named
  <2>3. CASE log' = log /\ talk'.accounted = talk.accounted
    BY <1>1, <2>3, SameHear DEF Spoke
  <2>4. CASE log' = Append1(t, "noted") /\ talk'.accounted = talk.accounted
    <3>1. PICK n \in Nat : /\ DOMAIN log'[t].rows = DOMAIN log[t].rows \cup {n}
                           /\ Told(t)' = Told(t) /\ Users(t)' = Users(t)
      BY <2>2, <2>4, RowAdded DEF Kinds
    <3> QED BY <2>1, <2>2, <2>4, <3>1 DEF Listened
  <2>5. CASE log' = Append1(t, "asked") /\ talk'.accounted = AccountedWith(t, "asked")
    <3>1. PICK n \in Nat :
            /\ n = Len(log[t].rows) + 1
            /\ DOMAIN log'[t].rows = DOMAIN log[t].rows \cup {n} /\ n \notin DOMAIN log[t].rows
            /\ Told(t)' = Told(t) /\ Users(t)' = Users(t) \cup {n}
      BY <2>2, <2>5, RowAdded DEF Kinds
    <3>2. talk'.accounted = talk.accounted \cup {n} BY <2>2, <2>5, <3>1 DEF AccountedWith
    <3>3. n \notin Told(t) BY <3>1 DEF Told
    <3> QED BY <2>1, <2>2, <3>1, <3>2, <3>3 DEF Listened
  <2> QED BY <1>1, <2>3, <2>4, <2>5 DEF Spoke
<1>2. talk'.thread = talk.thread BY DEF Spoke
<1> QED BY <1>1, <1>2, HearsOn DEF Spoke

\* Somebody else's row is above everything the worker has heard.
LEMMA TellHear ==
  ASSUME TypeOfRun, Named, HearInv, Tell PROVE HearInv'
<1>1. teller \in LogIds /\ teller \in Threads BY DEF Tell, Named, LogIds
<1>2. PICK u \in Threads : u = teller /\ u \in LogIds /\ u # None BY <1>1, NoneIsNoLog
<1>3. log' = Append1(u, "told") BY <1>2 DEF Tell, Append1
<1>4. talk' = talk BY DEF Tell
<1>5. ASSUME NEW t \in Threads, t = talk.thread PROVE Listened(t)'
  <2>1. Listened(t) /\ t \in LogIds BY <1>5, NoneIsNoLog DEF HearInv, Named
  <2>2. CASE t # u
    <3>1. log'[t] = log[t] BY <1>2, <1>3, <2>1, <2>2, RowAdded DEF Kinds
    <3> QED BY <1>4, <1>5, <3>1, SameHear
  <2>3. CASE t = u
    <3>1. PICK n \in Nat :
            /\ DOMAIN log'[t].rows = DOMAIN log[t].rows \cup {n} /\ n \notin DOMAIN log[t].rows
            /\ \A i \in DOMAIN log[t].rows : i < n
            /\ Told(t)' = Told(t) \cup {n} /\ Users(t)' = Users(t) \cup {n}
      BY <1>2, <1>3, <2>3, RowAdded DEF Kinds
    <3>2. Heard \subseteq DOMAIN log[t].rows /\ n \notin talk.accounted
      BY <2>1, <3>1 DEF Listened
    <3>3. Heard' = Heard BY <1>4 DEF Heard
    <3> QED BY <1>4, <2>1, <3>1, <3>2, <3>3 DEF Listened
  <2> QED BY <2>2, <2>3
<1>6. UNCHANGED <<talk.heard, talk.due, talk.thread, talk.accounted, talk.at>> BY <1>4
<1> QED BY <1>5, <1>6, HearsOn

\* A step that leaves what the worker heard alone, and every log's rows.
LEMMA AsideHear ==
  ASSUME HearInv, UNCHANGED <<talk.heard, talk.due, talk.accounted>>,
         talk'.thread \in {talk.thread, None}, talk'.at \notin {"ready", "listening", "asking"},
         talk'.at \in {"claimed", "opened"} => talk.at \in {"claimed", "opened"},
         \A t \in Threads : t = talk'.thread => log'[t].rows = log[t].rows
  PROVE HearInv'
<1>1. ASSUME NEW t \in Threads, t = talk.thread, t = talk'.thread PROVE Listened(t)'
  BY <1>1, SameHear
<1> QED BY <1>1, HearsOn

LEMMA StillHear ==
  ASSUME HearInv, SameTalk, \A t \in Threads : t = talk.thread => log'[t].rows = log[t].rows
  PROVE HearInv'
<1>1. UNCHANGED <<talk.heard, talk.due, talk.accounted, talk.thread, talk.at>> BY DEF SameTalk
<1>2. ASSUME NEW t \in Threads, t = talk.thread PROVE Listened(t)'
  BY <1>1, <1>2, SameHear
<1> QED BY <1>1, <1>2, HearsOn

LEMMA TakeHear == ASSUME TypeOfRun, Named, HearInv, TakeOver PROVE HearInv'
<1>1. taker \in Threads /\ log[taker] \in Logs BY DEF TakeOver, Named, LogIds, TypeOfRun
<1>2. log' = [log EXCEPT ![taker] = [log[taker] EXCEPT !.unattended = FALSE, !.running = FALSE]]
  BY <1>1 DEF TakeOver, TypeOfRun
<1>3. \A t \in Threads : log'[t].rows = log[t].rows BY <1>1, <1>2 DEF TypeOfRun, Logs
<1>4. SameTalk BY DEF TakeOver, SameTalk
<1> QED BY <1>3, <1>4, StillHear

\* A worker that starts afresh has heard nothing.
LEMMA FreshHear ==
  ASSUME talk'.heard = << >>, talk'.accounted = {}, talk'.thread = None,
         talk'.at \notin {"listening", "asking"}
  PROVE HearInv'
BY NoneIsNoLog DEF HearInv, Heard

LEMMA QueueHear ==
  ASSUME TypeOfRun, HearInv, Claim \/ Die \/ Settle(TRUE) \/ Settle(FALSE) PROVE HearInv'
<1>1. /\ Quiet.heard = << >> /\ Quiet.accounted = {} /\ Quiet.thread = None /\ Quiet.at = "idle"
  BY DEF Quiet
<1>2. CASE Claim
  <2>1. /\ talk'.heard = << >> /\ talk'.accounted = {} /\ talk'.thread = None /\ talk'.at = "claimed"
    BY <1>2 DEF Claim, Quiet
  <2> QED BY <2>1, FreshHear
<1>3. CASE Die BY <1>1, <1>3, FreshHear DEF Die
<1>4. CASE Settle(TRUE) \/ Settle(FALSE) BY <1>1, <1>4, FreshHear DEF Settle
<1> QED BY <1>2, <1>3, <1>4

LEMMA CloseHear == ASSUME TypeOfRun, HearInv, CloseLog PROVE HearInv'
<1>1. /\ UNCHANGED <<talk.heard, talk.due, talk.accounted>> /\ talk'.at = talk.at
      /\ talk'.thread = None /\ talk.at \in {"closing", "failed"}
  BY TalkFields DEF CloseLog, Talks
<1> QED BY <1>1, NoneIsNoLog, AsideHear

LEMMA OpenHear == ASSUME TypeOfRun, HearInv, OpenLog PROVE HearInv'
<1> DEFINE new == [unattended |-> TRUE, running |-> TRUE, rows |-> << >>]
<1>1. Fresh \in SUBSET Nat /\ Fresh # {} BY ThreadIds DEF OpenLog, Fresh
<1>2. PICK t \in Fresh : /\ log' = [log EXCEPT ![t] = new]
                        /\ talk' = [talk EXCEPT !.at = "opened", !.thread = t]
  BY <1>1, LeastIsThere DEF OpenLog
<1>3. t \in Threads BY DEF Fresh
<1>4. /\ talk'.heard = << >> /\ talk'.accounted = {} /\ talk'.thread = t /\ talk'.at = "opened"
  BY <1>2, TalkFields DEF OpenLog, HearInv, Talks
<1>5. log'[t].rows = << >> BY <1>2, <1>3 DEF TypeOfRun
<1>6. Heard' = {} BY <1>4 DEF Heard
<1>7. Told(t)' = {} /\ Users(t)' = {} BY <1>5 DEF Told, Users
<1>8. Listened(t)' BY <1>4, <1>6, <1>7 DEF Listened
<1> QED BY <1>3, <1>4, <1>6, <1>8, NoneIsNoLog DEF HearInv

LEMMA OpenFailsHear == ASSUME TypeOfRun, HearInv, OpenFails PROVE HearInv'
<1>1. /\ UNCHANGED <<talk.heard, talk.due, talk.accounted>> /\ talk'.at \in {"ready", "computing"}
      /\ talk'.thread = None /\ talk.at \in {"claimed", "opened"}
  BY TalkFields DEF OpenFails, Talks
<1> QED BY <1>1, NoneIsNoLog, HearsOn

\* One list after another: what is in either, and in order when the second is above.
LEMMA Joined ==
  ASSUME NEW s \in Seq(Nat), NEW r \in Seq(Nat)
  PROVE LET both == s \o r
        IN  /\ {both[i] : i \in DOMAIN both} = {s[i] : i \in DOMAIN s} \cup {r[i] : i \in DOMAIN r}
            /\ (/\ \A i, j \in DOMAIN s : i < j => s[i] < s[j]
                /\ \A i, j \in DOMAIN r : i < j => r[i] < r[j]
                /\ \A i \in DOMAIN s, j \in DOMAIN r : s[i] < r[j])
               => \A i, j \in DOMAIN both : i < j => both[i] < both[j]
<1> DEFINE both == s \o r
           m == Len(s)
           n == Len(r)
<1>1. m \in Nat /\ n \in Nat /\ DOMAIN s = 1 .. m /\ DOMAIN r = 1 .. n BY LenProperties
<1>2. DOMAIN both = 1 .. m + n BY LenProperties, ConcatProperties
<1>3. \A i \in 1 .. m : both[i] = s[i] BY <1>1, ConcatProperties
<1>4. \A i \in 1 .. n : both[m + i] = r[i] BY <1>1
<1>5. \A i \in DOMAIN both : i \in 1 .. m \/ (i - m \in 1 .. n /\ m + (i - m) = i) BY <1>1, <1>2
<1>6. \A i \in 1 .. n : m + i \in DOMAIN both BY <1>1, <1>2
<1>7. \A i \in 1 .. m : i \in DOMAIN both BY <1>1, <1>2
<1>8. {both[i] : i \in DOMAIN both} = {s[i] : i \in DOMAIN s} \cup {r[i] : i \in DOMAIN r}
  <2>1. ASSUME NEW i \in DOMAIN both
        PROVE both[i] \in {s[k] : k \in DOMAIN s} \cup {r[k] : k \in DOMAIN r}
    <3> HIDE DEF both, m, n
    <3>1. CASE i \in 1 .. m BY <1>1, <1>3, <3>1
    <3>2. CASE i - m \in 1 .. n /\ m + (i - m) = i
      <4>1. both[i] = r[i - m] BY <1>4, <3>2
      <4> QED BY <1>1, <3>2, <4>1
    <3> QED BY <1>5, <3>1, <3>2
  <2>2. \A i \in DOMAIN s : s[i] \in {both[k] : k \in DOMAIN both}
    <3> HIDE DEF both, m, n
    <3> QED BY <1>1, <1>3, <1>7
  <2>3. ASSUME NEW i \in DOMAIN r PROVE r[i] \in {both[k] : k \in DOMAIN both}
    <3> HIDE DEF both, m, n
    <3>1. r[i] = both[m + i] /\ m + i \in DOMAIN both BY <1>1, <1>4, <1>6
    <3> QED BY <3>1
  <2> HIDE DEF both, m, n
  <2> QED BY <2>1, <2>2, <2>3
<1>9. ASSUME \A i, j \in DOMAIN s : i < j => s[i] < s[j],
             \A i, j \in DOMAIN r : i < j => r[i] < r[j],
             \A i \in DOMAIN s, j \in DOMAIN r : s[i] < r[j],
             NEW i \in DOMAIN both, NEW j \in DOMAIN both, i < j
      PROVE both[i] < both[j]
  <2> HIDE DEF both, m, n
  <2>1. CASE j \in 1 .. m
    <3>1. i \in 1 .. m BY <1>1, <1>2, <1>9, <2>1
    <3> QED BY <1>1, <1>3, <1>9, <2>1, <3>1
  <2>2. CASE j - m \in 1 .. n /\ m + (j - m) = j
    <3>1. both[j] = r[j - m] BY <1>4, <2>2
    <3>2. CASE i \in 1 .. m BY <1>1, <1>3, <1>9, <2>2, <3>1, <3>2
    <3>3. CASE i - m \in 1 .. n /\ m + (i - m) = i
      <4>1. both[i] = r[i - m] BY <1>4, <3>3
      <4>2. i - m < j - m BY <1>1, <1>2, <1>9
      <4> QED BY <1>1, <1>9, <2>2, <3>1, <3>3, <4>1, <4>2
    <3> QED BY <1>5, <3>2, <3>3
  <2> QED BY <1>5, <2>1, <2>2
<1> QED BY <1>8, <1>9

\* A round begins: what was said since is put before the model.
LEMMA RoundHear == ASSUME TypeOfRun, Named, HearInv, Hear PROVE HearInv'
<1> DEFINE new == Unheard(talk.thread)
           r == InOrder(new)
<1>1. /\ talk'.at = "listening" /\ talk'.thread = talk.thread /\ talk'.accounted = talk.accounted \cup new
      /\ talk'.heard = talk.heard \o r
      /\ talk'.due = IF talk.thread = None THEN {} ELSE Told(talk.thread)
  BY Hears
<1>2. new \in SUBSET Nat /\ IsFiniteSet(new) BY UnheardTyped
<1>3. /\ r \in Seq(Nat) /\ {r[i] : i \in DOMAIN r} = new
      /\ \A i, j \in DOMAIN r : i < j => r[i] < r[j]
  <2> HIDE DEF new
  <2>1. /\ r \in Seq(Nat) /\ \A i \in DOMAIN r : r[i] \in new
        /\ \A k \in new : \E i \in DOMAIN r : r[i] = k
        /\ \A i, j \in DOMAIN r : i < j => r[i] < r[j]
    BY <1>2, Sorted
  <2> HIDE DEF r
  <2>2. {r[i] : i \in DOMAIN r} = new BY <2>1
  <2> QED BY <2>1, <2>2
<1>4. talk.heard \in Seq(Nat) BY TalkFields
<1> HIDE DEF r
<1>5. Heard' = Heard \cup new
  <2> DEFINE both == talk.heard \o r
  <2>1. {both[i] : i \in DOMAIN both} = Heard \cup {r[i] : i \in DOMAIN r}
    BY <1>3, <1>4, Joined DEF Heard
  <2>2. Heard' = {both[i] : i \in DOMAIN both} BY <1>1 DEF Heard
  <2> HIDE DEF both
  <2> QED BY <1>3, <2>1, <2>2
<1>6. (\A h \in Heard, j \in new : h < j) =>
        \A i, j \in DOMAIN talk'.heard : i < j => talk'.heard[i] < talk'.heard[j]
  <2>1. SUFFICES ASSUME \A h \in Heard, j \in new : h < j
                 PROVE \A i, j \in DOMAIN talk'.heard : i < j => talk'.heard[i] < talk'.heard[j]
    OBVIOUS
  <2>2. \A i, j \in DOMAIN talk.heard : i < j => talk.heard[i] < talk.heard[j] BY DEF HearInv
  <2>3. \A i \in DOMAIN talk.heard, j \in DOMAIN r : talk.heard[i] < r[j]
    BY <1>3, <2>1 DEF Heard
  <2> QED BY <1>1, <1>3, <1>4, <2>2, <2>3, Joined
<1>7. talk.at = "ready" /\ log' = log BY DEF Hear
<1>8. CASE talk.thread = None
  <2>1. new = {} BY <1>8 DEF Unheard
  <2>2. Heard = {} BY <1>7, <1>8 DEF HearInv, Heard
  <2>3. talk'.due = Heard' BY <1>1, <1>5, <1>8, <2>1, <2>2
  <2>4. r = << >>
    <3>1. DOMAIN r = {} BY <1>3, <2>1
    <3> QED BY <1>3, <3>1, EmptySeq
  <2>5. talk'.heard = << >> BY <1>1, <1>4, <1>7, <1>8, <2>4 DEF HearInv
  <2> QED BY <1>1, <1>8, <2>3, <2>5, NoneIsNoLog DEF HearInv
<1>9. CASE talk.thread # None
  <2>1. PICK t \in Threads : t = talk.thread BY <1>9, TalkFields
  <2>2. Listened(t) /\ new = Users(t) \ talk.accounted
    BY <1>9, <2>1 DEF HearInv, Unheard
  <2>3. Told(t) \subseteq Users(t) BY DEF Told, Users
  <2>4. Users(t) \subseteq DOMAIN log[t].rows BY DEF Users
  <2>5. Told(t)' = Told(t) /\ Users(t)' = Users(t) BY <1>7 DEF Told, Users
  <2> HIDE DEF new
  <2>6. Told(t) = Heard \cup new BY <2>2, <2>3 DEF Listened
  <2>7. talk'.due = Heard' BY <1>1, <1>5, <1>9, <2>1, <2>6
  <2>8. Listened(t)' BY <1>1, <1>5, <1>7, <2>2, <2>3, <2>4, <2>5, <2>6 DEF Listened
  <2>9. \A i, j \in DOMAIN talk'.heard : i < j => talk'.heard[i] < talk'.heard[j]
    BY <1>6, <2>2 DEF Listened
  <2> QED BY <1>1, <1>9, <2>1, <2>7, <2>8, <2>9 DEF HearInv
<1> QED BY <1>8, <1>9

-----------------------------------------------------------------------------
(* Every step of the system, as it touches a run and its log.               *)

RunInv == TypeOfRun /\ HoldInv /\ HearInv

\* What the conversation is made of is as it was.
Untouched == UNCHANGED inferVars

LEMMA UntouchedRun == ASSUME RunInv, Untouched PROVE RunInv'
<1> USE DEF Untouched, inferVars, RunInv
<1>1. TypeOfRun' BY DEF TypeOfRun
<1>2. HoldInv'
  <2>1. Named' BY DEF HoldInv, Named, LogIds
  <2>2. OneWriter' BY DEF HoldInv, OneWriter, LogIds
  <2>3. RowHeld' BY RowKept
  <2> QED BY <2>1, <2>2, <2>3 DEF HoldInv
<1>3. HearInv' BY StillHear DEF SameTalk
<1> QED BY <1>1, <1>2, <1>3

LEMMA ConversingRun == ASSUME RunInv, Conversing PROVE RunInv'
<1> USE DEF RunInv
<1>1. Named /\ RowHeld BY DEF HoldInv
<1>2. HoldInv' BY ConversingHold
<1>3. TypeOfRun'
  BY <1>1, OpenTyped, LinkTyped, OpenFailsTyped, HearTyped, ListensTyped, CallTyped, SilenceTyped,
     ComputeTyped, ResolveTyped DEF Conversing
<1>4. HearInv'
  <2>1. CASE OpenLog BY <2>1, OpenHear
  <2>2. CASE OpenFails BY <2>2, OpenFailsHear
  <2>3. CASE Hear BY <1>1, <2>3, RoundHear
  <2>4. CASE LinkLog \/ LookForStop \/ CallTool \/ Finish \/ SayNothing \/ ModelFails \/ Compute \/ Resolve
    BY <1>1, <2>4, Speaks, SpokeHear
  <2> QED BY <2>1, <2>2, <2>3, <2>4 DEF Conversing
<1> QED BY <1>2, <1>3, <1>4

LEMMA QueueRun ==
  ASSUME RunInv, Claim \/ Die \/ \E b \in BOOLEAN : Settle(b) PROVE RunInv'
<1> USE DEF RunInv
<1>1. HoldInv' BY QueueHold
<1>2. TypeOfRun' BY ClaimTyped, DieTyped, SettleTyped DEF HoldInv
<1>3. HearInv'
  <2>1. Claim \/ Die \/ Settle(TRUE) \/ Settle(FALSE) OBVIOUS
  <2> QED BY <2>1, QueueHear
<1> QED BY <1>1, <1>2, <1>3

LEMMA ElsewhereRun == ASSUME RunInv, Elsewhere PROVE RunInv'
<1> USE DEF RunInv
<1>1. SameTalk /\ log' = log BY ElsewhereTalk
<1>2. HearInv' BY <1>1, StillHear
<1> QED BY <1>2, ElsewhereTyped, ElsewhereHold

LEMMA CloseRun == ASSUME RunInv, CloseLog PROVE RunInv'
BY CloseTyped, CloseHold, CloseHear DEF RunInv, HoldInv

LEMMA WatchingRun == ASSUME RunInv, Watching PROVE RunInv'
<1> USE DEF RunInv
<1>1. Named BY DEF HoldInv
<1>2. CASE Tell BY <1>1, <1>2, TellTyped, TellHold, TellHear
<1>3. CASE TakeOver BY <1>1, <1>3, TakeTyped, TakeHold, TakeHear
<1>4. CASE FindWorking \/ FindFinished
  <2>1. SameTalk /\ log' = log BY <1>4 DEF FindWorking, FindFinished, SameTalk
  <2> QED BY <1>4, <2>1, WatchTyped, FindHold, StillHear
<1>5. CASE Stop \/ ClearRun
  <2>1. log' = log BY <1>5 DEF Stop, ClearRun
  <2>2. SameTalk BY <1>5, RowMarked DEF Stop, ClearRun, Rows, SameTalk
  <2> QED BY <1>5, <2>1, <2>2, WatchTyped, QueueHold, StillHear
<1>6. CASE RetryRun BY <1>6, ElsewhereRun DEF Elsewhere
<1> QED BY <1>2, <1>3, <1>4, <1>5, <1>6 DEF Watching

\* The worker writing its proposal holds on to its log and to what it heard.
LEMMA OnwardRun ==
  ASSUME RunInv, talk.at \in {"proposed", "keeping"}, UNCHANGED <<run, log, teller, taker, left, loose, lost>>,
         NEW at \in {"failed", "closing", "keeping"}, NEW target \in Budgets \cup {None},
         talk' = [talk EXCEPT !.at = at, !.target = target]
  PROVE RunInv'
<1> USE DEF RunInv
<1>1. /\ UNCHANGED <<talk.heard, talk.due, talk.accounted, talk.thread, talk.row>> /\ talk'.at = at
      /\ talk' \in Talks
  BY TalkFields DEF Talks, Stages
<1>2. TypeOfRun' BY <1>1 DEF TypeOfRun
<1>3. HoldInv' BY <1>1, QuietHold
<1>4. HearInv' BY <1>1, AsideHear
<1> QED BY <1>2, <1>3, <1>4

LEMMA WritingRun == ASSUME RunInv, Writing PROVE RunInv'
<1>1. talk.target \in Budgets \cup {None} /\ talk \in Talks BY TalkFields DEF RunInv
<1>2. \A at : [talk EXCEPT !.at = at] = [talk EXCEPT !.at = at, !.target = talk.target]
  BY <1>1 DEF Talks
<1>3. CASE ProposeNothing
  <2>1. talk' = [talk EXCEPT !.at = "failed", !.target = talk.target]
    BY <1>2, <1>3 DEF ProposeNothing, Onward
  <2> QED BY <1>1, <1>3, <2>1, OnwardRun DEF ProposeNothing
<1>4. CASE CreateInferred
  <2> DEFINE b == NextOf(NewBudgets)
  <2>1. NewBudgets \in SUBSET Nat /\ NewBudgets # {}
    BY <1>4, BudgetIds DEF CreateInferred, Insert, NewBudgets
  <2>2. b \in Budgets BY <2>1, LeastIsThere DEF NextOf, NewBudgets
  <2>3. talk' = [talk EXCEPT !.at = "closing", !.target = b] BY <1>4 DEF CreateInferred
  <2> HIDE DEF b
  <2> QED BY <1>4, <2>2, <2>3, OnwardRun DEF CreateInferred
<1>5. CASE ReadKept
  <2>1. \/ talk' = [talk EXCEPT !.at = "keeping", !.target = talk.target]
        \/ talk' = [talk EXCEPT !.at = "failed", !.target = talk.target]
    BY <1>2, <1>5 DEF ReadKept, Onward
  <2> QED BY <1>1, <1>5, <2>1, OnwardRun DEF ReadKept
<1>6. CASE Refresh
  <2>1. \/ talk' = [talk EXCEPT !.at = "closing", !.target = talk.target]
        \/ talk' = [talk EXCEPT !.at = "failed", !.target = talk.target]
    BY <1>2, <1>6 DEF Refresh, Onward
  <2> QED BY <1>1, <1>6, <2>1, OnwardRun DEF Refresh
<1> QED BY <1>3, <1>4, <1>5, <1>6 DEF Writing

\* A person deleting the budget a run is for, or asking for a run.
LEMMA DeletedRun == ASSUME RunInv, NEW b, DeleteBudgetRow(b) PROVE RunInv'
<1> USE DEF RunInv
<1>1. UNCHANGED <<log, talk, teller, taker, left, loose, lost>> BY DEF DeleteBudgetRow
<1>2. run' = run \/ (run # None /\ run' = [run EXCEPT !.target = None]) BY DEF DeleteBudgetRow
<1>3. run' = run \/ (/\ run # None /\ run' \in Runs /\ run' # None /\ run'.thread = run.thread
                     /\ run'.status = run.status /\ run'.other = run.other)
  <2>1. CASE run # None /\ run' = [run EXCEPT !.target = None]
    <3>1. run \in Runs BY <2>1 DEF TypeOfRun
    <3>2. /\ run' \in Runs /\ run'.thread = run.thread /\ run'.status = run.status
          /\ run'.other = run.other
      BY <2>1, <3>1 DEF Runs
    <3> QED BY <2>1, <3>2, NothingThere
  <2> QED BY <1>2, <2>1
<1>4. TypeOfRun' BY <1>1, <1>3 DEF TypeOfRun
<1>5. RowHeld' BY <1>1, <1>3, RowKept
<1>6. talk.thread # None => talk.at # "idle" BY DEF HoldInv
<1>7. HoldInv' BY <1>1, <1>3, <1>5, <1>6, RunHold
<1>8. HearInv' BY <1>1, StillHear DEF SameTalk
<1> QED BY <1>4, <1>7, <1>8

LEMMA AskForRunRun == ASSUME RunInv, AskForRun PROVE RunInv'
<1> USE DEF RunInv
<1>1. PICK target \in Budgets \cup {None} :
        run' = [status |-> "queued", target |-> target, thread |-> None, stop |-> FALSE,
                other |-> FALSE]
  BY DEF AskForRun, Existing
<1>2. run' \in Runs BY <1>1 DEF Runs, States
<1>3. left' \in Supplies BY DEF TypeOfRun, Supplies, AskForRun
<1>4. run'.thread = None BY <1>1
<1>5. UNCHANGED <<log, teller, taker, loose, lost>> BY DEF AskForRun
<1>6. talk' \in Talks /\ talk'.row = "gone" /\ SameTalk BY RowMarked DEF AskForRun, Rows
<1>7. TypeOfRun' BY <1>2, <1>3, <1>5, <1>6 DEF TypeOfRun
<1>8. talk'.thread = talk.thread /\ (talk'.thread # None => talk'.at # "idle")
  BY <1>6 DEF HoldInv, SameTalk
<1>9. RowHeld' BY <1>4, <1>6 DEF RowHeld
<1>10. HoldInv' BY <1>4, <1>5, <1>8, <1>9, RunHold
<1>11. HearInv' BY <1>5, <1>6, StillHear
<1> QED BY <1>7, <1>10, <1>11

\* The rest of what the pages and the chat do touches no run.
LEMMA TablesAside ==
  ASSUME Pages \/ Chat, ~AskForRun, ~DeleteBudget, ~ChatDeleteBudget
  PROVE Untouched
<1>1. CASE \/ CreateBudget \/ FindBudget \/ SaveBudget \/ ToggleForecast
           \/ FindSource \/ WriteCopy \/ FindBase \/ CreateLayer \/ FindLayer \/ MoveLayer
           \/ FindBudgetForItem \/ CreateItem \/ OpenItemForm \/ SaveItem \/ DeleteItem
           \/ ComputeRefinements \/ Refine
  BY <1>1 DEF Untouched, CreateBudget, FindBudget, SaveBudget, ToggleForecast, FindSource, WriteCopy,
       FindBase, CreateLayer, FindLayer, MoveLayer, FindBudgetForItem, CreateItem, OpenItemForm,
       SaveItem, DeleteItem, ComputeRefinements, Refine, Reads
<1>2. CASE ChatFindBase \/ ChatFindBudget \/ ChatListLayers \/ ChatFindForItems \/ ChatReadItem
  BY <1>2 DEF Untouched, ChatFindBase, ChatFindBudget, ChatListLayers, ChatFindForItems, ChatReadItem, Reads
<1>3. CASE ChatCreateBudget \/ ChatCreateLayer
  BY <1>3 DEF Untouched, ChatCreateBudget, ChatCreateLayer
<1>4. CASE ChatUpdateBudget BY <1>4 DEF Untouched, ChatUpdateBudget
<1>5. CASE ChatAddItems \/ ChatUpdateItem BY <1>5 DEF Untouched, ChatAddItems, ChatUpdateItem
<1> QED BY <1>1, <1>2, <1>3, <1>4, <1>5 DEF Pages, Chat

LEMMA TablesRun ==
  ASSUME RunInv, Pages \/ Chat PROVE RunInv'
<1>1. CASE AskForRun BY <1>1, AskForRunRun
<1>2. CASE DeleteBudget BY <1>2, DeletedRun DEF DeleteBudget
<1>3. CASE ChatDeleteBudget
  <2>1. DeleteBudgetRow(hand["chat"].b) \/ Untouched BY <1>3 DEF ChatDeleteBudget, Untouched
  <2> QED BY <2>1, DeletedRun, UntouchedRun
<1> QED BY <1>1, <1>2, <1>3, TablesAside, UntouchedRun

LEMMA TablesTalk == ASSUME TypeOfRun, Pages \/ Chat PROVE talk'.at = talk.at
<1>1. CASE Untouched BY <1>1 DEF Untouched, inferVars
<1>2. CASE AskForRun BY <1>2, RowMarked DEF AskForRun, Rows, SameTalk
<1>3. CASE DeleteBudget BY <1>3 DEF DeleteBudget, DeleteBudgetRow
<1>4. CASE ChatDeleteBudget BY <1>4 DEF ChatDeleteBudget, DeleteBudgetRow, inferVars
<1> QED BY <1>1, <1>2, <1>3, <1>4, TablesAside DEF Pages, Chat

LEMMA RunStep == ASSUME RunInv, [Next]_vars PROVE RunInv'
<1>1. CASE UNCHANGED vars BY <1>1, UntouchedRun DEF vars, Untouched
<1>2. CASE Claim \/ Die BY <1>2, QueueRun
<1>9. CASE Reap \/ OtherClaims \/ OtherLinks \/ OtherSettles(Existing)
  BY <1>9, ElsewhereRun DEF Elsewhere
<1>3. CASE Watching BY <1>3, WatchingRun
<1>4. CASE Conversing BY <1>4, ConversingRun
<1>5. CASE CloseLog BY <1>5, CloseRun
<1>6. CASE Settle(talk.target \in Existing)
  <2>1. (talk.target \in Existing) \in BOOLEAN OBVIOUS
  <2> QED BY <1>6, <2>1, QueueRun
<1>7. CASE Writing BY <1>7, WritingRun
<1>8. CASE Pages \/ Chat BY <1>8, TablesRun
<1> QED BY <1>1, <1>2, <1>3, <1>4, <1>5, <1>6, <1>7, <1>8, <1>9 DEF Next, Worker

\* A worker that is idle, or has its proposal ready, has written to no log yet.
LEMMA RunStart ==
  ASSUME Init, talk \in Talks, talk.thread = None, talk.heard = << >>, talk.accounted = {},
         talk.at \in {"idle", "proposed"}, RowHeld
  PROVE RunInv
<1>1. /\ log \in [Threads -> Logs \cup {None}] /\ LogIds = {} /\ teller = None /\ taker = None
      /\ loose = {} /\ lost = {}
  BY DEF LogIds, Init, InferInit
<1>2. left \in Supplies
  <2>1. left \in [{"typed", "asks", "deaths", "retries", "fails", "others"} -> Nat] BY DEF Init, Household
  <2> QED BY <2>1 DEF Supplies
<1>3. run \in Runs \cup {None} /\ (run # None => run.thread = None) BY DEF Init, Household
<1>4. TypeOfRun BY <1>1, <1>2, <1>3 DEF TypeOfRun
<1>5. Named BY <1>1, <1>3 DEF Named
<1>6. OneWriter BY <1>1 DEF OneWriter
<1>7. HoldInv BY <1>1, <1>5, <1>6 DEF HoldInv
<1>8. HearInv BY NoneIsNoLog DEF HearInv
<1> QED BY <1>4, <1>7, <1>8 DEF RunInv

LEMMA RunInit == ASSUME Init PROVE RunInv
<1>1. log \in [Threads -> Logs \cup {None}] /\ LogIds = {} BY DEF LogIds, Init, InferInit
<1>2. \/ talk = Quiet
      \/ /\ run # None => run.status = "running"
         /\ \E target \in Budgets \cup {None}, items \in SUBSET Commitments :
              talk = [Quiet EXCEPT !.at = "proposed", !.target = target, !.items = items,
                                   !.row = IF run = None THEN "gone" ELSE "held"]
  BY DEF Init, Household
<1>3. CASE talk = Quiet
  <2>1. /\ talk.thread = None /\ talk.heard = << >> /\ talk.accounted = {} /\ talk.at = "idle"
        /\ talk.row = "gone"
    BY <1>3 DEF Quiet
  <2>2. RowHeld BY <2>1 DEF RowHeld
  <2> QED BY <1>3, <2>1, <2>2, QuietTyped, RunStart
<1>4. CASE talk # Quiet
  <2>1. PICK target \in Budgets \cup {None}, items \in SUBSET Commitments :
          talk = [Quiet EXCEPT !.at = "proposed", !.target = target, !.items = items,
                               !.row = IF run = None THEN "gone" ELSE "held"]
    BY <1>2, <1>4
  <2>2. /\ talk.thread = None /\ talk.heard = << >> /\ talk.accounted = {} /\ talk.at = "proposed"
        /\ talk.row = IF run = None THEN "gone" ELSE "held"
    BY <2>1 DEF Quiet
  <2>3. talk \in Talks BY <2>1, QuietTyped DEF Talks, Stages, Rows
  <2>4. run # None => run.status = "running" /\ ~run.other BY <1>2, <1>4 DEF Init, Household
  <2>5. RowHeld BY <2>2, <2>4 DEF RowHeld
  <2> QED BY <2>2, <2>3, <2>5, RunStart
<1> QED BY <1>3, <1>4

LEMMA RunAlways == Spec => []RunInv
<1>1. Init => RunInv BY RunInit
<1>2. RunInv /\ [Next]_vars => RunInv' BY RunStep
<1> QED BY <1>1, <1>2, PTL DEF Spec

\* OneWriter: a log a person carried on as a conversation has no worker
\* writing to it, unless, when they took it over, no run row pointed at it or a
\* reaper had taken the row away from the worker.
THEOREM LogHasOneWriter == Spec => []OneWriter
<1>1. RunInv => OneWriter BY DEF RunInv, HoldInv
<1> QED BY <1>1, RunAlways, PTL

\* HeardOnce: what a person typed into a run before a round began is in front
\* of the model in that round, once, in the order it was typed, whoever wrote
\* to the log in between.
THEOREM EverythingHeard == Spec => []HeardOnce
<1>1. RunInv => HeardOnce BY DEF RunInv, HearInv, HeardOnce, Heard
<1> QED BY <1>1, RunAlways, PTL

-----------------------------------------------------------------------------
(* What a refresh inserts.                                                  *)

\* A finite set's rows, one after the other, are its rows.
LEMMA Listing ==
  ASSUME NEW S, IsFiniteSet(S)
  PROVE /\ SetToSeq(S) \in [1 .. Cardinality(S) -> S] /\ Cardinality(S) \in Nat
        /\ SetToSeq(S) \in Seq(S) /\ Len(SetToSeq(S)) = Cardinality(S)
<1>1. Cardinality(S) \in Nat /\ ExistsBijection(1 .. Cardinality(S), S) BY FS_CardinalityType
<1>2. PICK f \in [1 .. Cardinality(S) -> S] : IsInjective(f)
  BY <1>1 DEF ExistsBijection, Bijection, Injection
<1>3. SetToSeq(S) \in [1 .. Cardinality(S) -> S] BY <1>2 DEF SetToSeq
<1> HIDE DEF SetToSeq
<1> QED BY <1>1, <1>3

LEMMA FewCommitments == IsFiniteSet(Commitments)
<1> DEFINE some == Areas \X (BOOLEAN \X {"ai", "computed"})
           f == [x \in some |-> [about |-> x[1], bare |-> x[2][1], source |-> x[2][2]]]
<1>1. IsFiniteSet(BOOLEAN) /\ IsFiniteSet({"ai", "computed"})
  <2>1. BOOLEAN = {TRUE} \cup {FALSE} /\ {"ai", "computed"} = {"ai"} \cup {"computed"} OBVIOUS
  <2>2. IsFiniteSet({TRUE}) /\ IsFiniteSet({"ai"}) BY FS_Singleton
  <2>3. IsFiniteSet({FALSE}) /\ IsFiniteSet({"computed"}) BY FS_Singleton
  <2>4. IsFiniteSet({TRUE} \cup {FALSE}) BY <2>2, <2>3, FS_Union
  <2>5. IsFiniteSet({"ai"} \cup {"computed"}) BY <2>2, <2>3, FS_Union
  <2> QED BY <2>1, <2>4, <2>5
<1>2. IsFiniteSet(some) BY <1>1, DetectedAreas, FS_Product
<1>3. f \in Surjection(some, Commitments)
  <2>1. f \in [some -> Commitments] BY DEF Commitments
  <2>2. ASSUME NEW c \in Commitments PROVE \E x \in some : f[x] = c
    <3> DEFINE x == <<c.about, <<c.bare, c.source>>>>
    <3>1. /\ c.about \in Areas /\ c.bare \in BOOLEAN /\ c.source \in {"ai", "computed"}
          /\ c = [about |-> c.about, bare |-> c.bare, source |-> c.source]
      BY DEF Commitments
    <3>2. x \in some BY <3>1
    <3>3. f[x] = c BY <3>1, <3>2
    <3> QED BY <3>2, <3>3
  <2> QED BY <2>1, <2>2 DEF Surjection
<1> HIDE DEF some, f
<1> QED BY <1>2, <1>3, FS_Surjection

\* The rows a proposal is seeded with.
LEMMA FewSeeds ==
  ASSUME NEW S \in SUBSET Commitments PROVE IsFiniteSet({Seeded(r) : r \in S})
<1> DEFINE f == [r \in S |-> Seeded(r)]
           T == {Seeded(r) : r \in S}
<1>1. IsFiniteSet(S) BY FewCommitments, FS_Subset
<1>2. f \in Surjection(S, T) BY DEF Surjection
<1> HIDE DEF f, T
<1>3. IsFiniteSet(T) BY <1>1, <1>2, FS_Surjection
<1> QED BY <1>3 DEF T

\* Where nothing was, there is one of the new rows or still nothing.
LEMMA PlacedFrom ==
  ASSUME NEW b, NEW new, IsFiniteSet(new), NEW i \in Items
  PROVE Placed(b, new)[i] = rows[i] \/ \E row \in new : Placed(b, new)[i] = In(b, row)
<1> DEFINE s == SetToSeq(new)
           n == Cardinality(Items \ NewItems)
<1>1. s \in Seq(new) /\ Len(s) \in Nat /\ \A k \in 1 .. Len(s) : s[k] \in new BY Listing
<1>2. n \in Nat
  <2>1. Items \ NewItems \in SUBSET Items OBVIOUS
  <2> QED BY <2>1, BudgetIds, FS_Subset, FS_CardinalityType
<1>3. Placed(b, new)[i] = IF i \in n + 1 .. n + Len(s) THEN In(b, s[i - n]) ELSE rows[i]
  BY DEF Placed, PlacedAfter
<1> HIDE DEF s, n
<1>4. CASE i \in n + 1 .. n + Len(s)
  <2>1. i \in Int BY <1>2, <1>4
  <2>2. i - n \in 1 .. Len(s) BY <1>1, <1>2, <1>4, <2>1
  <2> QED BY <1>1, <1>3, <1>4, <2>2
<1> QED BY <1>3, <1>4

\* The pages and the chat leave what a worker read alone.
LEMMA TablesAlone == ASSUME Pages \/ Chat PROVE UNCHANGED <<kept, readAt>>
<1>1. ASSUME NEW h, AtOnce(h) PROVE UNCHANGED <<kept, readAt>> BY <1>1 DEF AtOnce
<1>2. ASSUME NEW h, Ends(h) PROVE UNCHANGED <<kept, readAt>> BY <1>2 DEF Ends
<1>3. CASE Reads BY <1>3 DEF Reads
<1>4. CASE FindBudget \/ FindSource \/ FindBase \/ FindLayer \/ FindBudgetForItem \/ OpenItemForm \/ ComputeRefinements
  BY <1>3, <1>4 DEF FindBudget, FindSource, FindBase, FindLayer, FindBudgetForItem, OpenItemForm, ComputeRefinements
<1>5. CASE ChatFindBase \/ ChatFindBudget \/ ChatListLayers \/ ChatFindForItems \/ ChatReadItem
  BY <1>3, <1>5 DEF ChatFindBase, ChatFindBudget, ChatListLayers, ChatFindForItems, ChatReadItem
<1>6. CASE CreateBudget \/ DeleteBudget \/ AskForRun \/ ChatCreateBudget
  BY <1>1, <1>6 DEF CreateBudget, DeleteBudget, AskForRun, ChatCreateBudget
<1>7. CASE DeleteItem BY <1>1, <1>7 DEF DeleteItem
<1>8. CASE SaveBudget \/ ToggleForecast \/ WriteCopy \/ CreateLayer \/ MoveLayer \/ CreateItem \/ SaveItem \/ Refine
  BY <1>2, <1>8 DEF SaveBudget, ToggleForecast, WriteCopy, CreateLayer, MoveLayer, CreateItem, SaveItem, Refine
<1>9. CASE ChatCreateLayer \/ ChatUpdateBudget \/ ChatDeleteBudget \/ ChatAddItems \/ ChatUpdateItem
  BY <1>2, <1>9 DEF ChatCreateLayer, ChatUpdateBudget, ChatDeleteBudget, ChatAddItems, ChatUpdateItem
<1> QED BY <1>4, <1>5, <1>6, <1>7, <1>8, <1>9 DEF Pages, Chat

\* Nothing but a refresh brings a worker from reading to having written.
LEMMA OnlyRefresh ==
  ASSUME RunInv, [Next]_vars, talk.at = "keeping", talk'.at = "closing" PROVE Refresh
<1> TypeOfRun BY DEF RunInv
<1>1. talk'.at # talk.at OBVIOUS
<1>2. ~UNCHANGED vars BY <1>1 DEF vars, inferVars
<1>3. ~(Claim \/ CloseLog \/ \E b \in BOOLEAN : Settle(b)) BY DEF Claim, CloseLog, Settle
<1>4. ~Die BY DEF Die, Quiet
<1>10. ~Elsewhere BY <1>1, ElsewhereTalk DEF SameTalk
<1>11. ~ClearRun BY <1>1, RowMarked DEF ClearRun, Rows, SameTalk
<1>5. ~Watching
  BY <1>1, <1>10, <1>11 DEF Watching, FindWorking, Tell, Stop, FindFinished, TakeOver, Elsewhere
<1>6. ~Conversing
  BY DEF Conversing, OpenLog, LinkLog, OpenFails, Hear, LookForStop, CallTool, Finish, SayNothing,
         ModelFails, Compute, Resolve
<1>7. ~(ProposeNothing \/ CreateInferred \/ ReadKept) BY DEF ProposeNothing, CreateInferred, ReadKept
<1>8. ~(Pages \/ Chat) BY <1>1, TablesTalk
<1>9. (talk.target \in Existing) \in BOOLEAN OBVIOUS
<1> QED BY <1>2, <1>3, <1>4, <1>5, <1>6, <1>7, <1>8, <1>9, <1>10 DEF Next, Worker, Writing, Elsewhere

\* What a worker kept is what the rows it read are about.
StreamInv == RunInv /\ \A p \in readAt : p[2] \in kept

LEMMA StreamStep == ASSUME StreamInv, [Next]_vars PROVE StreamInv'
<1>1. RunInv' BY RunStep DEF StreamInv
<1>2. CASE ReadKept
  <2>1. \/ /\ kept' = {Key(rows[i]) : i \in HandEdited(talk.target)}
           /\ readAt' = {<<i, Key(rows[i])>> : i \in HandEdited(talk.target)}
        \/ UNCHANGED <<kept, readAt>>
    BY <1>2 DEF ReadKept
  <2> QED BY <1>1, <2>1 DEF StreamInv
<1>3. CASE UNCHANGED <<kept, readAt>> BY <1>1, <1>3 DEF StreamInv
<1>4. CASE UNCHANGED vars BY <1>3, <1>4 DEF vars, budgetVars
<1>5. CASE Alone BY <1>3, <1>5 DEF Alone, budgetVars
<1>6. CASE ProposeNothing \/ CreateInferred \/ Refresh
  BY <1>3, <1>6 DEF ProposeNothing, CreateInferred, Refresh
<1>7. CASE Pages \/ Chat
  <2>1. UNCHANGED <<kept, readAt>> BY <1>7, TablesAlone
  <2> QED BY <1>3, <2>1
<1> QED BY <1>2, <1>4, <1>5, <1>6, <1>7 DEF Next, Worker, Writing

\* StreamOnce: a refresh adds no row for a commitment a row a person had taken
\* over when the worker looked still covers.
THEOREM NothingCountedTwice == Spec => StreamOnce
<1> DEFINE Once ==
      talk.at = "keeping" /\ talk'.at = "closing" =>
        \A i \in HandEdited(talk.target) : <<i, Key(rows[i])>> \in readAt =>
          \A j \in NewItems : rows'[j] # None => Key(rows'[j]) # Key(rows[i])
<1>1. Init => StreamInv BY RunInit DEF StreamInv, Init
<1>2. StreamInv /\ [Next]_vars => StreamInv' BY StreamStep
<1>3. StreamInv /\ [Next]_vars => Once
  <2>1. SUFFICES ASSUME StreamInv, [Next]_vars, talk.at = "keeping", talk'.at = "closing",
                        NEW i \in HandEdited(talk.target), <<i, Key(rows[i])>> \in readAt,
                        NEW j \in NewItems, rows'[j] # None
                 PROVE Key(rows'[j]) # Key(rows[i])
    OBVIOUS
  <2>2. Refresh BY <2>1, OnlyRefresh DEF StreamInv
  <2> DEFINE fresh == {Seeded(r) : r \in Added}
  <2>3. rows' = Without(Guesses(talk.target), Placed(talk.target, fresh))
    <3>1. talk' = [talk EXCEPT !.at = "failed"] => talk'.at = "failed"
      BY <2>1, TalkFields DEF StreamInv, RunInv, Talks
    <3> QED BY <2>1, <2>2, <3>1 DEF Refresh, Onward
  <2>4. IsFiniteSet(fresh)
    <3>1. Added \in SUBSET Commitments BY <2>1, TalkFields DEF StreamInv, RunInv, Added, Proposal
    <3> QED BY <3>1, FewSeeds
  <2>5. j \in Items /\ rows[j] = None BY DEF NewItems
  <2>6. j \notin Guesses(talk.target) BY <2>5 DEF Guesses, ItemsOf, Present
  <2>7. rows'[j] = Placed(talk.target, fresh)[j] BY <2>3, <2>5, <2>6 DEF Without
  <2>8. PICK row \in fresh : rows'[j] = In(talk.target, row)
    <3> HIDE DEF fresh
    <3>1. \/ Placed(talk.target, fresh)[j] = rows[j]
          \/ \E row \in fresh : Placed(talk.target, fresh)[j] = In(talk.target, row)
      BY <2>4, <2>5, PlacedFrom
    <3> QED BY <2>1, <2>5, <2>7, <3>1
  <2>9. PICK r \in Added : row = Seeded(r) BY <2>8
  <2>10. Key(rows'[j]) = Key(r) BY <2>8, <2>9 DEF Key, In, Seeded
  <2>11. Key(r) \notin kept BY DEF Added
  <2>12. Key(rows[i]) \in kept
    <3>1. \A p \in readAt : p[2] \in kept BY <2>1 DEF StreamInv
    <3>2. <<i, Key(rows[i])>>[2] \in kept BY <2>1, <3>1
    <3> QED BY <3>2
  <2> QED BY <2>10, <2>11, <2>12
<1>4. StreamOnce <=> [][Once]_vars BY DEF StreamOnce
<1>5. StreamInv /\ [Next]_vars => [Once]_vars BY <1>3
<1> HIDE DEF Once
<1> QED BY <1>1, <1>2, <1>4, <1>5, PTL DEF Spec
=============================================================================
