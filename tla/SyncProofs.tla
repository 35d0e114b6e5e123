----------------------------- MODULE SyncProofs -----------------------------
(* What a sync fetches and what it may write.  The window (Ingest): that no  *)
(* sync leaves a gap behind the mark.  The fields of what it fetched         *)
(* (Enrichment): who owns one, for any number of transactions, syncs, passes *)
(* and people.  Neither touches the other's state: a transaction is a day    *)
(* in the first and a row in the second.                                     *)
EXTENDS Ingest, Enrichment, TLAPS

USE WindowAssumption

\* Going back from a day ends at a day, or before the first.
LEMMA EarlierType ==
    ASSUME NEW day \in 0..LastDay, NEW n \in Nat
    PROVE  Earlier(day, n) \in 0..LastDay /\ Earlier(day, n) <= day
  BY DEF Earlier

\* A window starts on a day, or before the first.
LEMMA StartType ==
    ASSUME WindowTypeOK, NEW w \in Window PROVE Start(w) \in 0..LastDay
<1>1. today \in 0..LastDay /\ mark \in 0..LastDay BY DEF WindowTypeOK, Day
<1>2. w.days \in DayArgs \cup {0} BY DEF Window
<1>3. \A n \in DayArgs \cup {0} : n \in Nat BY WindowAssumption
<1>4. w.days \in Nat BY <1>2, <1>3, Zenon
<1> QED BY <1>1, <1>4, EarlierType DEF Start

LEMMA WindowTypeStep == ASSUME WindowTypeOK, [WindowNext]_windowVars PROVE WindowTypeOK'
<1> USE DEF WindowTypeOK
<1>1. CASE Tomorrow
  BY <1>1 DEF Tomorrow, Day, rowVars, runnerVars, askVars
<1>2. ASSUME NEW t \in Day, Show(t) PROVE WindowTypeOK'
  BY <1>2 DEF Show, rowVars, runnerVars, askVars
<1>3. ASSUME NEW r \in Run, NEW w \in Window, Find(r, w) PROVE WindowTypeOK'
  BY <1>3 DEF Find, bankVars, rowVars, runnerVars
<1>4. ASSUME NEW r \in Run, NEW w \in Window, Insert(r, w) PROVE WindowTypeOK'
  BY <1>4, Zenon DEF Insert, bankVars, runnerVars, askVars, Window, OnlyFull
<1>5. CASE Widen
  <2>1. ask.full \in BOOLEAN /\ ask.days \in DayArgs \cup {0}
    BY <1>5 DEF Window
  <2>2. full' \in [Run -> BOOLEAN] /\ days' \in [Run -> DayArgs \cup {0}]
    BY <1>5, <2>1 DEF Widen
  <2>3. OnlyFull(ask) \in BOOLEAN BY DEF OnlyFull
  <2>4. wantFull' \in [Run -> BOOLEAN]
    BY <1>5, <2>3, Zenon DEF Widen
  <2>5. ask' \in Window BY <1>5 DEF Widen, Incremental, Window
  <2> QED
    BY <1>5, <2>2, <2>4, <2>5 DEF Widen, bankVars, runnerVars
<1>6. ASSUME NEW d \in Runner, NEW r \in Run, Pick(d, r) PROVE WindowTypeOK'
  <2>1. [full |-> full[r], days |-> days[r]] \in Window BY DEF Window
  <2> QED BY <1>6, <2>1 DEF Pick, bankVars, rowVars, askVars
<1>7. ASSUME NEW d \in Runner, Claim(d) PROVE WindowTypeOK'
  BY <1>7 DEF Claim, bankVars, askVars
<1>8. ASSUME NEW d \in Runner, Drop(d)
      PROVE  /\ pc' \in [Runner -> {"idle", "picked", "claimed", "fetching", "closing"}]
             /\ run' \in [Runner -> Run \cup {NoRun}]
             /\ want' \in [Runner -> Window]
             /\ from' \in [Runner -> 0..LastDay]
             /\ cursor' \in [Runner -> 0..(LastDay + 1)]
             /\ newest' \in [Runner -> 0..LastDay]
             /\ narrow' \in [Runner -> BOOLEAN]
  <2>1. Incremental \in Window BY DEF Window, Incremental
  <2>2. narrow' \in [Runner -> BOOLEAN] BY <1>8, Zenon DEF Drop
  <2> QED BY <1>8, <2>1, <2>2 DEF Drop
<1>9. ASSUME NEW d \in Runner, ClaimLost(d) PROVE WindowTypeOK'
  BY <1>8, <1>9 DEF ClaimLost, bankVars, rowVars, askVars
<1>10. ASSUME NEW d \in Runner, BeginFetch(d) PROVE WindowTypeOK'
  <2>1. Start(want[d]) \in 0..LastDay BY StartType
  <2>2. narrow' \in [Runner -> BOOLEAN] BY <1>10, Zenon DEF BeginFetch
  <2> QED BY <1>10, <2>1, <2>2 DEF BeginFetch, bankVars, rowVars, askVars
<1>11. ASSUME NEW d \in Runner, NEW low \in 0..LastDay, Page(d, low) PROVE WindowTypeOK'
  <2>1. held' \subseteq Day BY <1>11 DEF Page
  <2>2. newest' \in [Runner -> 0..LastDay] BY <1>11 DEF Page, Day
  <2> QED BY <1>11, <2>1, <2>2 DEF Page, bankVars, rowVars, askVars
<1>12. ASSUME NEW d \in Runner, Advance(d) PROVE WindowTypeOK'
  <2>1. skipped' \in BOOLEAN BY <1>12, Zenon DEF Advance
  <2> QED BY <1>12, <2>1 DEF Advance, bankVars, rowVars, askVars
<1>13. ASSUME NEW r \in Run, End(r) \/ Requeue(r)
       PROVE  /\ status' \in [Run -> {"queued", "running", "ended"}]
              /\ full' \in [Run -> BOOLEAN] /\ days' \in [Run -> DayArgs \cup {0}]
              /\ wantFull' \in [Run -> BOOLEAN]
  <2>1. full' \in [Run -> BOOLEAN] /\ wantFull' \in [Run -> BOOLEAN]
    BY <1>13, Zenon DEF End, Requeue
  <2> QED BY <1>13, <2>1 DEF End, Requeue
<1>14. ASSUME NEW d \in Runner, run[d] \notin Run, End(run[d]) \/ Requeue(run[d])
       PROVE  /\ status' \in [Run -> {"queued", "running", "ended"}]
              /\ full' \in [Run -> BOOLEAN] /\ days' \in [Run -> DayArgs \cup {0}]
              /\ wantFull' \in [Run -> BOOLEAN]
  <2>1. full' \in [Run -> BOOLEAN] /\ wantFull' \in [Run -> BOOLEAN]
    BY <1>14, Zenon DEF End, Requeue
  <2> QED BY <1>14, <2>1 DEF End, Requeue
<1>15. ASSUME NEW d \in Runner, Close(d) PROVE WindowTypeOK'
  BY <1>8, <1>13, <1>14, <1>15 DEF Close, bankVars, askVars
<1>16. ASSUME NEW d \in Runner, Fail(d) PROVE WindowTypeOK'
  BY <1>8, <1>13, <1>14, <1>16 DEF Fail, Trouble, bankVars, askVars
<1>17. ASSUME NEW r \in Run, Reclaim(r) PROVE WindowTypeOK'
  BY <1>13, <1>17 DEF Reclaim, Trouble, bankVars, askVars, runnerVars
<1>18. ASSUME NEW d \in Runner, Crash(d) PROVE WindowTypeOK'
  BY <1>8, <1>13, <1>14, <1>18 DEF Crash, Trouble, bankVars, askVars, rowVars
<1>19. CASE UNCHANGED windowVars
  BY <1>19 DEF windowVars, bankVars, rowVars, runnerVars, askVars
<1> QED
  BY <1>1, <1>2, <1>3, <1>4, <1>5, <1>6, <1>7, <1>9, <1>10, <1>11, <1>12,
     <1>15, <1>16, <1>17, <1>18, <1>19
  DEF WindowNext, Bank, Request, Serve

\* Every field keeps its type, for any number of days, runs and runners.
THEOREM WindowTyped == WindowSpec => []WindowTypeOK
<1>1. ASSUME WindowInit PROVE WindowTypeOK
  <2>1. full \in [Run -> BOOLEAN] /\ wantFull \in [Run -> BOOLEAN]
        /\ narrow \in [Runner -> BOOLEAN]
    BY <1>1, Zenon DEF WindowInit
  <2>2. Incremental \in Window BY DEF Window, Incremental
  <2>3. 1 \in Day /\ 0 \in 0..LastDay /\ 0 \in 0..(LastDay + 1) /\ 0 \in 0..MaxTroubles
    BY WindowAssumption DEF Day
  <2> QED BY <1>1, <2>1, <2>2, <2>3 DEF WindowInit, WindowTypeOK
<1> QED BY <1>1, WindowTypeStep, PTL DEF WindowSpec

-----------------------------------------------------------------------------
(* No gap.  A run that is still fetching has everything that is missing      *)
(* ahead of it, or within the overlap of the newest date it has seen: a      *)
(* transaction that turns up behind its cursor is no older than that.        *)

Missing == shown \ held

\* The window of a run that is not too short starts at the first day, or no
\* later than the overlap before a date it has seen.
Rooted(d) == from[d] = 0 \/ from[d] + Overlap <= newest[d]

Sweeping(d) ==
    \A t \in Missing :
        /\ from[d] <= t
        /\ cursor[d] <= t => newest[d] <= t + Overlap

Sound(d) ==
    pc[d] = "fetching" =>
        /\ newest[d] \in shown \cup {0}
        /\ ~narrow[d] => Rooted(d)
        /\ ~narrow[d] /\ ~skipped => Sweeping(d)

GapInv == mark \in shown \cup {0} /\ NoGap /\ \A d \in Runner : Sound(d)

\* Steps that leave the data and the runner alone leave its claim standing.
LEMMA SoundKept ==
    ASSUME NEW d \in Runner, Sound(d), WindowTypeOK,
           shown' = shown, held \subseteq held', skipped => skipped', skipped' \in BOOLEAN,
           pc'[d] = "fetching" =>
             /\ pc[d] = "fetching" /\ from'[d] = from[d] /\ cursor'[d] = cursor[d]
             /\ newest'[d] = newest[d] /\ narrow'[d] = narrow[d]
    PROVE  Sound(d)'
  BY DEF Sound, Rooted, Sweeping, Missing

\* The windows that are not too short.
LEMMA StartRooted ==
    ASSUME WindowTypeOK, NEW w \in Window, w.days # 0 => Start(w) <= Earlier(mark, Overlap)
    PROVE  Start(w) = 0 \/ Start(w) + Overlap <= mark
<1>1. mark \in 0..LastDay /\ today \in 0..LastDay BY DEF WindowTypeOK, Day
<1>2. Earlier(mark, Overlap) = 0 \/ Earlier(mark, Overlap) + Overlap <= mark
  BY <1>1 DEF Earlier
<1>3. Earlier(today, Lookback) = 0 BY <1>1 DEF Earlier
<1>4. Start(w) \in 0..LastDay BY StartType
<1>5. Earlier(mark, Overlap) \in 0..LastDay BY <1>1, EarlierType
<1>6. CASE w.days # 0 BY <1>1, <1>2, <1>4, <1>5, <1>6
<1>7. CASE w.days = 0 BY <1>2, <1>3, <1>7 DEF Start
<1> QED BY <1>6, <1>7

\* No step of the bank, a caller, a runner or the reaper opens a gap.
LEMMA GapStep == ASSUME WindowTypeOK, GapInv, [WindowNext]_windowVars PROVE GapInv'
<1> USE DEF GapInv
<1>0. WindowTypeOK' BY WindowTypeStep
<1>1. ASSUME NEW t \in Day, Show(t) PROVE GapInv'
  <2>1. /\ shown' = shown \cup {t} /\ held' = held /\ mark' = mark
        /\ skipped' = skipped /\ pc' = pc /\ from' = from /\ cursor' = cursor
        /\ newest' = newest /\ narrow' = narrow
    BY <1>1 DEF Show, runnerVars
  <2>2. \A s \in shown \cup {0} : s <= t + Overlap BY <1>1 DEF Show, Day
  <2>3. NoGap' BY <2>1, <2>2 DEF NoGap
  <2>4. ASSUME NEW d \in Runner PROVE Sound(d)'
    <3>1. Sound(d) OBVIOUS
    <3>2. SUFFICES ASSUME pc[d] = "fetching" PROVE Sound(d)'
      BY <2>1 DEF Sound
    <3>3. newest[d] \in shown \cup {0} /\ newest[d] <= t + Overlap
      BY <2>2, <3>1, <3>2 DEF Sound
    <3>4. from[d] \in Nat /\ newest[d] \in Nat /\ t \in Nat BY DEF WindowTypeOK, Day
    <3>5. Rooted(d) => from[d] <= t BY <3>3, <3>4 DEF Rooted
    <3> QED
      BY <2>1, <3>1, <3>2, <3>3, <3>5 DEF Sound, Rooted, Sweeping, Missing
  <2> QED BY <2>1, <2>3, <2>4
<1>2. ASSUME NEW d \in Runner, BeginFetch(d) PROVE GapInv'
  <2>1. /\ shown' = shown /\ held' = held /\ mark' = mark /\ skipped' = skipped
    BY <1>2 DEF BeginFetch, bankVars
  <2>2. NoGap' BY <2>1 DEF NoGap
  <2>3. ASSUME NEW e \in Runner, e # d PROVE Sound(e)'
    <3>1. narrow'[e] = narrow[e] BY <1>2, <2>3, Zenon DEF BeginFetch, WindowTypeOK
    <3>2. skipped' \in BOOLEAN BY <1>0 DEF WindowTypeOK
    <3>3. /\ pc'[e] = pc[e] /\ from'[e] = from[e] /\ cursor'[e] = cursor[e]
          /\ newest'[e] = newest[e]
      BY <1>2, <2>3 DEF BeginFetch, WindowTypeOK
    <3> QED BY <2>1, <3>1, <3>2, <3>3, SoundKept
  <2>4. /\ pc'[d] = "fetching" /\ from'[d] = Start(want[d])
        /\ cursor'[d] = LastDay + 1 /\ newest'[d] = mark
    BY <1>2 DEF BeginFetch, WindowTypeOK
  <2>5. narrow'[d] = (want[d].days # 0 /\ Start(want[d]) > Earlier(mark, Overlap))
    BY <1>2, Zenon DEF BeginFetch, WindowTypeOK
  <2>6. want[d] \in Window /\ mark \in 0..LastDay /\ shown \subseteq Day BY DEF WindowTypeOK
  <2>7. Start(want[d]) \in 0..LastDay /\ Earlier(mark, Overlap) \in 0..LastDay
    BY <2>6, StartType, EarlierType
  <2>8. ~narrow'[d] => Start(want[d]) = 0 \/ Start(want[d]) + Overlap <= mark
    <3>1. ~narrow'[d] => (want[d].days # 0 => ~(Start(want[d]) > Earlier(mark, Overlap)))
      BY <2>5
    <3>2. ~narrow'[d] => (want[d].days # 0 => Start(want[d]) <= Earlier(mark, Overlap))
      BY <2>7, <3>1
    <3> QED BY <2>6, <3>2, StartRooted
  <2>9. \A t \in Missing : ~skipped /\ ~narrow'[d] => Start(want[d]) <= t /\ t < LastDay + 1
    <3> SUFFICES ASSUME NEW t \in Missing, ~skipped, ~narrow'[d]
                 PROVE  Start(want[d]) <= t /\ t < LastDay + 1
      OBVIOUS
    <3>1. t \in 1..LastDay BY <2>6 DEF Missing, Day
    <3>2. t + Overlap >= mark BY DEF NoGap, Missing
    <3>3. Start(want[d]) = 0 \/ Start(want[d]) + Overlap <= mark BY <2>8
    <3> HIDE DEF GapInv
    <3> QED BY <2>6, <2>7, <3>1, <3>2, <3>3
  <2>10. Sound(d)'
    BY <2>1, <2>4, <2>6, <2>8, <2>9 DEF Sound, Rooted, Sweeping, Missing, Day
  <2> QED BY <2>1, <2>2, <2>3, <2>10
<1>3. ASSUME NEW d \in Runner, NEW low \in 0..LastDay, Page(d, low) PROVE GapInv'
  <2> DEFINE batch == {t \in shown : low <= t /\ t < cursor[d]}
  <2>1. /\ shown' = shown /\ held' = held \cup batch /\ mark' = mark
        /\ skipped' = skipped /\ pc' = pc /\ from' = from /\ narrow' = narrow
        /\ cursor' = [cursor EXCEPT ![d] = low] /\ from[d] <= low
        /\ low < cursor[d] /\ pc[d] = "fetching"
    BY <1>3 DEF Page, bankVars
  <2>2. PICK m \in Day \cup {0} : /\ Newest(m, newest[d], batch)
                               /\ newest' = [newest EXCEPT ![d] = m]
    BY <1>3 DEF Page
  <2>3. NoGap' BY <2>1 DEF NoGap
  <2>4. ASSUME NEW e \in Runner, e # d PROVE Sound(e)'
    BY <2>1, <2>2, <2>4, SoundKept DEF WindowTypeOK
  <2>5. /\ cursor'[d] = low /\ newest'[d] = m /\ from'[d] = from[d]
        /\ narrow'[d] = narrow[d]
    BY <2>1, <2>2 DEF WindowTypeOK
  <2>6. /\ shown \subseteq Day /\ newest[d] \in 0..LastDay /\ from[d] \in 0..LastDay
        /\ cursor[d] \in 0..(LastDay + 1)
    BY DEF WindowTypeOK
  <2>7. Sound(d) /\ newest[d] \in shown \cup {0} BY <2>1 DEF Sound
  <2>8. /\ m \in batch \cup {newest[d]} /\ newest[d] <= m
        /\ m \in shown \cup {0} /\ (m < cursor[d] \/ m = newest[d])
    BY <2>2, <2>7 DEF Newest
  <2>9. ~narrow[d] => Rooted(d)'
    BY <2>1, <2>5, <2>6, <2>7, <2>8 DEF Sound, Rooted, Day
  <2>10. ASSUME ~narrow[d], ~skipped, NEW t \in shown \ held'
         PROVE  from[d] <= t /\ (low <= t => m <= t + Overlap)
    <3>1. t \in Missing /\ t \in Day BY <2>1, <2>6, <2>10 DEF Missing
    <3>2. from[d] <= t /\ (cursor[d] <= t => newest[d] <= t + Overlap)
      BY <2>1, <2>7, <2>10, <3>1 DEF Sound, Sweeping
    <3>3. low <= t => cursor[d] <= t BY <2>1, <2>6, <3>1 DEF Missing, Day
    <3> QED BY <2>6, <2>8, <3>1, <3>2, <3>3 DEF Day
  <2>11. Sound(d)'
    BY <2>1, <2>5, <2>8, <2>9, <2>10 DEF Sound, Sweeping, Missing
  <2> QED BY <2>1, <2>3, <2>4, <2>11
<1>4. ASSUME NEW d \in Runner, Advance(d) PROVE GapInv'
  <2>1. /\ shown' = shown /\ held' = held /\ mark' = newest[d]
        /\ pc[d] = "fetching" /\ cursor[d] = from[d]
        /\ from' = from /\ cursor' = cursor /\ newest' = newest /\ narrow' = narrow
        /\ pc' = [pc EXCEPT ![d] = "closing"]
    BY <1>4 DEF Advance, bankVars
  <2>2. skipped' <=> (skipped \/ narrow[d]) BY <1>4 DEF Advance
  <2>3. Sound(d) OBVIOUS
  <2>4. mark' \in shown' \cup {0} BY <2>1, <2>3 DEF Sound
  <2>5. NoGap'
    <3>1. SUFFICES ASSUME ~skipped', NEW t \in Missing PROVE newest[d] <= t + Overlap
      BY <2>1, <1>0 DEF NoGap, Missing, WindowTypeOK, Day
    <3>2. from[d] <= t /\ (cursor[d] <= t => newest[d] <= t + Overlap)
      BY <2>1, <2>2, <2>3, <3>1 DEF Sound, Sweeping
    <3> QED BY <2>1, <3>2
  <2>6. ASSUME NEW e \in Runner PROVE Sound(e)'
    BY <1>0, <2>1, <2>2, SoundKept DEF WindowTypeOK
  <2> QED BY <2>4, <2>5, <2>6
<1>5. ASSUME NEW d \in Runner, Drop(d), UNCHANGED <<bankVars, held, mark, skipped>>
      PROVE  GapInv'
  <2>1. NoGap' /\ mark' \in shown' \cup {0} BY <1>5 DEF NoGap, bankVars
  <2>2. ASSUME NEW e \in Runner PROVE Sound(e)'
    BY <1>5, SoundKept DEF Drop, WindowTypeOK, bankVars
  <2> QED BY <2>1, <2>2
<1>6. ASSUME NEW d \in Runner, NEW r \in Run, Pick(d, r) PROVE GapInv'
  <2>1. NoGap' /\ mark' \in shown' \cup {0} BY <1>6 DEF Pick, NoGap, bankVars
  <2>2. ASSUME NEW e \in Runner PROVE Sound(e)'
    BY <1>6, SoundKept DEF Pick, WindowTypeOK, bankVars
  <2> QED BY <2>1, <2>2
<1>7. ASSUME NEW d \in Runner, Claim(d) PROVE GapInv'
  <2>1. NoGap' /\ mark' \in shown' \cup {0} BY <1>7 DEF Claim, NoGap, bankVars
  <2>2. ASSUME NEW e \in Runner PROVE Sound(e)'
    BY <1>7, SoundKept DEF Claim, WindowTypeOK, bankVars
  <2> QED BY <2>1, <2>2
<1>8. CASE UNCHANGED <<shown, held, mark, runnerVars, skipped>>
  <2>1. NoGap' /\ mark' \in shown' \cup {0} BY <1>8 DEF NoGap
  <2>2. ASSUME NEW e \in Runner PROVE Sound(e)'
    BY <1>8, SoundKept DEF runnerVars, WindowTypeOK
  <2> QED BY <2>1, <2>2
<1> QED
  BY <1>1, <1>2, <1>3, <1>4, <1>5, <1>6, <1>7, <1>8
  DEF WindowNext, Bank, Request, Serve, Tomorrow, Find, Insert, Widen, ClaimLost, Close,
    Fail, Crash, Reclaim, bankVars, windowVars

\* However many runs fail, overlap, are run twice or die between pages, and
\* however late transactions settle within the overlap, what is missing stays
\* within reach of the next incremental sync.
THEOREM GapFree == WindowSpec => []NoGap
<1>1. WindowInit => GapInv
  BY DEF WindowInit, GapInv, NoGap, Sound
<1>2. GapInv => NoGap BY DEF GapInv
<1> QED BY <1>1, <1>2, GapStep, WindowTyped, PTL DEF WindowSpec
-----------------------------------------------------------------------------
(* The fields.                                                               *)


\* Every variable keeps its type.
LEMMA TypeKept == TypeOK /\ [Next]_vars => TypeOK'
<1> SUFFICES ASSUME TypeOK, [Next]_vars PROVE TypeOK'
  OBVIOUS
<1> USE DEF TypeOK
<1>1. NoRow \in Row /\ None \in Opinion /\ NoOpinion \in [Tx -> Opinion]
      /\ [t \in Tx |-> NoRow] \in [Tx -> Row]
      /\ [t \in Tx |-> None] \in [Tx -> Conflict \cup {None}]
  BY DEF NoRow, Row, Opinion, NoOpinion
<1>2. ASSUME NEW t \in Tx, NEW v \in Opinion, Report(t, v) PROVE TypeOK'
  BY <1>2, BoundsAssumption DEF Report, fieldVars, syncVars, passVars, histVars
<1>3. ASSUME NEW t \in Tx, NEW v \in Opinion, EditRule(t, v) PROVE TypeOK'
  BY <1>3, BoundsAssumption DEF EditRule, fieldVars, syncVars, passVars, histVars
<1>4. ASSUME NEW s \in Syncer, List(s) PROVE TypeOK'
  BY <1>4 DEF List, fieldVars, worldVars, passVars, histVars
<1>5. ASSUME NEW s \in Syncer, Read(s) PROVE TypeOK'
  BY <1>5 DEF Read, fieldVars, worldVars, passVars, histVars
<1>6. ASSUME NEW s \in Syncer, Commit(s) PROVE TypeOK'
  <2>1. row' \in [Tx -> Row]
    <3>1. \A t \in Tx : RowAfter(t, prior[s][t], page[s][t]) \in Row
      <4> TAKE t \in Tx
      <4>1. row[t] \in Row /\ page[s][t] \in Opinion
        OBVIOUS
      <4> QED
        BY <4>1 DEF RowAfter, Row
    <3> QED
      BY <1>6, <3>1 DEF Commit
  <2>2. conflict' \in [Tx -> Conflict \cup {None}]
    <3>1. ASSUME NEW t \in Tx, Defended(prior[s][t].source)
          PROVE  Reconciled(t, prior[s][t], page[s][t], known[s][t]) \in Conflict \cup {None}
      <4> DEFINE p == prior[s][t]
                 v == page[s][t]
                 c == known[s][t]
      <4>1. Lands(t, p, v, c)
        BY <1>6 DEF Commit, Landing
      <4>2. p \in Row /\ v \in Opinion /\ p.source \in {"user", "rule"} /\ p.value \in Opinion
        BY <3>1 DEF Defended, Row
      <4>3. CASE ~Diverges(p, v)
        BY <4>3 DEF Reconciled
      <4>4. CASE Diverges(p, v) /\ c = None
        <5>1. Fresh(t) # {} /\ Fresh(t) \subseteq ConflictId
          BY <4>1, <4>4, <3>1 DEF Lands, Fresh
        <5>2. (CHOOSE i \in Fresh(t) : TRUE) \in ConflictId
          BY <5>1
        <5>3. v \in Value
          BY <4>2, <4>4 DEF Diverges, Opinion
        <5> QED
          BY <4>2, <4>4, <5>2, <5>3 DEF Reconciled, Conflict
      <4>5. CASE Diverges(p, v) /\ c # None
        <5>1. conflict[t] \in Conflict
          BY <4>1, <4>5, <3>1 DEF Lands, Same
        <5>2. v \in Value
          BY <4>2, <4>5 DEF Diverges, Opinion
        <5>3. Reopened(c, v) \in BOOLEAN
          BY DEF Reopened
        <5>4. (conflict[t].open \/ Reopened(c, v)) \in BOOLEAN
          OBVIOUS
        <5>5. Reconciled(t, p, v, c)
                = [conflict[t] EXCEPT !.held = p.source, !.kept = p.value,
                                      !.theirs = v, !.open = @ \/ Reopened(c, v)]
          BY <4>5 DEF Reconciled
        <5>6. [conflict[t] EXCEPT !.held = p.source, !.kept = p.value,
                                  !.theirs = v, !.open = @ \/ Reopened(c, v)]
                \in Conflict
          <6> DEFINE d == conflict[t]
                     o == d.open \/ Reopened(c, v)
          <6>1. d \in Conflict /\ p.source \in {"user", "rule"} /\ p.value \in Opinion
                /\ v \in Value /\ o \in BOOLEAN
            BY <4>2, <5>1, <5>2, <5>4
          <6>2. ASSUME NEW x \in Conflict, NEW g \in {"user", "rule"}, NEW k \in Opinion,
                       NEW w \in Value, NEW b \in BOOLEAN
                PROVE  [x EXCEPT !.held = g, !.kept = k, !.theirs = w, !.open = b] \in Conflict
            BY DEF Conflict
          <6>3. [d EXCEPT !.held = p.source, !.kept = p.value, !.theirs = v, !.open = o]
                  \in Conflict
            <7> HIDE DEF d, o, p, v
            <7> QED
              BY <6>1, <6>2
          <6> QED
            BY <6>3
        <5> QED
          BY <5>5, <5>6
      <4> QED
        BY <4>3, <4>4, <4>5
    <3> QED
      BY <1>6, <3>1 DEF Commit
  <2>3. raced' \in [Tx -> BOOLEAN]
    BY <1>6 DEF Commit
  <2>4. Forget(s)
    BY <1>6 DEF Commit
  <2>5. /\ spc' \in [Syncer -> {"idle", "listed", "read"}]
        /\ page' \in [Syncer -> [Tx -> Opinion]]
        /\ prior' \in [Syncer -> [Tx -> Row]]
        /\ known' \in [Syncer -> [Tx -> Conflict \cup {None}]]
    BY <1>1, <2>4 DEF Forget
  <2> QED
    BY <1>6, <2>1, <2>2, <2>3, <2>5 DEF Commit, worldVars, passVars
<1>7. ASSUME NEW s \in Syncer, RolledBack(s) \/ SyncDies(s) PROVE TypeOK'
  <2>0. Forget(s)
    BY <1>7 DEF RolledBack, SyncDies
  <2>1. /\ spc' \in [Syncer -> {"idle", "listed", "read"}]
        /\ page' \in [Syncer -> [Tx -> Opinion]]
        /\ prior' \in [Syncer -> [Tx -> Row]]
        /\ known' \in [Syncer -> [Tx -> Conflict \cup {None}]]
    BY <1>1, <2>0 DEF Forget
  <2>2. UNCHANGED <<fieldVars, worldVars, passVars, asked, histVars>>
    BY <1>7 DEF RolledBack, SyncDies
  <2> QED
    BY <2>1, <2>2 DEF fieldVars, worldVars, passVars, histVars
<1>8. ASSUME NEW p \in Pass, Begin(p) PROVE TypeOK'
  BY <1>8 DEF Begin, fieldVars, worldVars, syncVars, histVars
<1>9. ASSUME NEW p \in Pass, NEW t \in Tx, Apply(p, t) PROVE TypeOK'
  <2>1. out[p][t] \in Opinion
    OBVIOUS
  <2>2. [value |-> out[p][t], source |-> "rule"] \in Row
    BY <2>1 DEF Row
  <2>3. raced' \in [Tx -> BOOLEAN]
    BY <1>9 DEF Apply
  <2> QED
    BY <1>9, <2>2, <2>3 DEF Apply, Visited, worldVars, syncVars
<1>10. ASSUME NEW p \in Pass, NEW t \in Tx, StepOver(p, t) PROVE TypeOK'
  BY <1>10 DEF StepOver, Visited, fieldVars, worldVars, syncVars, histVars
<1>11. ASSUME NEW p \in Pass, Finish(p) \/ PassDies(p) PROVE TypeOK'
  <2>1. Rest(p)
    BY <1>11 DEF Finish, PassDies
  <2>2. /\ ppc' \in [Pass -> {"idle", "running"}]
        /\ snap' \in [Pass -> [Tx -> Row]]
        /\ out' \in [Pass -> [Tx -> Opinion]]
        /\ todo' \in [Pass -> SUBSET Tx]
    BY <1>1, <2>1 DEF Rest
  <2> QED
    BY <2>1, <2>2 DEF Rest, fieldVars, worldVars, syncVars, histVars
<1>12. ASSUME NEW t \in Tx, NEW v \in Opinion, Edit(t, v) PROVE TypeOK'
  <2>1. [value |-> v, source |-> "user"] \in Row
    BY DEF Row
  <2> QED
    BY <1>12, <2>1, BoundsAssumption DEF Edit, worldVars, syncVars, passVars
<1>13. ASSUME NEW t \in Tx, Keep(t) PROVE TypeOK'
  <2>1. conflict[t] \in Conflict
    BY <1>13 DEF Keep
  <2>2. [conflict[t] EXCEPT !.open = FALSE] \in Conflict
    BY <2>1 DEF Conflict
  <2>3. conflict' \in [Tx -> Conflict \cup {None}]
    BY <1>13, <2>2 DEF Keep
  <2> QED
    BY <1>13, <2>3 DEF Keep, worldVars, syncVars, passVars, histVars
<1>14. ASSUME NEW u \in Person, NEW t \in Tx, Ask(u, t) PROVE TypeOK'
  <2>1. conflict[t] \in Conflict
    BY <1>14 DEF Ask
  <2> QED
    BY <1>14, <2>1 DEF Ask, fieldVars, worldVars, syncVars, passVars, histVars
<1>15. ASSUME NEW u \in Person, Take(u) PROVE TypeOK'
  <2> DEFINE t == asked[u].tx
             c == asked[u].seen
  <2>1. t \in Tx /\ c \in Conflict
    BY <1>15 DEF Take
  <2>2. c.theirs \in Opinion /\ Owner(c.held) \in {"user", "akahu"}
    BY <2>1 DEF Conflict, Opinion, Owner
  <2>3. [value |-> c.theirs, source |-> Owner(c.held)] \in Row
    BY <2>2 DEF Row
  <2>4. (IF c.held = "rule" THEN c.theirs ELSE Nobody) \in Opinion \cup {Nobody}
    BY <2>2
  <2> QED
    BY <1>15, <2>1, <2>3, <2>4 DEF Take, worldVars, syncVars, passVars
<1>16. ASSUME NEW u \in Person, TakeLost(u) PROVE TypeOK'
  BY <1>16 DEF TakeLost, fieldVars, worldVars, syncVars, passVars, histVars
<1>17. CASE UNCHANGED vars
  BY <1>17 DEF vars, fieldVars, worldVars, syncVars, passVars, histVars
<1> QED
  BY <1>2, <1>3, <1>4, <1>5, <1>6, <1>7, <1>8, <1>9, <1>10, <1>11, <1>12,
     <1>13, <1>14, <1>15, <1>16, <1>17
     DEF Next, World, Settle, Die, Sync, RunRules

\* Types, for any number of transactions and processes.
THEOREM TypeCorrect == Spec => []TypeOK
<1>1. Init => TypeOK
  BY BoundsAssumption DEF Init, TypeOK, NoRow, Row, Opinion, NoOpinion
<1> QED
  BY <1>1, TypeKept, PTL DEF Spec

-----------------------------------------------------------------------------
(* Why a choice stands: what a person settled is not only in the row, the    *)
(* row says it is theirs, which is what the sync and the pass look at.       *)

Owned ==
    \A t \in Tx : choice[t] # Nobody /\ ~raced[t] =>
        row[t].value = choice[t] /\ row[t].source = "user"

IInv == Owned /\ ConflictKnowsHolder

\* Steps that touch no field.
Bystander == UNCHANGED <<row, conflict, choice, raced>>

\* Reading, resting and changing one's mind touch neither the field, its conflict
\* nor what a person settled it on.
LEMMA Bystanders ==
    ASSUME Next,
           ~ \E s \in Syncer : Commit(s),
           ~ \E p \in Pass, t \in Tx : Apply(p, t),
           ~ \E t \in Tx, v \in Opinion : Edit(t, v),
           ~ \E t \in Tx : Keep(t),
           ~ \E u \in Person : Take(u)
    PROVE  Bystander
BY DEF Next, World, Settle, Die, Sync, RunRules, Report, EditRule, List, Read,
       RolledBack, SyncDies, Begin, StepOver, Finish, PassDies, Rest, Ask,
       TakeLost, fieldVars, histVars, Bystander

\* Every write leaves the field with an owner its value and its conflict agree
\* with, unless the writer's row had changed since it was read.
LEMMA IInvKept == TypeOK /\ IInv /\ [Next]_vars => IInv'
<1> SUFFICES ASSUME TypeOK, IInv, [Next]_vars PROVE IInv'
  OBVIOUS
<1>1. ASSUME NEW s \in Syncer, Commit(s) PROVE IInv'
  <2> SUFFICES ASSUME NEW t \in Tx, ~raced'[t]
               PROVE  /\ choice'[t] # Nobody => row'[t].value = choice'[t]
                                                /\ row'[t].source = "user"
                      /\ conflict'[t] # None => conflict'[t].held = row'[t].source
    BY DEF IInv, Owned, ConflictKnowsHolder
  <2> DEFINE p == prior[s][t]
             v == page[s][t]
             c == known[s][t]
  <2>1. ~raced[t] /\ row[t] = p /\ choice'[t] = choice[t]
    BY <1>1 DEF Commit, TypeOK
  <2>2. row'[t] = RowAfter(t, p, v)
    BY <1>1 DEF Commit
  <2>3. row[t] \in Row /\ p \in Row
    BY DEF TypeOK
  <2>4. CASE Defended(p.source)
    <3>1. row'[t] = row[t] /\ conflict'[t] = Reconciled(t, p, v, c)
      BY <1>1, <2>2, <2>4 DEF Commit, RowAfter
    <3>2. Lands(t, p, v, c)
      BY <1>1 DEF Commit, Landing
    <3>3. ASSUME conflict'[t] # None PROVE conflict'[t].held = row[t].source
      <4>1. CASE ~Diverges(p, v)
        <5>1. conflict'[t] = conflict[t]
          BY <3>1, <3>3, <4>1 DEF Reconciled
        <5> QED
          BY <2>1, <3>3, <5>1 DEF IInv, ConflictKnowsHolder
      <4>2. CASE Diverges(p, v) /\ c = None
        BY <2>1, <3>1, <4>2 DEF Reconciled
      <4>3. CASE Diverges(p, v) /\ c # None
        <5>1. conflict[t] \in Conflict
          BY <2>4, <3>2, <4>3 DEF Lands, Same, TypeOK
        <5>2. conflict'[t] = [conflict[t] EXCEPT !.held = p.source, !.kept = p.value,
                                  !.theirs = v, !.open = @ \/ Reopened(c, v)]
          BY <3>1, <4>3 DEF Reconciled
        <5> QED
          BY <2>1, <5>1, <5>2 DEF Conflict
      <4> QED
        BY <4>1, <4>2, <4>3
    <3> QED
      BY <2>1, <3>1, <3>3 DEF IInv, Owned
  <2>5. CASE ~Defended(p.source)
    <3>1. conflict'[t] = conflict[t]
      BY <1>1, <2>5 DEF Commit
    <3>2. row[t].source \in {"none", "akahu"}
      BY <2>1, <2>3, <2>5 DEF Defended, Row
    <3>3. choice[t] = Nobody
      BY <2>1, <3>2 DEF IInv, Owned
    <3>4. conflict[t] = None
      <4> SUFFICES ASSUME conflict[t] # None PROVE FALSE
        OBVIOUS
      <4>1. conflict[t].held \in {"user", "rule"}
        BY DEF TypeOK, Conflict
      <4> QED
        BY <2>1, <3>2, <4>1 DEF IInv, ConflictKnowsHolder
    <3> QED
      BY <2>1, <3>1, <3>3, <3>4
  <2> QED
    BY <2>4, <2>5
<1>2. ASSUME NEW p \in Pass, NEW t \in Tx, Apply(p, t) PROVE IInv'
  <2>1. /\ conflict' = conflict /\ choice' = choice
        /\ \A q \in Tx \ {t} : row'[q] = row[q] /\ raced'[q] = raced[q]
        /\ row'[t] = [value |-> out[p][t], source |-> "rule"]
    BY <1>2 DEF Apply, TypeOK
  <2>2. ~raced'[t] => ~raced[t] /\ row[t] = snap[p][t]
    BY <1>2 DEF Apply, TypeOK
  <2>3. snap[p][t].source # "user"
    BY <1>2 DEF Apply, Moves
  <2>4. ~raced'[t] => choice[t] = Nobody
    BY <2>2, <2>3 DEF IInv, Owned
  <2>5. ~raced'[t] /\ conflict[t] # None => conflict[t].held = "rule"
    <3> SUFFICES ASSUME ~raced'[t], conflict[t] # None PROVE conflict[t].held = "rule"
      OBVIOUS
    <3>1. conflict[t].held \in {"user", "rule"}
      BY DEF TypeOK, Conflict
    <3> QED
      BY <2>2, <2>3, <3>1 DEF IInv, ConflictKnowsHolder
  <2> QED
    BY <2>1, <2>4, <2>5 DEF IInv, Owned, ConflictKnowsHolder
<1>3. ASSUME NEW t \in Tx, NEW v \in Opinion, Edit(t, v) PROVE IInv'
  <2>1. /\ row'[t] = [value |-> v, source |-> "user"] /\ choice'[t] = v
        /\ conflict'[t] = None
        /\ \A q \in Tx \ {t} : /\ row'[q] = row[q] /\ raced'[q] = raced[q]
                               /\ choice'[q] = choice[q] /\ conflict'[q] = conflict[q]
    BY <1>3 DEF Edit, TypeOK
  <2> QED
    BY <2>1 DEF IInv, Owned, ConflictKnowsHolder
<1>4. ASSUME NEW t \in Tx, Keep(t) PROVE IInv'
  <2>1. conflict[t] \in Conflict /\ conflict[t] # None
    BY <1>4 DEF Keep, TypeOK
  <2>2. /\ row' = row /\ choice' = choice /\ raced' = raced
        /\ conflict'[t] = [conflict[t] EXCEPT !.open = FALSE]
        /\ \A q \in Tx \ {t} : conflict'[q] = conflict[q]
    BY <1>4 DEF Keep, TypeOK, histVars
  <2>3. conflict'[t].held = conflict[t].held
    BY <2>1, <2>2 DEF Conflict
  <2> QED
    BY <2>1, <2>2, <2>3 DEF IInv, Owned, ConflictKnowsHolder
<1>5. ASSUME NEW u \in Person, Take(u) PROVE IInv'
  <2> DEFINE t == asked[u].tx
             c == asked[u].seen
  <2>1. t \in Tx
    BY <1>5 DEF Take, TypeOK
  <2>2. /\ row'[t] = [value |-> c.theirs, source |-> Owner(c.held)]
        /\ choice'[t] = IF c.held = "rule" THEN c.theirs ELSE Nobody
        /\ conflict'[t] = None
        /\ \A q \in Tx \ {t} : /\ row'[q] = row[q] /\ raced'[q] = raced[q]
                               /\ choice'[q] = choice[q] /\ conflict'[q] = conflict[q]
    BY <1>5, <2>1 DEF Take, TypeOK
  <2>3. choice'[t] # Nobody => row'[t].value = choice'[t] /\ row'[t].source = "user"
    BY <2>2 DEF Owner
  <2> HIDE DEF t, c
  <2> QED
    BY <2>1, <2>2, <2>3 DEF IInv, Owned, ConflictKnowsHolder
<1>6. CASE Bystander
  BY <1>6 DEF Bystander, IInv, Owned, ConflictKnowsHolder
<1>7. CASE UNCHANGED vars
  BY <1>7 DEF vars, fieldVars, histVars, IInv, Owned, ConflictKnowsHolder
<1> QED
  BY <1>1, <1>2, <1>3, <1>4, <1>5, <1>6, <1>7, Bystanders

\* The strengthening the two safety properties follow from holds throughout.
THEOREM IInvHolds == Spec => []IInv
<1>1. Init => IInv
  BY DEF Init, IInv, Owned, ConflictKnowsHolder
<1> QED
  BY <1>1, TypeCorrect, IInvKept, PTL DEF Spec

\* What a person settled a field on stays until a person says otherwise, unless
\* a sync or a pass acted on a row that had changed since it read it.
THEOREM ChoiceKept == Spec => []ChoiceStands
<1>1. IInv => ChoiceStands
  BY DEF IInv, Owned, ChoiceStands
<1> QED
  BY <1>1, IInvHolds, PTL

\* A conflict names the holder of its field, under the same condition.
THEOREM HolderKnown == Spec => []ConflictKnowsHolder
<1>1. IInv => ConflictKnowsHolder
  BY DEF IInv
<1> QED
  BY <1>1, IInvHolds, PTL
-----------------------------------------------------------------------------
(* Why nobody is nagged again, while one sync at a time works on the link:   *)
(* of the conflict a sync has read only the answer can have changed since.   *)

SeenTheirs ==
    \A s \in Syncer, t \in Tx :
        Same(conflict[t], known[s][t]) => conflict[t].theirs = known[s][t].theirs

\* What Akahu said when the conflict was recorded is rewritten by syncs alone.
LEMMA SeenTheirsKept ==
    ASSUME TypeOK, SeenTheirs, [Next]_vars, \A s, r \in Syncer : s = r
    PROVE  SeenTheirs'
<1>1. ASSUME NEW s \in Syncer, Commit(s) PROVE SeenTheirs'
  <2>1. \A r \in Syncer, t \in Tx : known'[r][t] = None
    BY <1>1 DEF Commit, Forget, TypeOK
  <2> QED
    BY <2>1 DEF SeenTheirs, Same
<1>2. ASSUME NEW s \in Syncer, Read(s) PROVE SeenTheirs'
  <2>1. conflict' = conflict /\ \A r \in Syncer : known'[r] = conflict
    BY <1>2 DEF Read, fieldVars, TypeOK
  <2> QED
    BY <2>1 DEF SeenTheirs
<1>3. ASSUME NEW s \in Syncer, RolledBack(s) \/ SyncDies(s) PROVE SeenTheirs'
  <2>1. \A r \in Syncer, t \in Tx : known'[r][t] = None
    BY <1>3 DEF RolledBack, SyncDies, Forget, TypeOK
  <2> QED
    BY <2>1 DEF SeenTheirs, Same
<1>4. ASSUME NEW t \in Tx, Keep(t) PROVE SeenTheirs'
  <2>1. conflict[t] \in Conflict /\ conflict[t] # None
    BY <1>4 DEF Keep, TypeOK
  <2>2. /\ conflict'[t] = [conflict[t] EXCEPT !.open = FALSE] /\ known' = known
        /\ \A q \in Tx \ {t} : conflict'[q] = conflict[q]
    BY <1>4 DEF Keep, TypeOK, syncVars
  <2>3. conflict'[t].id = conflict[t].id /\ conflict'[t].theirs = conflict[t].theirs
    BY <2>1, <2>2 DEF Conflict
  <2> SUFFICES ASSUME NEW s \in Syncer, NEW q \in Tx, Same(conflict'[q], known[s][q])
               PROVE  conflict'[q].theirs = known[s][q].theirs
    BY <2>2 DEF SeenTheirs
  <2>4. CASE q = t
    <3>1. Same(conflict[t], known[s][t])
      BY <2>1, <2>3, <2>4 DEF Same
    <3> QED
      BY <2>3, <2>4, <3>1 DEF SeenTheirs
  <2>5. CASE q # t
    <3>1. conflict'[q] = conflict[q]
      BY <2>2, <2>5
    <3> QED
      BY <3>1 DEF SeenTheirs
  <2> QED
    BY <2>4, <2>5
<1>5. ASSUME NEW t \in Tx, NEW v \in Opinion, Edit(t, v) PROVE SeenTheirs'
  <2>1. /\ conflict'[t] = None /\ known' = known
        /\ \A q \in Tx \ {t} : conflict'[q] = conflict[q]
    BY <1>5 DEF Edit, TypeOK, syncVars
  <2> QED
    BY <2>1 DEF SeenTheirs, Same
<1>6. ASSUME NEW u \in Person, Take(u) PROVE SeenTheirs'
  <2> DEFINE t == asked[u].tx
  <2>1. /\ t \in Tx /\ conflict'[t] = None /\ known' = known
        /\ \A q \in Tx \ {t} : conflict'[q] = conflict[q]
    BY <1>6 DEF Take, TypeOK, syncVars
  <2> HIDE DEF t
  <2> QED
    BY <2>1 DEF SeenTheirs, Same
<1>7. CASE UNCHANGED <<conflict, known>>
  BY <1>7 DEF SeenTheirs
<1> QED
  BY <1>1, <1>2, <1>3, <1>4, <1>5, <1>6, <1>7
     DEF Next, World, Settle, Die, Sync, RunRules, Report, EditRule, List, Begin,
         Apply, StepOver, Finish, PassDies, Rest, Ask, TakeLost, fieldVars, syncVars, vars

\* A conflict that was dismissed opens again only with another value of Akahu's,
\* as long as one sync at a time works on the link.
THEOREM Unnagged ==
    ASSUME \A s, r \in Syncer : s = r
    PROVE  Spec => NeverRenagged
<1> DEFINE Step == \A t \in Tx :
        /\ conflict[t] # None /\ ~conflict[t].open
        /\ Same(conflict'[t], conflict[t]) /\ conflict'[t].open
        => conflict'[t].theirs # conflict[t].theirs
<1>1. Init => SeenTheirs
  BY DEF Init, SeenTheirs, Same
<1>2. TypeOK /\ SeenTheirs /\ [Next]_vars => [Step]_vars
  <2> SUFFICES ASSUME TypeOK, SeenTheirs, Next, NEW t \in Tx,
                      conflict[t] # None, ~conflict[t].open,
                      Same(conflict'[t], conflict[t]), conflict'[t].open
               PROVE  conflict'[t].theirs # conflict[t].theirs
    OBVIOUS
  <2>1. ASSUME NEW s \in Syncer, Commit(s)
        PROVE  conflict'[t].theirs # conflict[t].theirs
    <3> DEFINE p == prior[s][t]
               v == page[s][t]
               c == known[s][t]
    <3>1. Defended(p.source) /\ conflict'[t] = Reconciled(t, p, v, c)
      BY <2>1 DEF Commit
    <3>2. Lands(t, p, v, c)
      BY <2>1 DEF Commit, Landing
    <3>3. Diverges(p, v) /\ c # None
      BY <3>1, <3>2 DEF Reconciled, Lands, Same
    <3>4. Same(conflict[t], c) /\ conflict[t] \in Conflict
      BY <3>1, <3>2, <3>3 DEF Lands, TypeOK
    <3>5. conflict'[t].theirs = v /\ conflict'[t].open = (conflict[t].open \/ Reopened(c, v))
      BY <3>1, <3>3, <3>4 DEF Reconciled, Conflict
    <3>6. conflict[t].theirs = c.theirs
      BY <3>4 DEF SeenTheirs
    <3> QED
      BY <3>5, <3>6 DEF Reopened
  <2>2. ASSUME NEW q \in Tx, Keep(q) PROVE FALSE
    <3>1. q # t
      BY <2>2 DEF Keep
    <3>2. conflict'[t] = conflict[t]
      BY <2>2, <3>1 DEF Keep, TypeOK
    <3> QED
      BY <3>2
  <2>3. ASSUME NEW q \in Tx, NEW w \in Opinion, Edit(q, w) PROVE FALSE
    <3>1. conflict'[t] = conflict[t] \/ conflict'[t] = None
      BY <2>3 DEF Edit, TypeOK
    <3> QED
      BY <3>1 DEF Same
  <2>4. ASSUME NEW u \in Person, Take(u) PROVE FALSE
    <3>1. conflict'[t] = conflict[t] \/ conflict'[t] = None
      BY <2>4 DEF Take, TypeOK
    <3> QED
      BY <3>1 DEF Same
  <2>5. CASE conflict' = conflict
    BY <2>5
  <2>6. ASSUME NEW p \in Pass, NEW q \in Tx, Apply(p, q) PROVE conflict' = conflict
    BY <2>6 DEF Apply
  <2>7. ASSUME Bystander PROVE conflict' = conflict
    BY <2>7 DEF Bystander
  <2> QED
    BY <2>1, <2>2, <2>3, <2>4, <2>5, <2>6, <2>7, Bystanders
<1>3. TypeOK /\ SeenTheirs /\ [Next]_vars => SeenTheirs'
  BY SeenTheirsKept
<1>4. Spec => [][Step]_vars
  BY <1>1, <1>2, <1>3, TypeCorrect, PTL DEF Spec
<1> QED
  BY <1>4 DEF NeverRenagged
=============================================================================
