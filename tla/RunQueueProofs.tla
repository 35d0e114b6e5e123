--------------------------- MODULE RunQueueProofs ---------------------------
(***************************************************************************)
(* Theorems about RunQueue, for every number of rows, drainers, enqueuers, *)
(* every cap and every one of the four queues.                             *)
(***************************************************************************)
EXTENDS RunQueue, TLAPS

RowTypes ==
    /\ status \in [Run -> Statuses]
    /\ attempts \in [Run -> Nat]
    /\ startedAt \in [Run -> Nat]
    /\ notBefore \in [Run -> Nat]
    /\ cooling \in [Run -> BOOLEAN]
    /\ clock \in Nat

\* finalise keeps the row's types whichever way it decides.
LEMMA FinaliseType ==
    ASSUME TypeOK, NEW r, NEW n, Finalise(r, n)
    PROVE  RowTypes'
<1>1. RowTypes
  BY DEF TypeOK, RowTypes
<1>2. CASE Requeue(r, n)
  <2>1. cooling' \in [Run -> BOOLEAN]
    BY <1>1, <1>2, Zenon DEF RowTypes, Requeue
  <2>2. status' \in [Run -> Statuses]
    BY <1>1, <1>2, Zenon DEF RowTypes, Requeue, Statuses
  <2>3. notBefore' \in [Run -> Nat]
    BY <1>1, <1>2, Zenon DEF RowTypes, Requeue
  <2>4. clock' \in Nat
    BY <1>1, <1>2 DEF RowTypes, Requeue
  <2> QED BY <1>1, <1>2, <2>1, <2>2, <2>3, <2>4, Zenon DEF RowTypes, Requeue
<1>3. CASE FailForGood(r, n)
  BY <1>1, <1>3 DEF RowTypes, FailForGood, Statuses
<1>4. CASE UNCHANGED <<rowVars, clock>>
  BY <1>1, <1>4 DEF RowTypes, rowVars
<1> QED BY <1>2, <1>3, <1>4 DEF Finalise

\* Every variable stays in its type under every step.
LEMMA TypeStep == TypeOK /\ [Next]_vars => TypeOK'
<1> SUFFICES ASSUME TypeOK, [Next]_vars PROVE TypeOK'
  OBVIOUS
<1> USE BoundsAssumption DEF TypeOK, Statuses, Stages, rowVars, drainVars, enqVars, boundVars
<1>1. ASSUME NEW d \in Drainer, Reap(d) PROVE TypeOK'
  <2>1. CASE Scan(d) BY <2>1 DEF Scan
  <2>2. CASE EndReap(d) BY <2>2 DEF EndReap
  <2>3. CASE Decide(d)
    BY <2>3, FinaliseType DEF Decide, RowTypes
  <2>4. ASSUME NEW r \in Run, Flip(d, r) PROVE TypeOK' BY <2>4 DEF Flip
  <2>5. ASSUME NEW r \in Run, FlipLost(d, r) PROVE TypeOK' BY <2>5 DEF FlipLost
  <2> QED BY <1>1, <2>1, <2>2, <2>3, <2>4, <2>5 DEF Reap
<1>2. ASSUME NEW d \in Drainer, Serve(d) PROVE TypeOK'
  <2>1. CASE QueueEmpty(d) BY <2>1 DEF QueueEmpty
  <2>2. CASE Claim(d)
    <3>1. owed' \in [Run -> BOOLEAN] BY <2>2, Zenon DEF Claim
    <3>2. attempts' \in [Run -> Nat]
      <4> HIDE DEF TypeOK
      <4>1. attempts \in [Run -> Nat] BY DEF TypeOK
      <4>2. attempts' = [attempts EXCEPT ![run[d]] = attempts[run[d]] + 1]
        BY <2>2 DEF Claim
      <4>3. CASE run[d] \in Run BY <4>1, <4>2, <4>3
      <4>4. CASE run[d] \notin Run
        <5>1. attempts' = attempts BY <4>1, <4>2, <4>4, Zenon
        <5> QED BY <4>1, <5>1
      <4> QED BY <4>3, <4>4
    <3> QED BY <2>2, <3>1, <3>2 DEF Claim
  <2>3. CASE ClaimLost(d) BY <2>3 DEF ClaimLost, Release
  <2>4. ASSUME NEW r \in Run, Pick(d, r) PROVE TypeOK' BY <2>4 DEF Pick
  <2> QED BY <1>2, <2>1, <2>2, <2>3, <2>4 DEF Serve
<1>3. ASSUME NEW d \in Drainer, Finish(d) PROVE TypeOK'
  <2>1. CASE Succeed(d) BY <2>1 DEF Succeed, Release
  <2>2. CASE Fail(d)
    BY <2>2, FinaliseType DEF Fail, Release, RowTypes
  <2>3. CASE LinkGone(d) BY <2>3 DEF LinkGone, Release
  <2> QED BY <1>3, <2>1, <2>2, <2>3 DEF Finish
<1>4. ASSUME NEW d \in Drainer, Crash(d) PROVE TypeOK'
  BY <1>4 DEF Crash, Release
<1>5. ASSUME NEW e \in Enqueuer, Enqueue(e) PROVE TypeOK'
  <2>1. CASE NoneWaiting(e) BY <2>1 DEF NoneWaiting
  <2>2. CASE Reuse(e)
    <3>1. sawCooling' \in [Enqueuer -> BOOLEAN] BY <2>2, Zenon DEF Reuse
    <3>2. cooling' \in [Run -> BOOLEAN] BY <2>2, Zenon DEF Reuse
    <3>3. notBefore' \in [Run -> Nat] BY <2>2 DEF Reuse
    <3> QED BY <2>2, <3>1, <3>2, <3>3 DEF Reuse
  <2>3. ASSUME NEW r \in Run, Coalesce(e, r) PROVE TypeOK' BY <2>3 DEF Coalesce
  <2>4. ASSUME NEW r \in Run, Create(e, r) PROVE TypeOK' BY <2>4 DEF Create
  <2> QED BY <1>5, <2>1, <2>2, <2>3, <2>4 DEF Enqueue
<1>6. CASE Operate
  <2>1. CASE ListFailed BY <2>1 DEF ListFailed
  <2>2. CASE DeleteListed BY <2>2 DEF DeleteListed
  <2>3. ASSUME NEW r \in Run, Clear(r) PROVE TypeOK' BY <2>3 DEF Clear
  <2>4. ASSUME NEW r \in Run, Retry(r) PROVE TypeOK' BY <2>4 DEF Retry
  <2> QED BY <1>6, <2>1, <2>2, <2>3, <2>4 DEF Operate
<1>7. ASSUME NEW r \in Run, Elapse(r) PROVE TypeOK' BY <1>7 DEF Elapse
<1>8. CASE Age BY <1>8 DEF Age
<1>9. CASE UNCHANGED vars BY <1>9 DEF vars
<1> QED
  BY <1>1, <1>2, <1>3, <1>4, <1>5, <1>6, <1>7, <1>8, <1>9 DEF Next, Drain

\* RunQueue is type correct.
THEOREM TypeCorrect == Spec => []TypeOK
<1>1. Init => TypeOK
  BY BoundsAssumption DEF Init, TypeOK, Statuses, Stages
<1> QED BY <1>1, TypeStep, PTL DEF Spec

-----------------------------------------------------------------------------
(***************************************************************************)
(* While no process has died and no run outlasts the stale window, every   *)
(* running row has exactly one worker, holding the lease the row shows, so *)
(* no lease is ever stale, the reaper never finds anything, and a row that *)
(* owes a run is waiting for one.                                          *)
(***************************************************************************)

Held(d) ==
    pc[d] = "working" =>
        /\ run[d] \in Run
        /\ status[run[d]] \in {"running", "gone"}
        /\ status[run[d]] = "running" => startedAt[run[d]] = mark[d]

NotReaping(d) == pc[d] # "deciding" /\ todo[d] = {}

Attended(r) ==
    status[r] = "running" =>
        /\ \E d \in Drainer : Works(d, r)
        /\ startedAt[r] >= horizon

Owing(r) == owed[r] => status[r] \in {"queued", "gone"}

\* Nothing deletes a SyncRun.
Undeleted == Kind = "sync" => doomed = {} /\ \A r \in Run : status[r] # "gone"

CalmInv ==
    /\ Undeleted
    /\ horizon <= clock
    /\ \A d \in Drainer : Held(d)
    /\ \A d \in Drainer : pc[d] = "picked" => run[d] \in Run
    /\ \A d \in Drainer : NotReaping(d)
    /\ \A r \in Run : Attended(r)
    /\ \A r \in Run : Owing(r)
    /\ \A d, b \in Drainer : \A r \in Run : Works(d, r) /\ Works(b, r) => d = b

\* Calm cannot come back: the step before a calm state was calm.
LEMMA CalmBack == TypeOK /\ [Next]_vars /\ Calm' => Calm
<1> SUFFICES ASSUME TypeOK, [Next]_vars, Calm' PROVE Calm
  OBVIOUS
<1>1. crashes' = crashes \/ crashes' = crashes + 1
  BY DEF Next, vars, Drain, Reap, Serve, Finish, Crash, Enqueue, Operate,
    Scan, EndReap, Decide, Flip, FlipLost, QueueEmpty, Claim, ClaimLost, Pick,
    Succeed, Fail, LinkGone, NoneWaiting, Reuse, Coalesce, Create, ListFailed,
    DeleteListed, Clear, Retry, Elapse, Age, boundVars
<1> QED BY <1>1 DEF Calm, TypeOK

\* One conjunct of CalmInv at a time is what an action disturbs; CalmUnchanged
\* covers the steps that leave the drainers, the rows and the clocks alone.
LEMMA CalmUnchanged ==
    ASSUME Calm, CalmInv,
           UNCHANGED <<status, startedAt, pc, run, mark, todo, clock, horizon, owed,
                       doomed>>
    PROVE  CalmInv'
BY DEF CalmInv, Undeleted, Held, NotReaping, Attended, Owing, Works

\* One step of a calm system keeps the claims the drainers make about their rows.
LEMMA CalmStep == TypeOK /\ CalmInv /\ Calm /\ [Next]_vars /\ Calm' => CalmInv'
<1> SUFFICES ASSUME TypeOK, CalmInv, Calm, [Next]_vars, Calm' PROVE CalmInv'
  OBVIOUS
<1> USE DEF CalmInv, Undeleted, Held, NotReaping, Attended, Owing, Works, rowVars, enqVars,
        boundVars, drainVars
<1>0. /\ clock \in Nat /\ horizon \in Nat
      /\ pc \in [Drainer -> Stages] /\ run \in [Drainer -> Run \cup {None}]
      /\ mark \in [Drainer -> Nat] /\ todo \in [Drainer -> SUBSET Run]
      /\ status \in [Run -> Statuses] /\ startedAt \in [Run -> Nat]
      /\ owed \in [Run -> BOOLEAN]
  BY DEF TypeOK
<1>1. ASSUME NEW d \in Drainer, Scan(d) PROVE CalmInv'
  <2>1. \A r \in Run : ~Stale(r, horizon) BY <1>0 DEF Stale
  <2>2. {r \in Run : Stale(r, horizon)} = {} BY <2>1
  <2>3. todo' = [todo EXCEPT ![d] = {}] BY <1>1, <2>2 DEF Scan
  <2> QED BY <1>0, <1>1, <2>3 DEF Scan
<1>2. ASSUME NEW d \in Drainer, EndReap(d) PROVE CalmInv'
  BY <1>0, <1>2 DEF EndReap
<1>3. ASSUME NEW d \in Drainer, Decide(d) PROVE FALSE
  BY <1>3 DEF Decide
<1>4. ASSUME NEW d \in Drainer, NEW r \in Run, Flip(d, r) \/ FlipLost(d, r) PROVE FALSE
  BY <1>4 DEF Flip, FlipLost
<1>5. ASSUME NEW d \in Drainer, NEW r \in Run, Pick(d, r) PROVE CalmInv'
  BY <1>0, <1>5 DEF Pick, rowVars
<1>6. ASSUME NEW d \in Drainer, QueueEmpty(d) PROVE CalmInv'
  BY <1>0, <1>6 DEF QueueEmpty
<1>7. ASSUME NEW d \in Drainer, Claim(d) PROVE CalmInv'
  BY <1>0, <1>7 DEF Claim, StillEligible, Claimable
<1>8. ASSUME NEW d \in Drainer, ClaimLost(d) PROVE CalmInv'
  BY <1>0, <1>8 DEF ClaimLost, Release
<1>9. ASSUME NEW d \in Drainer, Succeed(d) PROVE CalmInv'
  BY <1>0, <1>9 DEF Succeed, Release, Present
<1>10. ASSUME NEW d \in Drainer, Fail(d) PROVE CalmInv'
  <2>1. CASE Requeue(run[d], seen[d] + 1)
    BY <1>0, <1>10, <2>1 DEF Fail, Release, Requeue, Present
  <2>2. CASE FailForGood(run[d], seen[d] + 1)
    BY <1>0, <1>10, <2>2 DEF Fail, Release, FailForGood, Present
  <2>3. CASE ~Present(run[d]) /\ UNCHANGED <<rowVars, clock>>
    BY <1>0, <1>10, <2>3 DEF Fail, Release, Present
  <2> QED BY <1>10, <2>1, <2>2, <2>3 DEF Fail, Finalise
<1>11. ASSUME NEW d \in Drainer, LinkGone(d) PROVE CalmInv'
  BY <1>0, <1>11 DEF LinkGone, Release
<1>12. ASSUME NEW d \in Drainer, Crash(d) PROVE FALSE
  BY <1>12 DEF Crash, Calm, TypeOK
<1>13. ASSUME NEW e \in Enqueuer, NoneWaiting(e) \/ Reuse(e) PROVE CalmInv'
  BY <1>13, CalmUnchanged DEF NoneWaiting, Reuse
<1>14. ASSUME NEW e \in Enqueuer, NEW r \in Run, Coalesce(e, r) PROVE CalmInv'
  BY <1>0, <1>14 DEF Coalesce, Waiting
<1>15. ASSUME NEW e \in Enqueuer, NEW r \in Run, Create(e, r) PROVE CalmInv'
  BY <1>0, <1>15 DEF Create
<1>16. CASE ListFailed BY <1>16 DEF ListFailed
<1>17. CASE DeleteListed BY <1>0, <1>17 DEF DeleteListed
<1>18. ASSUME NEW r \in Run, Clear(r) PROVE CalmInv'
  BY <1>0, <1>18 DEF Clear, Present
<1>19. ASSUME NEW r \in Run, Retry(r) PROVE CalmInv'
  BY <1>0, <1>19 DEF Retry
<1>20. ASSUME NEW r \in Run, Elapse(r) PROVE CalmInv'
  BY <1>20, CalmUnchanged DEF Elapse
<1>21. CASE Age
  <2>1. FALSE BY <1>0, <1>21 DEF Age, Calm
  <2> QED BY <2>1
<1>22. CASE UNCHANGED vars BY <1>22, CalmUnchanged DEF vars
<1> QED
  BY <1>1, <1>2, <1>3, <1>4, <1>5, <1>6, <1>7, <1>8, <1>9, <1>10, <1>11, <1>12,
     <1>13, <1>14, <1>15, <1>16, <1>17, <1>18, <1>19, <1>20, <1>21, <1>22
  DEF Next, Drain, Reap, Serve, Finish, Enqueue, Operate

\* A calm system keeps them throughout.
LEMMA CalmCorrect == Spec => [](TypeOK /\ (Calm => CalmInv))
<1>1. Init => CalmInv
  BY DEF Init, CalmInv, Undeleted, Held, NotReaping, Attended, Owing, Works
<1>2. TypeOK /\ (Calm => CalmInv) /\ [Next]_vars => (Calm => CalmInv)'
  BY CalmBack, CalmStep
<1> QED BY <1>1, <1>2, TypeCorrect, PTL DEF Spec

\* However many drainers overlap, a row has at most one worker and shows as
\* running while it has one, as long as nothing crashed or overran.
THEOREM Exclusive == Spec => []ExclusiveUntilCrash
<1>1. TypeOK /\ (Calm => CalmInv) => ExclusiveUntilCrash
  BY DEF CalmInv, Held, Works, ExclusiveUntilCrash
<1> QED BY <1>1, CalmCorrect, PTL

\* However reads and writes of enqueuers and drainers interleave, a caller told
\* that a run is already waiting gets a run that starts after it asked.
THEOREM Honoured == Spec => []HonouredUntilCrash
<1>1. TypeOK /\ (Calm => CalmInv) => HonouredUntilCrash
  BY DEF CalmInv, Owing, HonouredUntilCrash, Settled
<1> QED BY <1>1, CalmCorrect, PTL

\* A success is never dragged back into the queue: no step that changes rows can
\* touch one, although finalise guards on nothing but the id.
THEOREM SuccessFinal == Spec => SuccessFinalUntilCrash
<1> DEFINE Kept == \A r \in Run : status[r] = "success"
                        => status'[r] \in {"success", "gone"}
<1>1. ASSUME TypeOK, Calm, CalmInv, [Next]_vars PROVE Kept
  <2> USE DEF CalmInv, Held, NotReaping, Works
  <2>0. status \in [Run -> Statuses] BY <1>1 DEF TypeOK
  <2>1. ASSUME NEW d \in Drainer, Fail(d) PROVE Kept
    <3>1. status[run[d]] \in {"running", "gone"} BY <1>1, <2>1 DEF Fail
    <3> QED BY <2>0, <2>1, <3>1 DEF Fail, Finalise, Requeue, FailForGood, rowVars
  <2>2. ASSUME NEW d \in Drainer, Succeed(d) \/ LinkGone(d) PROVE Kept
    <3>1. status[run[d]] \in {"running", "gone"}
      BY <1>1, <2>2 DEF Succeed, LinkGone
    <3> QED BY <2>0, <2>2, <3>1 DEF Succeed, LinkGone
  <2>3. ASSUME NEW d \in Drainer, Claim(d) PROVE Kept
    BY <2>0, <2>3 DEF Claim, StillEligible, Claimable
  <2>4. ASSUME NEW d \in Drainer, Decide(d) PROVE Kept
    BY <1>1, <2>4 DEF Decide
  <2>5. ASSUME NEW d \in Drainer, NEW r \in Run, Flip(d, r) PROVE Kept
    BY <1>1, <2>5 DEF Flip
  <2>6. ASSUME NEW e \in Enqueuer, NEW r \in Run, Create(e, r) PROVE Kept
    BY <2>0, <2>6 DEF Create
  <2>7. ASSUME NEW r \in Run, Clear(r) \/ Retry(r) PROVE Kept
    BY <2>0, <2>7 DEF Clear, Retry
  <2>8. CASE DeleteListed
    BY <2>0, <2>8 DEF DeleteListed
  <2>9. CASE UNCHANGED status BY <2>9
  <2> QED
    BY <1>1, <2>1, <2>2, <2>3, <2>4, <2>5, <2>6, <2>7, <2>8, <2>9
    DEF Next, vars, rowVars, Drain, Reap, Serve, Finish, Crash, Enqueue, Operate,
      Scan, EndReap, FlipLost, QueueEmpty, ClaimLost, Pick, NoneWaiting, Reuse,
      Coalesce, ListFailed, Elapse, Age
<1>2. TypeOK /\ (Calm => CalmInv) /\ [Next]_vars => [Calm => Kept]_vars
  BY <1>1
<1> QED BY <1>2, CalmCorrect, PTL DEF Spec, SuccessFinalUntilCrash

-----------------------------------------------------------------------------
(* The attempts value a drainer decides with is never ahead of the row's.  *)

Behind(d) ==
    /\ pc[d] \in {"picked", "deciding"} =>
            run[d] \in Run /\ seen[d] <= attempts[run[d]]
    /\ pc[d] = "working" => run[d] \in Run /\ seen[d] + 1 <= attempts[run[d]]

SpentInv == FailedOnlyWhenSpent /\ \A d \in Drainer : Behind(d)

\* What a drainer has read of a row's attempts is never ahead of the row.
LEMMA SpentStep ==
    ASSUME Kind \in {"sync", "rules"}, TypeOK, SpentInv, [Next]_vars
    PROVE  SpentInv'
<1> USE BoundsAssumption DEF SpentInv, Behind, FailedOnlyWhenSpent
<1>0. /\ pc \in [Drainer -> Stages] /\ run \in [Drainer -> Run \cup {None}]
      /\ seen \in [Drainer -> Nat] /\ status \in [Run -> Statuses]
      /\ attempts \in [Run -> Nat] /\ linkGone \in [Run -> BOOLEAN]
  BY DEF TypeOK
<1>1. ASSUME NEW d \in Drainer, Claim(d) PROVE SpentInv'
  BY <1>0, <1>1 DEF Claim
<1>2. ASSUME NEW d \in Drainer, Fail(d) PROVE SpentInv'
  <2>1. CASE Requeue(run[d], seen[d] + 1)
    BY <1>0, <1>2, <2>1 DEF Fail, Release, Requeue
  <2>2. CASE FailForGood(run[d], seen[d] + 1)
    BY <1>0, <1>2, <2>2 DEF Fail, Release, FailForGood
  <2>3. CASE UNCHANGED <<rowVars, clock>>
    BY <1>0, <1>2, <2>3 DEF Fail, Release, rowVars
  <2> QED BY <1>2, <2>1, <2>2, <2>3 DEF Fail, Finalise
<1>3. ASSUME NEW d \in Drainer, Decide(d) PROVE SpentInv'
  <2>1. CASE Requeue(run[d], seen[d])
    BY <1>0, <1>3, <2>1 DEF Decide, Requeue
  <2>2. CASE FailForGood(run[d], seen[d])
    BY <1>0, <1>3, <2>2 DEF Decide, FailForGood
  <2>3. CASE UNCHANGED <<rowVars, clock>>
    BY <1>0, <1>3, <2>3 DEF Decide, rowVars
  <2> QED BY <1>3, <2>1, <2>2, <2>3 DEF Decide, Finalise
<1>4. ASSUME NEW d \in Drainer, NEW r \in Run, Flip(d, r) PROVE SpentInv'
  BY <1>0, <1>4 DEF Flip
<1>5. ASSUME NEW d \in Drainer, NEW r \in Run, Pick(d, r) PROVE SpentInv'
  BY <1>0, <1>5 DEF Pick, rowVars
<1>6. ASSUME NEW d \in Drainer, Succeed(d) PROVE SpentInv'
  BY <1>0, <1>6 DEF Succeed, Release
<1>7. ASSUME NEW d \in Drainer, LinkGone(d) PROVE SpentInv'
  <2>1. \A r \in Run : linkGone[r] => linkGone'[r] BY <1>0, <1>7, Zenon DEF LinkGone
  <2>2. linkGone'[run[d]] BY <1>0, <1>7, Zenon DEF LinkGone
  <2> QED BY <1>0, <1>7, <2>1, <2>2 DEF LinkGone, Release
<1>8. ASSUME NEW d \in Drainer,
             Crash(d) \/ ClaimLost(d) \/ QueueEmpty(d) \/ EndReap(d) \/ Scan(d)
      PROVE  SpentInv'
  BY <1>0, <1>8 DEF Crash, ClaimLost, QueueEmpty, EndReap, Scan, Release, rowVars
<1>9. ASSUME NEW d \in Drainer, NEW r \in Run, FlipLost(d, r) PROVE SpentInv'
  BY <1>0, <1>9 DEF FlipLost, rowVars
<1>10. ASSUME NEW e \in Enqueuer, NEW r \in Run, Create(e, r) PROVE SpentInv'
  BY <1>0, <1>10 DEF Create, drainVars
<1>11. CASE DeleteListed BY <1>0, <1>11 DEF DeleteListed, drainVars
<1>12. CASE UNCHANGED <<status, attempts, linkGone, pc, run, seen>>
  BY <1>12
<1> QED
  BY <1>1, <1>2, <1>3, <1>4, <1>5, <1>6, <1>7, <1>8, <1>9, <1>10, <1>11, <1>12
  DEF Next, vars, rowVars, drainVars, Drain, Reap, Serve, Finish, Enqueue,
    Operate, NoneWaiting, Reuse, Coalesce, ListFailed, Clear, Retry, Elapse, Age

\* Under any crashes and overruns, a sync or rules run that was failed for good
\* has been claimed as often as the cap allows, or its link was gone: a decision
\* taken from an outdated attempts value can only be too lenient.
THEOREM FailedSpent ==
    ASSUME Kind \in {"sync", "rules"} PROVE Spec => []FailedOnlyWhenSpent
<1>1. Init => SpentInv
  BY DEF Init, SpentInv, Behind, FailedOnlyWhenSpent
<1>2. TypeOK /\ SpentInv /\ [Next]_vars => SpentInv'
  BY SpentStep
<1>3. SpentInv => FailedOnlyWhenSpent BY DEF SpentInv
<1> QED BY <1>1, <1>2, <1>3, TypeCorrect, PTL DEF Spec

-----------------------------------------------------------------------------
(***************************************************************************)
(* Each row lives the life JobLife describes.  A drainer decides from the  *)
(* attempts it read before, and writes by id, so what has to be shown is   *)
(* that the row in its hands has gone nowhere but away and has been tried  *)
(* at least as often as the drainer thinks (Faithful).  Where a single     *)
(* drainer serves the queue this holds whatever dies, because nobody else  *)
(* moves a row out of its hands; where several do, it holds for as long as *)
(* the system is calm.                                                     *)
(***************************************************************************)

\* What `clear-failed' has listed is still there, however it has been retried.
Listed == doomed # {} => Kind = "email" /\ \A r \in doomed : Present(r)

Faithful(d) ==
    /\ pc[d] = "deciding" =>
           run[d] \in Run /\ status[run[d]] \in {"queued", "gone"} /\ seen[d] <= attempts[run[d]]
    /\ pc[d] = "working" =>
           /\ run[d] \in Run /\ status[run[d]] \in {"running", "gone"}
           /\ seen[d] + 1 <= attempts[run[d]]
    /\ pc[d] = "picked" => run[d] \in Run
Sound == Listed /\ Undeleted /\ \A d \in Drainer : Faithful(d)

InHand(d) ==
    /\ pc[d] \in {"picked", "deciding"} =>
           /\ run[d] \in Run /\ status[run[d]] \in {"queued", "gone"}
           /\ attempts[run[d]] = seen[d]
    /\ pc[d] = "working" =>
           /\ run[d] \in Run /\ status[run[d]] \in {"running", "gone"}
           /\ attempts[run[d]] = seen[d] + 1
LoneInv == Listed /\ Undeleted /\ \A d \in Drainer : InHand(d)

LEMMA LoneIsSound == TypeOK /\ LoneInv => Sound
BY DEF TypeOK, LoneInv, Sound, InHand, Faithful

\* The rows that are listed, and the queue nothing is deleted from.
LEMMA ListStep ==
    ASSUME TypeOK, Listed, Undeleted, [Next]_vars
    PROVE  Listed' /\ Undeleted'
<1> USE DEF rowVars, drainVars, enqVars, boundVars
<1>0. /\ status \in [Run -> Statuses] /\ doomed \subseteq Run
  BY DEF TypeOK
<1>1. ASSUME UNCHANGED doomed,
             \A r \in Run : Present(r) => Present(r)' \/ Kind = "inference",
             \A r \in Run : status'[r] = "gone" => status[r] = "gone" \/ Kind = "inference"
      PROVE  Listed' /\ Undeleted'
  BY <1>0, <1>1 DEF Listed, Undeleted, Kinds
<1>2. ASSUME NEW d \in Drainer, Drain(d) PROVE Listed' /\ Undeleted'
  <2>1. ASSUME NEW r, NEW n, Finalise(r, n), UNCHANGED doomed PROVE Listed' /\ Undeleted'
    BY <1>0, <1>1, <2>1 DEF Finalise, Requeue, FailForGood, Present
  <2>2. CASE Decide(d) BY <2>1, <2>2 DEF Decide
  <2>3. CASE Fail(d) BY <2>1, <2>3 DEF Fail
  <2>4. CASE Claim(d) BY <1>0, <1>1, <2>4 DEF Claim, Present, StillEligible, Claimable
  <2>5. CASE Succeed(d) BY <1>0, <1>1, <2>5 DEF Succeed, Present
  <2>6. CASE LinkGone(d)
    BY <1>0, <2>6 DEF LinkGone, Listed, Undeleted
  <2>7. ASSUME NEW r \in Run, Flip(d, r) PROVE Listed' /\ Undeleted'
    BY <1>0, <1>1, <2>7 DEF Flip, Present
  <2>8. ASSUME \/ Scan(d) \/ EndReap(d) \/ QueueEmpty(d) \/ ClaimLost(d)
               \/ \E r \in Run : FlipLost(d, r) \/ Pick(d, r)
        PROVE  UNCHANGED <<status, doomed>>
    BY <2>8 DEF Scan, EndReap, QueueEmpty, ClaimLost, FlipLost, Pick
  <2> QED BY <1>1, <1>2, <2>2, <2>3, <2>4, <2>5, <2>6, <2>7, <2>8
          DEF Drain, Reap, Serve, Finish, Present
<1>3. ASSUME NEW e \in Enqueuer, Enqueue(e) PROVE Listed' /\ Undeleted'
  <2>1. ASSUME NEW r \in Run, Create(e, r) PROVE Listed' /\ Undeleted'
    BY <1>0, <1>1, <2>1 DEF Create, Present
  <2>2. ASSUME NoneWaiting(e) \/ Reuse(e) \/ \E r \in Run : Coalesce(e, r)
        PROVE  UNCHANGED <<status, doomed>>
    BY <2>2 DEF NoneWaiting, Reuse, Coalesce
  <2> QED BY <1>1, <1>3, <2>1, <2>2 DEF Enqueue, Present
<1>4. CASE Operate
  <2>1. ASSUME NEW r \in Run, Clear(r) PROVE Listed' /\ Undeleted'
    BY <1>0, <1>1, <2>1 DEF Clear
  <2>2. ASSUME NEW r \in Run, Retry(r) PROVE Listed' /\ Undeleted'
    BY <1>0, <1>1, <2>2 DEF Retry, Present
  <2>3. CASE ListFailed BY <1>0, <2>3 DEF ListFailed, Listed, Undeleted, Present
  <2>4. CASE DeleteListed BY <1>0, <2>4 DEF DeleteListed, Listed, Undeleted
  <2> QED BY <1>4, <2>1, <2>2, <2>3, <2>4 DEF Operate
<1>5. ASSUME \/ \E r \in Run : Elapse(r)
             \/ Age \/ UNCHANGED vars \/ \E d \in Drainer : Crash(d)
      PROVE  UNCHANGED <<status, doomed>>
  BY <1>5 DEF Elapse, Age, vars, Crash
<1> QED BY <1>1, <1>2, <1>3, <1>4, <1>5 DEF Next, Present

\* A step of somebody else keeps it if it takes no row out of the drainer's hands.
LEMMA OthersLeave ==
    ASSUME \A d \in Drainer : InHand(d), UNCHANGED <<pc, run, seen>>,
           \A r \in Run : \/ status'[r] = status[r] /\ attempts'[r] = attempts[r]
                          \/ status'[r] = "gone" /\ attempts'[r] = attempts[r]
                          \/ status[r] \in {"absent", "failed"}
    PROVE  (\A d \in Drainer : InHand(d))'
BY DEF InHand

LEMMA LoneStep ==
    ASSUME \A d, b \in Drainer : d = b, TypeOK, LoneInv, [Next]_vars
    PROVE  LoneInv'
<1> USE DEF rowVars, drainVars, enqVars, boundVars
<1>0. /\ pc \in [Drainer -> Stages] /\ run \in [Drainer -> Run \cup {None}]
      /\ seen \in [Drainer -> Nat] /\ status \in [Run -> Statuses]
      /\ attempts \in [Run -> Nat] /\ doomed \subseteq Run
      /\ \A d \in Drainer : InHand(d)
      /\ Undeleted
  BY DEF TypeOK, LoneInv
<1> SUFFICES (\A d \in Drainer : InHand(d))'
  BY ListStep DEF LoneInv
<1>1. ASSUME NEW d \in Drainer, Drain(d) \/ Crash(d) PROVE (\A b \in Drainer : InHand(b))'
  <2>0. InHand(d) BY <1>0
  <2> SUFFICES InHand(d)' OBVIOUS
  <2>1. CASE Scan(d) BY <1>0, <2>1 DEF Scan, InHand
  <2>2. CASE EndReap(d) BY <1>0, <2>2 DEF EndReap, InHand
  <2>3. CASE Decide(d) BY <1>0, <2>3 DEF Decide, InHand
  <2>4. ASSUME NEW r \in Run, Flip(d, r) PROVE InHand(d)'
    BY <1>0, <2>4 DEF Flip, InHand
  <2>5. ASSUME NEW r \in Run, FlipLost(d, r) PROVE InHand(d)'
    BY <1>0, <2>5 DEF FlipLost, InHand
  <2>6. CASE QueueEmpty(d) BY <1>0, <2>6 DEF QueueEmpty, InHand
  <2>7. CASE Claim(d) BY <1>0, <2>0, <2>7 DEF Claim, InHand
  <2>8. CASE ClaimLost(d) BY <1>0, <2>8 DEF ClaimLost, Release, InHand
  <2>9. ASSUME NEW r \in Run, Pick(d, r) PROVE InHand(d)'
    BY <1>0, <2>9 DEF Pick, Claimable, InHand
  <2>10. CASE Finish(d)
    BY <1>0, <2>10 DEF Finish, Succeed, Fail, LinkGone, Release, InHand
  <2>11. CASE Crash(d) BY <1>0, <2>11 DEF Crash, Release, InHand
  <2> QED BY <1>1, <2>1, <2>2, <2>3, <2>4, <2>5, <2>6, <2>7, <2>8, <2>9, <2>10, <2>11
          DEF Drain, Reap, Serve
<1>2. ASSUME NEW e \in Enqueuer, Enqueue(e) PROVE (\A d \in Drainer : InHand(d))'
  <2>1. ASSUME NEW r \in Run, Create(e, r) PROVE (\A d \in Drainer : InHand(d))'
    BY <1>0, <2>1, OthersLeave DEF Create
  <2>2. ASSUME NoneWaiting(e) \/ Reuse(e) \/ \E r \in Run : Coalesce(e, r)
        PROVE  UNCHANGED <<status, attempts, pc, run, seen>>
    BY <2>2 DEF NoneWaiting, Reuse, Coalesce
  <2> QED BY <1>0, <1>2, <2>1, <2>2, OthersLeave DEF Enqueue
<1>3. CASE Operate
  <2>1. ASSUME NEW r \in Run, Clear(r) PROVE (\A d \in Drainer : InHand(d))'
    BY <1>0, <2>1, OthersLeave DEF Clear
  <2>2. ASSUME NEW r \in Run, Retry(r) PROVE (\A d \in Drainer : InHand(d))'
    BY <1>0, <2>2, OthersLeave DEF Retry
  <2>3. CASE ListFailed BY <1>0, <2>3, OthersLeave DEF ListFailed
  <2>4. CASE DeleteListed BY <1>0, <2>4, OthersLeave DEF DeleteListed
  <2> QED BY <1>3, <2>1, <2>2, <2>3, <2>4 DEF Operate
<1>4. ASSUME (\E r \in Run : Elapse(r)) \/ Age \/ UNCHANGED vars
      PROVE  (\A d \in Drainer : InHand(d))'
  BY <1>0, <1>4, OthersLeave DEF Elapse, Age, vars
<1> QED BY <1>1, <1>2, <1>3, <1>4 DEF Next

job == [r \in Run |-> Stage[status[r]]]

\* The stages a job's status stands for.
LEMMA Staged ==
    /\ Stage["absent"] = "none" /\ Stage["queued"] = "waiting" /\ Stage["running"] = "active"
    /\ Stage["success"] = "done" /\ Stage["failed"] = "dead" /\ Stage["gone"] = "gone"
BY DEF Stage

LEMMA LifeStep ==
    ASSUME TypeOK, Sound, [Next]_vars
    PROVE  [Life!Next]_(Life!vars)
<1> USE DEF rowVars, drainVars, enqVars, boundVars
<1>0. /\ status \in [Run -> Statuses] /\ attempts \in [Run -> Nat] /\ doomed \subseteq Run
      /\ seen \in [Drainer -> Nat]
  BY DEF TypeOK
<1>1. ASSUME UNCHANGED <<status, attempts>> PROVE UNCHANGED Life!vars
  BY <1>1 DEF Life!vars
<1>2. ASSUME NEW r \in Run, NEW n \in Nat, Finalise(r, n), n >= MaxAttempts => attempts[r] >= MaxAttempts,
             status[r] \in {"queued", "running", "gone"}
      PROVE  [Life!Next]_(Life!vars)
  <2>1. CASE Requeue(r, n) /\ status[r] = "queued"
    <3>1. UNCHANGED <<status, attempts>> BY <1>0, <2>1 DEF Requeue
    <3> QED BY <1>1, <3>1
  <2>2. CASE Requeue(r, n) /\ status[r] = "running"
    <3>1. status' = [status EXCEPT ![r] = "queued"] /\ UNCHANGED attempts BY <2>2 DEF Requeue
    <3>2. job' = [job EXCEPT ![r] = "waiting"] /\ job[r] = "active"
      BY <1>0, <2>2, <3>1, Staged DEF job
    <3>3. Life!Return(r) BY <3>1, <3>2 DEF Life!Return, Life!Move, job
    <3> QED BY <3>3 DEF Life!Next
  <2>3. CASE FailForGood(r, n)
    <3>1. status' = [status EXCEPT ![r] = "failed"] /\ UNCHANGED attempts BY <2>3 DEF FailForGood
    <3>2. job' = [job EXCEPT ![r] = "dead"] /\ job[r] \in {"active", "waiting"}
      BY <1>0, <1>2, <2>3, <3>1, Staged DEF job, FailForGood, Present
    <3>3. attempts[r] >= MaxAttempts BY <1>2, <2>3 DEF FailForGood
    <3>4. Life!GiveUp(r) BY <3>1, <3>2, <3>3 DEF Life!GiveUp, Life!Move, job
    <3> QED BY <3>4 DEF Life!Next
  <2>4. CASE UNCHANGED rowVars BY <1>1, <2>4
  <2> QED BY <1>2, <2>1, <2>2, <2>3, <2>4 DEF Finalise, Requeue, Present
<1>3. ASSUME NEW d \in Drainer, Drain(d) \/ Crash(d) PROVE [Life!Next]_(Life!vars)
  <2>0. Faithful(d) BY DEF Sound
  <2>1. CASE Decide(d)
    <3>1. /\ run[d] \in Run /\ status[run[d]] \in {"queued", "gone"}
          /\ seen[d] <= attempts[run[d]] /\ Finalise(run[d], seen[d])
      BY <2>0, <2>1 DEF Decide, Faithful
    <3> QED BY <1>0, <1>2, <3>1, BoundsAssumption
  <2>2. CASE Fail(d)
    <3>1. /\ run[d] \in Run /\ status[run[d]] \in {"running", "gone"}
          /\ seen[d] + 1 <= attempts[run[d]] /\ Finalise(run[d], seen[d] + 1)
      BY <2>0, <2>2 DEF Fail, Faithful
    <3> QED BY <1>0, <1>2, <3>1, BoundsAssumption
  <2>3. ASSUME NEW r \in Run, Flip(d, r) PROVE [Life!Next]_(Life!vars)
    <3>1. /\ status' = [status EXCEPT ![r] = "queued"] /\ UNCHANGED attempts
          /\ status[r] = "running"
      BY <2>3 DEF Flip, Stale
    <3>2. job' = [job EXCEPT ![r] = "waiting"] /\ job[r] = "active"
      BY <1>0, <3>1, Staged DEF job
    <3>3. Life!Return(r) BY <3>1, <3>2 DEF Life!Return, Life!Move, job
    <3> QED BY <3>3 DEF Life!Next
  <2>4. CASE Claim(d)
    <3> PICK r \in Run : r = run[d] BY <2>0, <2>4 DEF Claim, Faithful
    <3>1. /\ status[r] = "queued"
          /\ status' = [status EXCEPT ![r] = "running"]
          /\ attempts' = [attempts EXCEPT ![r] = @ + 1]
      BY <2>0, <2>4 DEF Claim, StillEligible, Claimable, Faithful
    <3>2. job' = [job EXCEPT ![r] = "active"] /\ job[r] = "waiting"
      BY <1>0, <3>1, Staged DEF job
    <3>3. Life!Start(r) BY <3>1, <3>2 DEF Life!Start, Life!Move, job
    <3> QED BY <3>1, <3>3 DEF Life!Next
  <2>5. CASE Succeed(d)
    <3> PICK r \in Run : r = run[d] BY <2>0, <2>5 DEF Succeed, Faithful
    <3>1. status[r] \in {"running", "gone"} /\ UNCHANGED attempts
      BY <2>0, <2>5 DEF Succeed, Faithful
    <3>2. status' = IF Present(r) THEN [status EXCEPT ![r] = "success"] ELSE status
      BY <2>5 DEF Succeed
    <3>3. CASE status[r] = "gone" BY <1>1, <3>1, <3>2, <3>3 DEF Present
    <3>4. CASE status[r] = "running"
      <4>1. status' = [status EXCEPT ![r] = "success"] BY <3>2, <3>4 DEF Present
      <4>2. job' = [job EXCEPT ![r] = "done"] /\ job[r] = "active"
        BY <1>0, <3>4, <4>1, Staged DEF job
      <4>3. Life!Complete(r) BY <3>1, <4>2 DEF Life!Complete, Life!Move, job
      <4> QED BY <3>1, <4>3 DEF Life!Next
    <3> QED BY <3>1, <3>3, <3>4
  <2>6. ASSUME \/ Scan(d) \/ EndReap(d) \/ QueueEmpty(d) \/ ClaimLost(d) \/ Crash(d)
               \/ \E r \in Run : FlipLost(d, r) \/ Pick(d, r)
        PROVE  UNCHANGED <<status, attempts>>
    BY <2>6 DEF Scan, EndReap, QueueEmpty, ClaimLost, Crash, FlipLost, Pick
  <2>7. CASE LinkGone(d)
    <3> PICK r \in Run : r = run[d] BY <2>0, <2>7 DEF LinkGone, Faithful
    <3>1. /\ Kind = "sync" /\ status[r] = "running" /\ UNCHANGED attempts
          /\ status' = [status EXCEPT ![r] = "failed"]
      BY <2>0, <2>7 DEF LinkGone, Faithful, Sound, Undeleted
    <3>2. job' = [job EXCEPT ![r] = "dead"] /\ job[r] = "active"
      BY <1>0, <3>1, Staged DEF job
    <3>3. Life!Abandon(r) BY <3>1, <3>2 DEF Life!Abandon, Life!Move, job
    <3> QED BY <3>3 DEF Life!Next
  <2> QED BY <1>1, <1>3, <2>1, <2>2, <2>3, <2>4, <2>5, <2>6, <2>7
          DEF Drain, Reap, Serve, Finish
<1>4. ASSUME NEW e \in Enqueuer, Enqueue(e) PROVE [Life!Next]_(Life!vars)
  <2>1. ASSUME NEW r \in Run, Create(e, r) PROVE [Life!Next]_(Life!vars)
    <3>1. /\ status' = [status EXCEPT ![r] = "queued"] /\ UNCHANGED attempts
          /\ status[r] = "absent"
      BY <2>1 DEF Create
    <3>2. job' = [job EXCEPT ![r] = "waiting"] /\ job[r] = "none"
      BY <1>0, <3>1, Staged DEF job
    <3>3. Life!Post(r) BY <3>1, <3>2 DEF Life!Post, Life!Move, job
    <3> QED BY <3>3 DEF Life!Next
  <2>2. ASSUME NoneWaiting(e) \/ Reuse(e) \/ \E r \in Run : Coalesce(e, r)
        PROVE  UNCHANGED <<status, attempts>>
    BY <2>2 DEF NoneWaiting, Reuse, Coalesce
  <2> QED BY <1>1, <1>4, <2>1, <2>2 DEF Enqueue
<1>5. CASE Operate
  <2>0. ASSUME NEW some \in SUBSET Run, \A r \in some : Present(r), UNCHANGED attempts,
               status' = [r \in Run |-> IF r \in some THEN "gone" ELSE status[r]]
        PROVE  [Life!Next]_(Life!vars)
    <3>1. \A r \in some : status[r] \in {"queued", "running", "success", "failed"}
      BY <1>0, <2>0 DEF Present, Statuses
    <3>2. \A r \in some : job[r] \in {"waiting", "active", "done", "dead"}
      BY <3>1, Staged DEF job
    <3>3. job' = [r \in Run |-> IF r \in some THEN "gone" ELSE job[r]]
      BY <1>0, <2>0, Staged DEF job
    <3>4. Life!Withdraw(some) BY <2>0, <3>2, <3>3 DEF Life!Withdraw, job
    <3> QED BY <3>4 DEF Life!Next
  <2>1. ASSUME NEW r \in Run, Clear(r) PROVE [Life!Next]_(Life!vars)
    <3>1. status' = [q \in Run |-> IF q \in {r} THEN "gone" ELSE status[q]]
      BY <1>0, <2>1 DEF Clear
    <3> QED BY <2>0, <2>1, <3>1 DEF Clear
  <2>2. ASSUME NEW r \in Run, Retry(r) PROVE [Life!Next]_(Life!vars)
    <3>1. /\ status' = [status EXCEPT ![r] = "queued"] /\ status[r] = "failed"
          /\ attempts' = [attempts EXCEPT ![r] = 0]
      BY <2>2 DEF Retry
    <3>2. job' = [job EXCEPT ![r] = "waiting"] /\ job[r] = "dead"
      BY <1>0, <3>1, Staged DEF job
    <3>3. Life!Reopen(r) BY <3>1, <3>2 DEF Life!Reopen, Life!Move, job
    <3> QED BY <3>3 DEF Life!Next
  <2>3. CASE DeleteListed
    BY <1>0, <2>0, <2>3 DEF DeleteListed, Sound, Listed
  <2>4. CASE ListFailed BY <1>1, <2>4 DEF ListFailed
  <2> QED BY <1>5, <2>1, <2>2, <2>3, <2>4 DEF Operate
<1>6. ASSUME (\E r \in Run : Elapse(r)) \/ Age \/ UNCHANGED vars
      PROVE  UNCHANGED <<status, attempts>>
  BY <1>6 DEF Elapse, Age, vars
<1> QED BY <1>1, <1>3, <1>4, <1>5, <1>6 DEF Next

\* Each of the four queues implements JobLife where one drainer serves it: every
\* step is a step of one job's life, or takes some jobs away, or is none, whatever
\* the drainer read, whenever it dies, and however rows are retried, cleared or
\* deleted meanwhile (LivesOneLife).
THEOREM Lives ==
    ASSUME \A d, b \in Drainer : d = b
    PROVE  Spec => LivesOneLife
<1>1. Init => LoneInv BY DEF Init, LoneInv, InHand, Listed, Undeleted
<1>2. TypeOK /\ LoneInv /\ [Next]_vars => LoneInv' BY LoneStep
<1>3. Init => Life!Init BY Staged DEF Init, Life!Init
<1>4. TypeOK /\ LoneInv /\ [Next]_vars => [Life!Next]_(Life!vars) BY LoneIsSound, LifeStep
<1> QED BY <1>1, <1>2, <1>3, <1>4, TypeCorrect, PTL DEF Spec, LivesOneLife, Life!Spec

\* With any number of drainers the sync and the rules queues implement JobLife as
\* long as the system stays calm: an overlap of drainers alone never moves a row
\* along a way no row may go, and never gives one up early.  (The other two queues
\* can be retried, and a drainer that read a row before somebody started it over
\* decides from the attempts of its former life.)
THEOREM LivesWhileCalm ==
    ASSUME Kind \in {"sync", "rules"}
    PROVE  Spec /\ []Calm => LivesOneLife
<1>1. Init => SpentInv /\ Listed /\ Undeleted
  BY DEF Init, SpentInv, Behind, FailedOnlyWhenSpent, Listed, Undeleted
<1>2. TypeOK /\ SpentInv /\ Listed /\ Undeleted /\ [Next]_vars
         => (SpentInv /\ Listed /\ Undeleted)'
  BY SpentStep, ListStep
<1>3. TypeOK /\ CalmInv /\ SpentInv /\ Listed => Sound
  BY DEF CalmInv, SpentInv, Held, NotReaping, Behind, Sound, Faithful
<1>4. Init => Life!Init BY Staged DEF Init, Life!Init
<1>5. TypeOK /\ CalmInv /\ SpentInv /\ Listed /\ [Next]_vars => [Life!Next]_(Life!vars)
  BY <1>3, LifeStep
<1> QED BY <1>1, <1>2, <1>4, <1>5, CalmCorrect, PTL DEF Spec, LivesOneLife, Life!Spec
=============================================================================
