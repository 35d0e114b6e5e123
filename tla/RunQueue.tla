------------------------------ MODULE RunQueue ------------------------------
(***************************************************************************)
(* The work queue behind every slow job of the system: SyncRun, RuleRun,   *)
(* BudgetInferenceRun and EmailOutbox rows in Postgres, enqueued by the    *)
(* web app and the command line (lib/server/queue.ts) and drained by the   *)
(* worker and by `money sync --drain` (scripts/drain.ts) under the claim,  *)
(* finalise and reap protocol of lib/server/run-queue.ts.                  *)
(*                                                                         *)
(* One instance of the module is one table and one coalescing target: one  *)
(* bank link (sync), one workspace (rules), one budget (inference), or the *)
(* outbox (email).  Every SQL statement is one step; whatever the code     *)
(* computes between two awaits belongs to the step of the statement before.*)
(*                                                                         *)
(* Time is logical.  `clock' hands out a fresh stamp for every write that  *)
(* takes the current time; `horizon' is the moment WORKER_STALE_MINUTES    *)
(* ago: a row whose startedAt is below it is stale.                        *)
(***************************************************************************)
EXTENDS Naturals, FiniteSets

CONSTANTS
    Run,            \* row ids the table may ever hold
    Drainer,        \* processes running drainOnce
    Enqueuer,       \* callers of the enqueue functions
    People,         \* the enqueuers that pass clearBackoff
    Kind,           \* which of the four queues this is
    MaxAttempts,    \* WORKER_MAX_ATTEMPTS
    SlowRuns,       \* may a live run outlast WORKER_STALE_MINUTES?
    MaxCrashes,     \* bound: process deaths
    MaxRetries,     \* bound: times a person retries a failed row
    None            \* no row

Kinds == {"sync", "rules", "inference", "email"}

ASSUME KindAssumption == Kind \in Kinds
ASSUME PeopleAssumption == People \subseteq Enqueuer
ASSUME BoundsAssumption ==
    /\ MaxAttempts \in Nat \ {0}
    /\ MaxCrashes \in Nat
    /\ MaxRetries \in Nat
    /\ SlowRuns \in BOOLEAN
ASSUME NoneAssumption == None \notin Run

VARIABLES
    status,     \* the row's status; "absent" before INSERT, "gone" after DELETE
    attempts,   \* how many times the row has been claimed
    startedAt,  \* stamp of the enqueue, or of the last claim: the lease
    notBefore,  \* stamp of the write that set nextAttemptAt, 0 when it is null
    cooling,    \* is nextAttemptAt still in the future?
    pc,         \* where each drainer is in drainOnce
    run,        \* the row a drainer has read, holds, or is reclaiming
    seen,       \* the attempts it read from that row
    mark,       \* "picked": when it read the row; "working": its lease
    todo,       \* the stale rows its reaper still has to visit
    cutoff,     \* the staleness cutoff its reaper computed
    epc,        \* where each enqueuer is in its enqueue function
    target,     \* the waiting row it read
    sawCooling, \* whether that row was sitting out a backoff
    doomed,     \* the failed rows `money email clear-failed` has listed
    clock,
    horizon,
    crashes,
    retries,
    owed,       \* history: a request was answered with this row and it has
                \* not been claimed since
    linkGone    \* history: the row was failed because its bank link is gone

rowVars == <<status, attempts, startedAt, notBefore, cooling>>
drainVars == <<pc, run, seen, mark, todo, cutoff>>
enqVars == <<epc, target, sawCooling>>
boundVars == <<crashes, retries>>
vars == <<rowVars, drainVars, enqVars, boundVars, doomed, clock, horizon,
          owed, linkGone>>

Statuses == {"absent", "queued", "running", "success", "failed", "gone"}
Stages == {"idle", "reaping", "deciding", "draining", "picked", "working"}

TypeOK ==
    /\ status \in [Run -> Statuses]
    /\ attempts \in [Run -> Nat]
    /\ startedAt \in [Run -> Nat]
    /\ notBefore \in [Run -> Nat]
    /\ cooling \in [Run -> BOOLEAN]
    /\ pc \in [Drainer -> Stages]
    /\ run \in [Drainer -> Run \cup {None}]
    /\ seen \in [Drainer -> Nat]
    /\ mark \in [Drainer -> Nat]
    /\ todo \in [Drainer -> SUBSET Run]
    /\ cutoff \in [Drainer -> Nat]
    /\ epc \in [Enqueuer -> {"idle", "reuse", "create"}]
    /\ target \in [Enqueuer -> Run \cup {None}]
    /\ sawCooling \in [Enqueuer -> BOOLEAN]
    /\ doomed \subseteq Run
    /\ clock \in Nat /\ horizon \in Nat
    /\ crashes \in Nat /\ retries \in Nat
    /\ owed \in [Run -> BOOLEAN]
    /\ linkGone \in [Run -> BOOLEAN]

Init ==
    /\ status = [r \in Run |-> "absent"]
    /\ attempts = [r \in Run |-> 0]
    /\ startedAt = [r \in Run |-> 0]
    /\ notBefore = [r \in Run |-> 0]
    /\ cooling = [r \in Run |-> FALSE]
    /\ pc = [d \in Drainer |-> "idle"]
    /\ run = [d \in Drainer |-> None]
    /\ seen = [d \in Drainer |-> 0]
    /\ mark = [d \in Drainer |-> 0]
    /\ todo = [d \in Drainer |-> {}]
    /\ cutoff = [d \in Drainer |-> 0]
    /\ epc = [e \in Enqueuer |-> "idle"]
    /\ target = [e \in Enqueuer |-> None]
    /\ sawCooling = [e \in Enqueuer |-> FALSE]
    /\ doomed = {}
    /\ clock = 1 /\ horizon = 1
    /\ crashes = 0 /\ retries = 0
    /\ owed = [r \in Run |-> FALSE]
    /\ linkGone = [r \in Run |-> FALSE]

-----------------------------------------------------------------------------
(* The retry-or-fail decision.                                             *)

Present(r) == status[r] \notin {"absent", "gone"}

\* nextState below the cap: back to queued, parked until its backoff is over.
Requeue(r, n) ==
    /\ Present(r) /\ n < MaxAttempts
    /\ status' = [status EXCEPT ![r] = "queued"]
    /\ notBefore' = [notBefore EXCEPT ![r] = clock]
    /\ cooling' = [cooling EXCEPT ![r] = TRUE]
    /\ clock' = clock + 1
    /\ UNCHANGED <<attempts, startedAt>>

\* nextState at the cap: terminal.
FailForGood(r, n) ==
    /\ Present(r) /\ n >= MaxAttempts
    /\ status' = [status EXCEPT ![r] = "failed"]
    /\ UNCHANGED <<attempts, startedAt, notBefore, cooling, clock>>

\* finalise: one updateMany by id, whatever the row's status has become; it
\* matches nothing when the row has been deleted.
Finalise(r, n) ==
    \/ Requeue(r, n)
    \/ FailForGood(r, n)
    \/ ~Present(r) /\ UNCHANGED <<rowVars, clock>>

-----------------------------------------------------------------------------
(* A drainer: reapStale, then claim and run until the queue is empty.      *)

\* Mutant of Stale: rows whose attempts are spent are not worth reclaiming.
StaleWithTriesLeft(r, limit) ==
    status[r] = "running" /\ startedAt[r] < limit /\ attempts[r] < MaxAttempts

Stale(r, limit) == status[r] = "running" /\ startedAt[r] < limit

\* reapStale's findMany.  A row's attempts cannot change while it still passes
\* the guard of Flip, so they are read there.
Scan(d) ==
    /\ pc[d] = "idle"
    /\ pc' = [pc EXCEPT ![d] = "reaping"]
    /\ todo' = [todo EXCEPT ![d] = {r \in Run : Stale(r, horizon)}]
    /\ cutoff' = [cutoff EXCEPT ![d] = horizon]
    /\ UNCHANGED <<rowVars, run, seen, mark, enqVars, boundVars, doomed,
                   clock, horizon, owed, linkGone>>

\* reapStale's guarded updateMany, when it wins the row.
Flip(d, r) ==
    /\ pc[d] = "reaping" /\ r \in todo[d]
    /\ Stale(r, cutoff[d])
    /\ status' = [status EXCEPT ![r] = "queued"]
    /\ pc' = [pc EXCEPT ![d] = "deciding"]
    /\ run' = [run EXCEPT ![d] = r]
    /\ seen' = [seen EXCEPT ![d] = attempts[r]]
    /\ todo' = [todo EXCEPT ![d] = @ \ {r}]
    /\ UNCHANGED <<attempts, startedAt, notBefore, cooling, mark, cutoff,
                   enqVars, boundVars, doomed, clock, horizon, owed, linkGone>>

\* ... and when somebody finished or took the row since the read.
FlipLost(d, r) ==
    /\ pc[d] = "reaping" /\ r \in todo[d]
    /\ ~Stale(r, cutoff[d])
    /\ todo' = [todo EXCEPT ![d] = @ \ {r}]
    /\ UNCHANGED <<rowVars, pc, run, seen, mark, cutoff, enqVars, boundVars,
                   doomed, clock, horizon, owed, linkGone>>

\* reapStale's finalise of the row it flipped.
Decide(d) ==
    /\ pc[d] = "deciding"
    /\ Finalise(run[d], seen[d])
    /\ pc' = [pc EXCEPT ![d] = "reaping"]
    /\ run' = [run EXCEPT ![d] = None]
    /\ seen' = [seen EXCEPT ![d] = 0]
    /\ UNCHANGED <<mark, todo, cutoff, enqVars, boundVars, doomed, horizon,
                   owed, linkGone>>

EndReap(d) ==
    /\ pc[d] = "reaping" /\ todo[d] = {}
    /\ pc' = [pc EXCEPT ![d] = "draining"]
    /\ cutoff' = [cutoff EXCEPT ![d] = 0]
    /\ UNCHANGED <<rowVars, run, seen, mark, todo, enqVars, boundVars, doomed,
                   clock, horizon, owed, linkGone>>

Claimable(r) == status[r] = "queued" /\ ~cooling[r]

\* findFirst orderBy startedAt asc over the eligible queued rows.
Pick(d, r) ==
    /\ pc[d] = "draining"
    /\ Claimable(r)
    /\ \A q \in Run : Claimable(q) => startedAt[r] <= startedAt[q]
    /\ pc' = [pc EXCEPT ![d] = "picked"]
    /\ run' = [run EXCEPT ![d] = r]
    /\ seen' = [seen EXCEPT ![d] = attempts[r]]
    /\ mark' = [mark EXCEPT ![d] = clock]
    /\ UNCHANGED <<rowVars, todo, cutoff, enqVars, boundVars, doomed, clock,
                   horizon, owed, linkGone>>

\* The queue is empty: the drainer moves on, and comes back on a later tick.
QueueEmpty(d) ==
    /\ pc[d] = "draining"
    /\ \A r \in Run : ~Claimable(r)
    /\ pc' = [pc EXCEPT ![d] = "idle"]
    /\ UNCHANGED <<rowVars, run, seen, mark, todo, cutoff, enqVars, boundVars,
                   doomed, clock, horizon, owed, linkGone>>

\* Mutant of StillEligible: the update is by id and backoff alone.
EligibleUnlessCooling(d) ==
    LET r == run[d] IN ~cooling[r] /\ notBefore[r] < mark[d]

\* The guard of claim's updateMany, with the eligibility the caller computed
\* before its read: a backoff written after that moment is still in its future.
StillEligible(d) ==
    LET r == run[d] IN Claimable(r) /\ notBefore[r] < mark[d]

Claim(d) ==
    /\ pc[d] = "picked" /\ StillEligible(d)
    /\ status' = [status EXCEPT ![run[d]] = "running"]
    /\ startedAt' = [startedAt EXCEPT ![run[d]] = clock]
    /\ attempts' = [attempts EXCEPT ![run[d]] = @ + 1]
    /\ pc' = [pc EXCEPT ![d] = "working"]
    /\ mark' = [mark EXCEPT ![d] = clock]
    /\ clock' = clock + 1
    /\ owed' = [owed EXCEPT ![run[d]] = FALSE]
    /\ UNCHANGED <<notBefore, cooling, run, seen, todo, cutoff, enqVars,
                   boundVars, doomed, horizon, linkGone>>

\* Where a drainer goes when its job is done with: back to the queue.
Release(d, stage) ==
    /\ pc' = [pc EXCEPT ![d] = stage]
    /\ run' = [run EXCEPT ![d] = None]
    /\ seen' = [seen EXCEPT ![d] = 0]
    /\ mark' = [mark EXCEPT ![d] = 0]

\* Somebody else took the row: claimAndRun answers false, which ends the loop.
ClaimLost(d) ==
    /\ pc[d] = "picked" /\ ~StillEligible(d)
    /\ Release(d, "idle")
    /\ UNCHANGED <<rowVars, todo, cutoff, enqVars, boundVars, doomed, clock,
                   horizon, owed, linkGone>>

\* The job came back: the row is written success by id, or not at all when it
\* has been deleted meanwhile.
Succeed(d) ==
    /\ pc[d] = "working"
    /\ status' = IF Present(run[d])
                 THEN [status EXCEPT ![run[d]] = "success"] ELSE status
    /\ Release(d, "draining")
    /\ UNCHANGED <<attempts, startedAt, notBefore, cooling, todo, cutoff,
                   enqVars, boundVars, doomed, clock, horizon, owed, linkGone>>

\* The job threw: finalise with the attempts read before the claim, plus one.
Fail(d) ==
    /\ pc[d] = "working"
    /\ Finalise(run[d], seen[d] + 1)
    /\ Release(d, "draining")
    /\ UNCHANGED <<todo, cutoff, enqVars, boundVars, doomed, horizon, owed,
                   linkGone>>

\* A sync whose link is no longer active: failed outright, attempts or not.
LinkGone(d) ==
    /\ Kind = "sync" /\ pc[d] = "working"
    /\ status' = [status EXCEPT ![run[d]] = "failed"]
    /\ linkGone' = [linkGone EXCEPT ![run[d]] = TRUE]
    /\ Release(d, "draining")
    /\ UNCHANGED <<attempts, startedAt, notBefore, cooling, todo, cutoff,
                   enqVars, boundVars, doomed, clock, horizon, owed>>

\* The process dies and is started again with nothing in memory.
Crash(d) ==
    /\ pc[d] # "idle" /\ crashes < MaxCrashes
    /\ crashes' = crashes + 1
    /\ Release(d, "idle")
    /\ todo' = [todo EXCEPT ![d] = {}]
    /\ cutoff' = [cutoff EXCEPT ![d] = 0]
    /\ UNCHANGED <<rowVars, enqVars, retries, doomed, clock, horizon, owed,
                   linkGone>>

-----------------------------------------------------------------------------
(* Enqueuers: read the row already waiting, then reuse it or insert one.   *)

Waiting(r) == status[r] = "queued"

\* findFirst found a waiting row.  Answering with it is a promise that the work
\* will be done by a run that starts after the question was asked.
Coalesce(e, r) ==
    /\ Kind # "email" /\ epc[e] = "idle"
    /\ Waiting(r)
    /\ \A q \in Run : Waiting(q) => startedAt[r] <= startedAt[q]
    /\ epc' = [epc EXCEPT ![e] = "reuse"]
    /\ target' = [target EXCEPT ![e] = r]
    /\ sawCooling' = [sawCooling EXCEPT ![e] = cooling[r]]
    /\ owed' = [owed EXCEPT ![r] = TRUE]
    /\ UNCHANGED <<rowVars, drainVars, boundVars, doomed, clock, horizon,
                   linkGone>>

\* findFirst found none (the outbox does not look).
NoneWaiting(e) ==
    /\ epc[e] = "idle"
    /\ Kind = "email" \/ \A r \in Run : ~Waiting(r)
    /\ \E r \in Run : status[r] = "absent"
    /\ epc' = [epc EXCEPT ![e] = "create"]
    /\ UNCHANGED <<rowVars, drainVars, boundVars, doomed, target, sawCooling,
                   clock, horizon, owed, linkGone>>

\* The update of the waiting row, by id: a person drops the backoff it saw, a
\* timer leaves it.  The row may have moved on since.
Reuse(e) ==
    /\ epc[e] = "reuse"
    /\ IF e \in People /\ sawCooling[e] /\ Present(target[e])
       THEN /\ notBefore' = [notBefore EXCEPT ![target[e]] = 0]
            /\ cooling' = [cooling EXCEPT ![target[e]] = FALSE]
       ELSE UNCHANGED <<notBefore, cooling>>
    /\ epc' = [epc EXCEPT ![e] = "idle"]
    /\ target' = [target EXCEPT ![e] = None]
    /\ sawCooling' = [sawCooling EXCEPT ![e] = FALSE]
    /\ UNCHANGED <<status, attempts, startedAt, drainVars, boundVars, doomed,
                   clock, horizon, owed, linkGone>>

\* The insert.
Create(e, r) ==
    /\ epc[e] = "create" /\ status[r] = "absent"
    /\ status' = [status EXCEPT ![r] = "queued"]
    /\ startedAt' = [startedAt EXCEPT ![r] = clock]
    /\ clock' = clock + 1
    /\ owed' = [owed EXCEPT ![r] = TRUE]
    /\ epc' = [epc EXCEPT ![e] = "idle"]
    /\ UNCHANGED <<attempts, notBefore, cooling, drainVars, target, sawCooling,
                   boundVars, doomed, horizon, linkGone>>

-----------------------------------------------------------------------------
(* What people do to rows, and time.                                       *)

\* clearInferenceRun deletes the row whatever it is doing.
Clear(r) ==
    /\ Kind = "inference" /\ Present(r)
    /\ status' = [status EXCEPT ![r] = "gone"]
    /\ UNCHANGED <<attempts, startedAt, notBefore, cooling, drainVars, enqVars,
                   boundVars, doomed, clock, horizon, owed, linkGone>>

\* Mutant of Retry: any row that has been claimed can be started over.
RetryAnything(r) ==
    /\ Kind \in {"inference", "email"} /\ retries < MaxRetries
    /\ Present(r)
    /\ status' = [status EXCEPT ![r] = "queued"]
    /\ attempts' = [attempts EXCEPT ![r] = 0]
    /\ notBefore' = [notBefore EXCEPT ![r] = 0]
    /\ cooling' = [cooling EXCEPT ![r] = FALSE]
    /\ retries' = retries + 1
    /\ owed' = [owed EXCEPT ![r] = TRUE]
    /\ UNCHANGED <<startedAt, clock, drainVars, enqVars, crashes, doomed,
                   horizon, linkGone>>

\* retryInferenceRun and `money email retry`: a failed row starts over.  Only
\* the former writes startedAt.
Retry(r) ==
    /\ Kind \in {"inference", "email"} /\ retries < MaxRetries
    /\ status[r] = "failed"
    /\ status' = [status EXCEPT ![r] = "queued"]
    /\ attempts' = [attempts EXCEPT ![r] = 0]
    /\ notBefore' = [notBefore EXCEPT ![r] = 0]
    /\ cooling' = [cooling EXCEPT ![r] = FALSE]
    /\ IF Kind = "inference"
       THEN startedAt' = [startedAt EXCEPT ![r] = clock] /\ clock' = clock + 1
       ELSE UNCHANGED <<startedAt, clock>>
    /\ retries' = retries + 1
    /\ owed' = [owed EXCEPT ![r] = TRUE]
    /\ UNCHANGED <<drainVars, enqVars, crashes, doomed, horizon, linkGone>>

\* `money email clear-failed`: lists the failed rows, asks, then deletes those
\* ids with no further condition.
ListFailed ==
    /\ Kind = "email" /\ doomed = {}
    /\ doomed' = {r \in Run : status[r] = "failed"}
    /\ doomed' # {}
    /\ UNCHANGED <<rowVars, drainVars, enqVars, boundVars, clock, horizon,
                   owed, linkGone>>

DeleteListed ==
    /\ doomed # {}
    /\ status' = [r \in Run |-> IF r \in doomed THEN "gone" ELSE status[r]]
    /\ doomed' = {}
    /\ UNCHANGED <<attempts, startedAt, notBefore, cooling, drainVars, enqVars,
                   boundVars, clock, horizon, owed, linkGone>>

\* A backoff runs out.
Elapse(r) ==
    /\ cooling[r]
    /\ cooling' = [cooling EXCEPT ![r] = FALSE]
    /\ UNCHANGED <<status, attempts, startedAt, notBefore, drainVars, enqVars,
                   boundVars, doomed, clock, horizon, owed, linkGone>>

\* Time passes until one more lease is stale.  Unless runs may be slow, that
\* never happens to a lease whose holder is alive and still working.
Age ==
    \E r \in Run :
        /\ status[r] = "running" /\ startedAt[r] >= horizon
        /\ SlowRuns \/ \A d \in Drainer :
                pc[d] = "working" => mark[d] > startedAt[r]
        /\ horizon' = startedAt[r] + 1
        /\ UNCHANGED <<rowVars, drainVars, enqVars, boundVars, doomed, clock,
                       owed, linkGone>>

-----------------------------------------------------------------------------
Reap(d) == Scan(d) \/ EndReap(d) \/ Decide(d)
           \/ \E r \in Run : Flip(d, r) \/ FlipLost(d, r)
Serve(d) == QueueEmpty(d) \/ Claim(d) \/ ClaimLost(d)
            \/ \E r \in Run : Pick(d, r)
Finish(d) == Succeed(d) \/ Fail(d) \/ LinkGone(d)

Drain(d) == Reap(d) \/ Serve(d) \/ Finish(d)

Enqueue(e) == NoneWaiting(e) \/ Reuse(e)
              \/ \E r \in Run : Coalesce(e, r) \/ Create(e, r)

Operate == ListFailed \/ DeleteListed \/ \E r \in Run : Clear(r) \/ Retry(r)

Next ==
    \/ \E d \in Drainer : Drain(d) \/ Crash(d)
    \/ \E e \in Enqueuer : Enqueue(e)
    \/ Operate
    \/ \E r \in Run : Elapse(r)
    \/ Age

Spec == Init /\ [][Next]_vars

(* The worker loop is restarted by the compose service and a tick that       *)
(* throws does not end it, Akahu, the model and the relay answer or time out,*)
(* and time passes.  Nobody is obliged to enqueue, retry or crash.           *)
Fairness ==
    /\ \A d \in Drainer : WF_vars(Drain(d))
    /\ \A r \in Run : WF_vars(Elapse(r))
    /\ WF_vars(Age)

FairSpec == Spec /\ Fairness

-----------------------------------------------------------------------------
(* Properties.                                                             *)

Works(d, r) == pc[d] = "working" /\ run[d] = r

Settled(r) == status[r] \in {"success", "failed"}

\* No process has died holding anything and every run ends within the stale
\* window: the conditions under which the reaper has nothing to do.
Calm == crashes = 0 /\ ~SlowRuns

\* A row has at most one worker, and while it has one the row says running (or
\* was cleared): the guarded updateMany of claim is what two overlapping
\* drainers rely on.
ExclusiveUntilCrash ==
    Calm => \A d, b \in Drainer : \A r \in Run :
        /\ Works(d, r) => status[r] \in {"running", "gone"}
        /\ Works(d, r) /\ Works(b, r) => d = b

\* Whoever was told "already queued" gets a run that starts after the question:
\* a row is never settled while it still owes one.
HonouredUntilCrash == Calm => \A r \in Run : owed[r] => ~Settled(r)

\* A row that succeeded is never worked on again.
SuccessFinalUntilCrash ==
    [][Calm => \A r \in Run :
        status[r] = "success" => status'[r] \in {"success", "gone"}]_vars

\* A run is failed for good only when its attempts are spent or its link is
\* gone, although finalise decides from an attempts value that may be out of
\* date.
FailedOnlyWhenSpent ==
    \A r \in Run : status[r] = "failed" /\ ~linkGone[r] => attempts[r] >= MaxAttempts

\* Every row that is enqueued ends, whatever crashes in between.
EveryRunSettles ==
    \A r \in Run : (status[r] \in {"queued", "running"})
                        ~> (Settled(r) \/ status[r] = "gone")

\* Each row lives the life JobLife describes.
Stage == [absent |-> "none", queued |-> "waiting", running |-> "active",
          success |-> "done", failed |-> "dead", gone |-> "gone"]

Life == INSTANCE JobLife WITH
    Job <- Run, MaxTries <- MaxAttempts, Revocable <- Kind = "sync",
    job <- [r \in Run |-> Stage[status[r]]], tries <- attempts

LivesOneLife == Life!Spec

-----------------------------------------------------------------------------
(* What the comments and tests of the repository say, and the code does not  *)
(* do.                                                                       *)

\* "safe if two overlap: ... `--drain' on a laptop cannot take a row out from
\* under a running worker" (scripts/drain.ts).
RowHasOneWorker ==
    \A d, b \in Drainer : \A r \in Run : Works(d, r) /\ Works(b, r) => d = b

\* "Delete failed messages" (cli/commands/email/retry.ts).
OnlyFailedCleared ==
    [][\A r \in Run : status'[r] = "gone" => status[r] \in {"failed", "gone"}]_vars
=============================================================================
