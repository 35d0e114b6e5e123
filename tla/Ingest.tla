------------------------------- MODULE Ingest -------------------------------
(***************************************************************************)
(* How far back a sync of one bank link reaches, and what that leaves      *)
(* behind: the window a caller asks for (enqueueSync), the window the      *)
(* runner works out from the row it claimed and from the link's high-water *)
(* mark, the pages it fetches and commits (syncTransactions), and the mark *)
(* it moves when it has them all.                                          *)
(*                                                                         *)
(* A transaction is named by its date, a day; what one holds is the        *)
(* business of module Enrichment.  Retries, caps and leases are RunQueue's:*)
(* here a claimed run may fail, be reclaimed under its worker, or lose its *)
(* worker at any point, MaxTroubles times in all.  Init, Next and so on    *)
(* are named for the window, apart from Enrichment's: SyncProofs extends   *)
(* both.                                                                   *)
(***************************************************************************)
EXTENDS Integers, FiniteSets

CONSTANTS
    Run,            \* slots for sync runs of this link, reused once a run ends
    Runner,         \* processes that drain the queue
    Lookback,       \* DEFAULT_LOOKBACK_DAYS
    Overlap,        \* OVERLAP_DAYS
    DayArgs,        \* the --days values people pass
    LastDay,        \* bound: the last day of the model
    MaxTroubles,    \* bound: failures, reclaims and crashes
    NoRun

ASSUME WindowAssumption ==
    /\ Lookback \in Nat /\ Overlap \in Nat
    /\ DayArgs \subseteq Nat \ {0}
    /\ LastDay \in Nat \ {0} /\ MaxTroubles \in Nat
    /\ LastDay <= Lookback
ASSUME NoRunAssumption == NoRun \notin Run

VARIABLES
    today,
    shown,      \* the transactions Akahu lists
    held,       \* the transactions in the database
    mark,       \* SyncState.lastTransactionDate, 0 when there is none
    status,     \* per slot: "queued", "running", or "ended": no run to speak of
    full, days, \* the window stored on the row; days 0 is null
    pc,         \* per runner
    run,        \* the row it read or holds
    want,       \* the window it read from that row
    from,       \* the first day it fetches
    cursor,     \* days from here on are fetched
    newest,     \* the newest date it has seen
    epc, ask, target, sawFull, sawDays,   \* the enqueuer and the row it read
    wantFull,   \* history: a --full request was answered with this run
    narrow,     \* history: a --days window started after the incremental one
    skipped,    \* history: such a run has moved the mark
    troubles

bankVars == <<today, shown>>
rowVars == <<status, full, days, wantFull>>
runnerVars == <<pc, run, want, from, cursor, newest, narrow>>
askVars == <<epc, ask, target, sawFull, sawDays>>
windowVars == <<bankVars, held, mark, rowVars, runnerVars, askVars, skipped,
          troubles>>

Day == 1..LastDay
Window == [full : BOOLEAN, days : DayArgs \cup {0}]
Incremental == [full |-> FALSE, days |-> 0]
OnlyFull(w) == w.full /\ w.days = 0

WindowTypeOK ==
    /\ today \in Day /\ shown \subseteq Day /\ held \subseteq Day
    /\ mark \in 0..LastDay
    /\ status \in [Run -> {"queued", "running", "ended"}]
    /\ full \in [Run -> BOOLEAN] /\ days \in [Run -> DayArgs \cup {0}]
    /\ pc \in [Runner -> {"idle", "picked", "claimed", "fetching", "closing"}]
    /\ run \in [Runner -> Run \cup {NoRun}]
    /\ want \in [Runner -> Window]
    /\ from \in [Runner -> 0..LastDay]
    /\ cursor \in [Runner -> 0..(LastDay + 1)]
    /\ newest \in [Runner -> 0..LastDay]
    /\ epc \in {"idle", "update"} /\ ask \in Window
    /\ target \in Run \cup {NoRun}
    /\ sawFull \in BOOLEAN /\ sawDays \in DayArgs \cup {0}
    /\ wantFull \in [Run -> BOOLEAN]
    /\ narrow \in [Runner -> BOOLEAN] /\ skipped \in BOOLEAN
    /\ troubles \in 0..MaxTroubles

WindowInit ==
    /\ today = 1 /\ shown = {} /\ held = {} /\ mark = 0
    /\ status = [r \in Run |-> "ended"]
    /\ full = [r \in Run |-> FALSE] /\ days = [r \in Run |-> 0]
    /\ pc = [d \in Runner |-> "idle"] /\ run = [d \in Runner |-> NoRun]
    /\ want = [d \in Runner |-> Incremental]
    /\ from = [d \in Runner |-> 0] /\ cursor = [d \in Runner |-> 0]
    /\ newest = [d \in Runner |-> 0]
    /\ epc = "idle" /\ ask = Incremental /\ target = NoRun
    /\ sawFull = FALSE /\ sawDays = 0
    /\ wantFull = [r \in Run |-> FALSE]
    /\ narrow = [d \in Runner |-> FALSE] /\ skipped = FALSE
    /\ troubles = 0

-----------------------------------------------------------------------------
(* The bank.  Transactions settle late, but not by more than the overlap the *)
(* sync rewinds by.                                                          *)

Tomorrow ==
    /\ today < LastDay
    /\ today' = today + 1
    /\ UNCHANGED <<shown, held, mark, rowVars, runnerVars, askVars, skipped, troubles>>

Show(t) ==
    /\ t <= today /\ t \notin shown
    /\ \A s \in shown : s <= t + Overlap
    /\ shown' = shown \cup {t}
    /\ UNCHANGED <<today, held, mark, rowVars, runnerVars, askVars, skipped, troubles>>

-----------------------------------------------------------------------------
(* enqueueSync.  One caller at a time: what two of them do to each other is  *)
(* RunQueue's.                                                               *)

\* A run is waiting: remember what its row said.
Find(r, w) ==
    /\ epc = "idle" /\ status[r] = "queued"
    /\ epc' = "update" /\ ask' = w /\ target' = r
    /\ sawFull' = full[r] /\ sawDays' = days[r]
    /\ UNCHANGED <<bankVars, held, mark, rowVars, runnerVars, skipped,
                   troubles>>

\* ... then update it by id with whatever the request adds to that.
Widen ==
    /\ epc = "update"
    /\ IF status[target] = "ended" THEN UNCHANGED <<full, days, wantFull>> ELSE
        /\ full' = IF ask.full /\ ~sawFull THEN [full EXCEPT ![target] = TRUE] ELSE full
        /\ days' = IF ask.days # 0 /\ (sawDays = 0 \/ ask.days > sawDays)
                   THEN [days EXCEPT ![target] = ask.days] ELSE days
        /\ wantFull' = [wantFull EXCEPT ![target] = @ \/ OnlyFull(ask)]
    /\ epc' = "idle" /\ ask' = Incremental /\ target' = NoRun
    /\ sawFull' = FALSE /\ sawDays' = 0
    /\ UNCHANGED <<bankVars, held, mark, status, runnerVars, skipped,
                   troubles>>

\* No run is waiting: insert one.
Insert(r, w) ==
    /\ epc = "idle" /\ \A q \in Run : status[q] # "queued"
    /\ status[r] = "ended" /\ \A d \in Runner : run[d] # r
    /\ status' = [status EXCEPT ![r] = "queued"]
    /\ full' = [full EXCEPT ![r] = w.full]
    /\ days' = [days EXCEPT ![r] = w.days]
    /\ wantFull' = [wantFull EXCEPT ![r] = OnlyFull(w)]
    /\ UNCHANGED <<bankVars, held, mark, runnerVars, askVars, skipped, troubles>>

-----------------------------------------------------------------------------
(* The runner: claimAndRunSync, runSync, syncTransactions.                   *)

Pick(d, r) ==
    /\ pc[d] = "idle" /\ status[r] = "queued"
    /\ pc' = [pc EXCEPT ![d] = "picked"]
    /\ run' = [run EXCEPT ![d] = r]
    /\ want' = [want EXCEPT ![d] = [full |-> full[r], days |-> days[r]]]
    /\ UNCHANGED <<bankVars, held, mark, rowVars, from, cursor, newest, narrow,
                   askVars, skipped, troubles>>

Claim(d) ==
    /\ pc[d] = "picked" /\ status[run[d]] = "queued"
    /\ status' = [status EXCEPT ![run[d]] = "running"]
    /\ pc' = [pc EXCEPT ![d] = "claimed"]
    /\ UNCHANGED <<bankVars, held, mark, full, days, wantFull, run, want, from,
                   cursor, newest, narrow, askVars, skipped, troubles>>

Drop(d) ==
    /\ pc' = [pc EXCEPT ![d] = "idle"]
    /\ run' = [run EXCEPT ![d] = NoRun]
    /\ want' = [want EXCEPT ![d] = Incremental]
    /\ from' = [from EXCEPT ![d] = 0]
    /\ cursor' = [cursor EXCEPT ![d] = 0]
    /\ newest' = [newest EXCEPT ![d] = 0]
    /\ narrow' = [narrow EXCEPT ![d] = FALSE]

ClaimLost(d) ==
    /\ pc[d] = "picked" /\ status[run[d]] # "queued"
    /\ Drop(d)
    /\ UNCHANGED <<bankVars, held, mark, rowVars, askVars, skipped,
                   troubles>>

\* The day n days before, 0 standing for any day before the first.
Earlier(day, n) == IF n < day THEN day - n ELSE 0

\* Mutant of Start: strictly after the newest transaction held.
StartAfterMark(w) ==
    IF w.days # 0 THEN Earlier(today, w.days)
    ELSE IF w.full \/ mark = 0 THEN Earlier(today, Lookback)
    ELSE mark

\* The window: --days first, then --full or a link never synced, then the mark.
Start(w) ==
    IF w.days # 0 THEN Earlier(today, w.days)
    ELSE IF w.full \/ mark = 0 THEN Earlier(today, Lookback)
    ELSE Earlier(mark, Overlap)

BeginFetch(d) ==
    /\ pc[d] = "claimed"
    /\ pc' = [pc EXCEPT ![d] = "fetching"]
    /\ from' = [from EXCEPT ![d] = Start(want[d])]
    /\ cursor' = [cursor EXCEPT ![d] = LastDay + 1]
    /\ newest' = [newest EXCEPT ![d] = mark]
    /\ narrow' = [narrow EXCEPT ![d] = /\ want[d].days # 0
                                       /\ Start(want[d]) > Earlier(mark, Overlap)]
    /\ UNCHANGED <<bankVars, held, mark, rowVars, run, want, askVars, skipped,
                   troubles>>

\* m is the newest date among those seen so far and those of a page.
Newest(m, n, page) == m \in page \cup {n} /\ \A s \in page \cup {n} : s <= m

\* Mutant of Page: the mark moves with every page.
PageMovesMark(d, low) ==
    /\ pc[d] = "fetching" /\ from[d] <= low /\ low < cursor[d]
    /\ LET page == {t \in shown : low <= t /\ t < cursor[d]} IN
        /\ held' = held \cup page
        /\ \E m \in Day \cup {0} : /\ Newest(m, newest[d], page)
                                 /\ newest' = [newest EXCEPT ![d] = m]
                                 /\ mark' = m
    /\ cursor' = [cursor EXCEPT ![d] = low]
    /\ UNCHANGED <<bankVars, rowVars, pc, run, want, from, narrow, askVars,
                   skipped, troubles>>

\* One page, newest first, committed as one batch.  The next page is asked for
\* later, and sees whatever Akahu shows by then.
Page(d, low) ==
    /\ pc[d] = "fetching" /\ from[d] <= low /\ low < cursor[d]
    /\ LET page == {t \in shown : low <= t /\ t < cursor[d]} IN
        /\ held' = held \cup page
        /\ \E m \in Day \cup {0} : /\ Newest(m, newest[d], page)
                                 /\ newest' = [newest EXCEPT ![d] = m]
    /\ cursor' = [cursor EXCEPT ![d] = low]
    /\ UNCHANGED <<bankVars, mark, rowVars, pc, run, want, from, narrow, askVars,
                   skipped, troubles>>

\* No more pages: move the mark to the newest date seen.
Advance(d) ==
    /\ pc[d] = "fetching" /\ cursor[d] = from[d]
    /\ mark' = newest[d]
    /\ skipped' = (skipped \/ narrow[d])
    /\ pc' = [pc EXCEPT ![d] = "closing"]
    /\ UNCHANGED <<bankVars, held, rowVars, run, want, from, cursor, newest,
                   narrow, askVars, troubles>>

\* A run that has ended leaves its slot to the next one.
End(r) ==
    /\ status' = [status EXCEPT ![r] = "ended"]
    /\ full' = [full EXCEPT ![r] = FALSE]
    /\ days' = [days EXCEPT ![r] = 0]
    /\ wantFull' = [wantFull EXCEPT ![r] = FALSE]

Requeue(r) ==
    /\ status' = [status EXCEPT ![r] = "queued"]
    /\ UNCHANGED <<full, days, wantFull>>

\* Pending transactions, rates and the rules pass are behind it: success.
Close(d) ==
    /\ pc[d] = "closing"
    /\ End(run[d])
    /\ Drop(d)
    /\ UNCHANGED <<bankVars, held, mark, askVars, skipped, troubles>>

Trouble == troubles < MaxTroubles /\ troubles' = troubles + 1

\* Any step threw: the run goes back to the queue, or is failed for good.
Fail(d) ==
    /\ pc[d] \in {"claimed", "fetching", "closing"} /\ Trouble
    /\ Requeue(run[d]) \/ End(run[d])
    /\ Drop(d)
    /\ UNCHANGED <<bankVars, held, mark, askVars, skipped>>

\* The reaper gives a running row back, whether or not its worker is alive.
Reclaim(r) ==
    /\ status[r] = "running" /\ Trouble
    /\ Requeue(r)
    /\ UNCHANGED <<bankVars, held, mark, runnerVars, askVars, skipped>>

\* The worker dies, and the reaper has given its row back by the time anybody
\* looks again.
Crash(d) ==
    /\ pc[d] # "idle" /\ Trouble
    /\ IF pc[d] # "picked" /\ status[run[d]] = "running"
       THEN Requeue(run[d]) ELSE UNCHANGED rowVars
    /\ Drop(d)
    /\ UNCHANGED <<bankVars, held, mark, askVars, skipped>>

-----------------------------------------------------------------------------
Serve(d) == Claim(d) \/ ClaimLost(d) \/ BeginFetch(d) \/ Advance(d) \/ Close(d)
            \/ \E r \in Run : Pick(d, r)
            \/ \E low \in 0..LastDay : Page(d, low)

Schedule == Widen \/ \E r \in Run : Find(r, Incremental) \/ Insert(r, Incremental)

Request == \E r \in Run, w \in Window : Find(r, w) \/ Insert(r, w)

Bank == Tomorrow \/ \E t \in Day : Show(t)

WindowNext ==
    \/ Bank \/ Request \/ Widen
    \/ \E d \in Runner : Serve(d) \/ Fail(d) \/ Crash(d)
    \/ \E r \in Run : Reclaim(r)

WindowSpec == WindowInit /\ [][WindowNext]_windowVars

\* The timer keeps asking for incremental syncs, and the worker keeps draining.
FairWindowSpec ==
    /\ WindowSpec
    /\ WF_windowVars(Schedule)
    /\ \A d \in Runner : WF_windowVars(Serve(d))

-----------------------------------------------------------------------------
\* "Only advance the high-water mark once the whole run succeeded, so a failure
\* mid-sync doesn't cause the next run to skip the window it never finished":
\* whatever is missing is still within reach of an incremental sync, however
\* many runs failed, overlapped or were run twice, as long as no --days window
\* shorter than the incremental one has been taken.
NoGap == ~skipped => \A t \in shown \ held : t + Overlap >= mark

\* Every transaction the bank shows is ingested.
EventuallyHeld == \A t \in Day : t \in shown ~> (t \in held \/ skipped)

\* "a `--full' request arriving behind a queued incremental widens it rather
\* than being silently dropped ... Never the reverse" (lib/server/queue.ts):
\* a run that answers a --full request has fetched the whole history by the time
\* it succeeds.
FullHonoured ==
    \A d \in Runner : pc[d] = "closing" /\ wantFull[run[d]] => from[d] = 0
=============================================================================
