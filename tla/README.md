# money-next: a TLA+ verification of what runs beside itself, and of what it computes

money-next is a self-hosted personal-finance application. It copies bank
transactions from Akahu into Postgres, classifies them with rules it is taught,
lets people correct and reconcile them, draws figures and forecasts from them, and
lets a language model chat about them and draft budgets. Three kinds of process
share the database: the web application (server actions and chat streams), the
worker (`scripts/worker.ts`), and the command line (`money ...`). What one of them
does alone is largely covered by its tests under `src/`; what they do to each
other, over long series of legal calls, and the arithmetic whose cases no test
enumerates, are the subject here.

All paths below are relative to `src/`. `PROJECT.json` maps every definition to the
lines it stands for, and lists the hazards line by line with the properties that
answer them.

## 1. Inventory

| Component | State | Operations | What makes it correct |
|---|---|---|---|
| **Run queue** `lib/server/{run-queue,queue}.ts`, `scripts/{drain,worker}.ts`, `email/outbox.ts`, `budgets/actions/inference.ts`, `cli/commands/email/retry.ts` | rows of SyncRun, RuleRun, BudgetInferenceRun, EmailOutbox: status, attempts, startedAt, notBefore | enqueue with coalescing, claim, run, finalise, reap, clear, retry, clear-failed | one worker per row; "already queued" is a promise; a row settles; a success is final |
| **Sync window** `ingest/{transactions,sync}.ts`, `queue.ts` | the window on the row, `SyncState.lastTransactionDate` | widen a waiting run, work out the start, page, commit, advance the mark | no transaction falls behind the mark unfetched |
| **Field ownership** `ingest/{transactions,conflicts}.ts`, `rules/engine/*`, `enrichment.ts`, `actions/conflict.ts` | category and merchant, each with a source; TransactionConflict rows | sync page, rules pass, edit, keep, accept | a person's choice stands; a disagreement is raised once; the automatic writers converge |
| **Rules document and learning** `rules/{document,learning/*,engine/*}`, `matching/tokens.ts`, `chat/tools/rules.ts`, the rules pages | one active document per workspace, its table; tags and their joins | first use, teach, edit, remove, toggle, apply to similar, a pass, tagging by page, chat and pass | one active document; a pass does what the page lists; a lesson costs no other rule anything |
| **Transfers** `matching/*`, `actions/transfer.ts`, `transactions/actions/bulk.ts` | TransferGroup and its legs | link, unlink, bulk link, auto-link | a group has two legs or more; a link a person made stays |
| **Account supersession** `accounts/supersede.ts`, `cli/commands/account/*` | superseded accounts, moved and deleted transactions | propose, plan, apply, sweep, undo | a row is never counted twice; no choice is lost |
| **Chat turns** `lib/server/chat/*`, `chat/[thread]/turn/route.ts`, `chat/actions.ts` | thread rows with a seq, `runningSince`, a registry in process memory | send, resume, attach, steer, stop, delete | one turn per thread; every call answered; a stop holds |
| **Chat tools** `lib/server/chat/tools/*` | none of their own | search by page, categorise, tag, teach, write budgets | paging misses nothing; the same outcome as the pages |
| **Budget inference** `budget/{run,write,inference-log,llm,tools}` | the run row, its log (a thread), the items it writes | converse, hear, stop, take over, write a new or refreshed budget | an instruction is heard once; one writer per log; hand-edited items survive uncounted twice; a log settles |
| **Budgets** `app/w/[workspace]/budgets`, `chat/tools/budget-write.ts` | Budget and BudgetItem rows, layers, provenance | create, rename, duplicate, layer, move, forecast, delete, refine, items | a layer stays with its base; provenance tells whose figure it is |
| **Budget arithmetic** `lib/budget/*`, `lib/periods.ts`, `budget/infer.ts` | none | occurrences, lifespans, tax years, windows, flips, cadence detection | no drift, no day in two periods, no commitment lost |
| **Metrics** `metrics/*`, `ui/dashboard/*` | none | comparison, plan against actual, balance line, runway, flow diagram | figures add up from the rows they stand for |
| **Access** `proxy.ts`, `auth/*`, `app/{login,enrol-mfa,invite,reset-password,account}`, `members/actions.ts`, `cli/commands/{user,workspace}` | sessions, second factor, memberships, invitations, cookies, `?next=` | sign in, verify, enrol, invite, accept, remove, delete, create | redirects end, and at the right page; a workspace keeps an owner |
| **Secrets and bank links** `lib/server/secrets*`, `akahu/*`, `app/w/[workspace]/sync`, `cli/commands/link` | BankLink rows with a sealed pair, the keys of each host | connect, replace, token, upgrade, revert, open | the pair stored last is the one in use; an upgrade loses none |
| **Tenancy** `db/scoped.ts` | none | withScopedTx, scopedBatch | every query sees one workspace |
| **Mail texts, catalog, accounts and snapshots, chat context, components, deployment** | rows, but no protocol of their own here | single statements, pure I/O or presentation | left out; reasons in section 8 |

**How they interact.** The web app and the command line insert queue rows; only a
drainer (the worker, or `money sync --drain`) runs them. A sync run opens the bank
link's pair, pages through Akahu, commits each page with its conflicts in one
batch, moves the link's mark, then queues a rules pass, which is again a row of
the queue. People edit, link, tag and merge the same transactions through server
actions and the chat's tools in between, and the model drafts budgets people are
editing. Everything meets in Postgres. `withScopedTx` and `scopedBatch` set no
isolation level, so it is READ COMMITTED: a read before a batch, and often one
inside it, may be out of date by the time of the write. Only the chat keeps
protocol state in memory (the registry of `chat/runs.ts`), and it dies with the
process. What a page is looking at is kept in its url and two cookies.

**What is hard.** Two drainers between the read and the guarded update of a claim;
a reaper that flips a row and decides about it in two statements; values read
before a claim, a prompt, a model call or an await and used after it; callers
racing a coalescing read or a first use; whole documents written back; process
death anywhere; two registries of one fact (`runningSince` and the map in memory, a
thread and the run row that points at it); keys that change while a command holds
the old ones; redirects decided by four facts read on their own; windows that
travel through a url while days pass; long series of lessons, merges and pages.

## 2. Modules

| Module | What it is |
|---|---|
| `RunQueue`, `JobLife` | the queue protocol: one table and one coalescing target; the abstract life of a job, which it implements (`LivesOneLife`) |
| `Ingest` | the window of a sync and the high-water mark |
| `Enrichment` | one field of a transaction between the sync, the rules and people |
| `ChatTurn` | turns of the chat: the claim, the registry, the loop, people in between |
| `Access` | pages, redirects, sessions, memberships, invitations, the operator's commands |
| `Links` | the pair a bank link holds, its seal, the keys, and the runs that open it |
| `Ledger` | transfers and account merges, beside a sync and a rules pass |
| `Calendar`, `Planning`, `Reports`, `Flow` | operators: periods and windows; recurrences, lifespans and the detector; the dashboard's sums and lines; the flow diagram and its layout |
| `Figures` | the pages of figures as a state machine over the four above |
| `Inference`, `Budgets` | a run's conversation and log; the budgets it and people write (`Budgets` extends `Inference`) |
| `Tokens`, `RuleBook`, `Search` | which descriptions are alike; the rules, the tags and the pass; a chat paging through the rows meanwhile (each extends the one before) |
| `RunQueueProofs`, `SyncProofs`, `ChatTurnProofs`, `AccessProofs`, `LedgerProofs`, `SearchProofs`, `BudgetsProofs`, `FiguresProofs` | theorems about the modules they are named for; `SyncProofs` about `Ingest` and `Enrichment`, `AccessProofs` about `Access` and `Links`, both of which it extends; `SearchProofs` about `RuleBook` and `Tokens` too, which `Search` extends, `BudgetsProofs` about `Inference`, `FiguresProofs` about `Calendar` |
| `MC*` | the model-checking modules: instances, scenes, symmetry |

The modules divide the system at its database: each is the whole protocol around
one group of columns. `RunQueue` says when and how often a run happens; `Ingest`,
`Enrichment`, `Ledger`, `RuleBook`, `Links` and `Inference` what a run does. Each allows a
run to be failed, interrupted or repeated where that matters, and where a property
hangs on what the reaper makes of the run's row, the row is there with it: in `Links`
with its attempts, in `Inference` with a lease the worker may outlive and another
drainer that takes the row over. `Budgets` composes the worker's conversation
with everything else that writes budgets, `Search` the chat's listing with
everything that changes rows, `Figures` all the arithmetic with the reader and the
calendar. A definition named in a comment as a *mutant* is not part of the model:
it is the same definition with a plausible bug, and the property it is paired with
in `PROJECT.json` must catch it.

### RunQueue

One step is one SQL statement, with whatever the code computes until its next
await. `status`, `attempts`, `startedAt` and `notBefore` are the columns; `cooling[r]` says
that `notBefore` is still in the future. A drainer's program counter follows
`drainOnce`: `Scan` and `Flip` are `reapStale`'s select and its guarded update, `Decide`
the finalise by id that follows, `EndReap` the end of that loop, `Pick` the
`findFirst` of `claimAndRun*`, `Claim`/`ClaimLost` the guarded `updateMany`, `Succeed`, `Fail`
and `LinkGone` the three ends of a run. `Coalesce`, `Reuse`, `NoneWaiting` and `Create`
are the two halves of the enqueue functions; `Clear`, `Retry`, `ListFailed` and
`DeleteListed` what people do to rows. `Kind` selects which of the four queues it is,
where their code differs. Time is a counter of stamps plus a `horizon` below which
a lease is stale; `SlowRuns` says whether a live run may outlast its lease.

### Ingest

A transaction is its date. `Show` is the bank listing one, late by at most the
overlap the sync rewinds; `Find`/`Widen`/`Insert` are `enqueueSync`; `Start` is the choice
of window in `syncTransactions` (days, then full, then the mark less the overlap);
`BeginFetch` starts the pages, `Page` commits everything from one day to the cursor, `Advance` moves the mark once
there are no more pages. `Fail`, `Reclaim` and `Crash` are the queue seen from here.

### Enrichment

One field (category; merchant is the same code) of each transaction, with its
source. A sync is `List` (what Akahu says), `Read` (rows and conflicts) and `Commit` (the
batch: rows, then `reconcileConflict`'s operations), or `RolledBack` when an operation
addresses a conflict that is no longer there or already is. A rules pass reads
every row, then applies its answers row by row (`Apply`). A person edits, keeps their
value, or accepts Akahu's in two steps (`Ask`, `Take`). The rule graph is an external
library: its answer for a row is arbitrary and may change with the document.

### ChatTurn

One person's threads and one process. A request follows `POST` in the turn route:
`Attach`/`Free` is `isRunning`, `Claim` the update that checks ownership and sets
`runningSince`, `Reserve` is `reserveRun` (synchronous: the check and the entry are one
step), `Ask` the question's row and the rest of the setup, `SetupFails` and `GiveUp` the
`finally` that drops the slot and then the claim. `Start` detaches the turn, which is
`runTurn`: `Read` (the rows, as of now), `Complete` (`control.step()`, a new signal),
`Answered`, `Interrupted` or `ModelFails`, `Say` (the assistant's row), `Answer` (one row per
call), and `Onward` wherever the code comes to the top of its loop. `Release` and
`Deregister` are the two `finally`s, in their order. A steer is two steps, the row
(`Speak`) and the interrupt (`Steer`), as in `steerTurn`; `Stop` is `cancelRun`. `Throws` is a
statement that fails inside the loop, for a deleted thread always. A message is its
role and, for a call, how many answers it wants; what is said is not modelled.
A log row knows the row it answers by its place, which the unique `[threadId, seq]`
makes a name for it.

### Access

A request is one step: the proxy, then the page, which renders or redirects; `Serve`
keeps going until a page is rendered. `at`, `next`, `last` and `headed` are the page, `?next=`
on it, the last-workspace cookie and (history) where the browser was last sent. A
command that prompts is two steps (`DeleteUserAsked`, `DeleteUserTyped`). Better Auth
is external: one redemption per invitation, the last owner kept by the members
endpoints, one account per address. `kept` is history: the workspaces that have an
owner no overtaken check has cost them.

### Links

A pair is a number, a blob the pair and what locks it. A form reads the row and the
key, seals and writes; the commands carry the keys they were started with;
`UpgradeReads` and `UpgradeRow` are the command's select and its write of each row by id.
`runs` are the sync's rows that are not over, with the attempts they have used, and
`worker` the one claimed. `FormQueues` and `QueueSync` reuse a row that waits (`Coalesces`),
which keeps its attempts; `Claim`, `OpenPair` and `RunEnds` are the worker, and `Finalised`
what a failure makes of the row: back to the queue, or failed for good once its tries
are spent. `WorkerDies` is also the read of the link that throws, which is outside the
`try` (`drain.ts:67`); `ReapFlips` and `ReapDecides` are the reaper's two statements over a row
left running. One drainer is followed, which reaps between two jobs; `RunQueue` has the
others. History: `latest` is the pair stored last, `asked` the links whose pasted pair no
run has tried, `overtaken` those an upgrade wrote over with an older one, `spent` those
whose run was lost on its last try, `swept` that an upgrade has been through every row,
`belated` the rows written since by a command that began before there was a public key.

### Ledger

One step is a group of reads or one committed transaction. `PersonLinks`, `AutoLink`
and `LinkWrite` are `linkTransferLegs` from its read to its write; `UnlinkRead`/`UnlinkWrite`
and `BulkRead`/`BulkWrite` the two other writers; `Plan`, `Gather`, `Commit`, `FindSingles`,
`Prune` a merge and its sweep, `MergeStops` a dry run, an interruption or a refused
batch; `SyncBegins` reads the accounts to leave alone, `SyncRow` upserts. From the
change log it keeps who linked a row last, which the merge reads. `ByShape` is the set
of the pairings `heuristicPairs` can come to: each row, in a turn that follows the
dates, has one of the nearest rows that fit and that no earlier turn has taken. The
database orders the rows of a day as it likes, so there may be several.
`facts`, `vows`, `settled` and `torn` are history: what a person set or linked and has a right to
find again. They leave out what was set, linked or erased where a merge under way had
read already, which its plan cannot know of.

### Calendar, Planning, Reports, Flow, Figures

Days are integers and money whole units; a breakdown is the set of entries that
were added up, so that a nested map's cell is a sum over it. The first four modules
are operators translated from the functions of the same names; `Figures` is the
walk: a day passes, rows arrive, a row is moved to another tax year, the tax year
changes, and the reader switches, flips and pages, each of which rewrites the url
as the links do and recomputes what is shown. Budgets are offered by the day they
start on, then by name (`OfferedFirst`).

### Inference and Budgets

A log is a sequence of rows, a row's index its seq; `talk` is the worker's local
state: what it has heard, what it is about to do. `Hear` is the read between two
rounds, `CallTool`, `Finish` and `SayNothing` what the model can answer, `LookForStop` the
read of `stopRequestedAt`; the person tells, stops, takes over, clears and retries. The
lease a worker claims its run with is never renewed. `Reap` goes by `startedAt` alone, as
`reapStale` does, so it takes the row from a worker that lives as from one that died, to
the queue or failed for good; `OtherClaims`, `OtherLinks` and `OtherSettles` are what another
drainer then does to the row. `talk.row` says what the worker still has of the row it
claimed: `held`, `shared` once reaped, or `gone` once cleared. A
commitment is one per spending area; `Key` is `streamKeyOf`. In `Budgets` each handler
reads, waits and writes (`hand`), whether a form's action or a chat tool; `ReadKept`
and `Refresh` are the two statements of a re-inference. `Household` is what there may be
at the start: any budgets and layers, no run, one that was asked for, or one whose
proposal is ready to be written.

### Tokens, RuleBook and Search

A description is a set of words, a rule a set of tokens with a type, and outputs.
An editor reads the active document whole and writes it back whole (`hand`), a pass
reads the document and the rows once, applies its answers row by row (a category, a
merchant, and a transfer linked to a leg that offsets it, `Linking`), steps over a row
whose turn fails (`StepsOver`), then writes its tags in two more steps, on the rows
something was made of; a tag that cannot be written is warned about (`TagFails`), and a
pass may end half way (`NextPass`). `Legs` are the rows that offset each other in amount,
account and date. `Similar` is the best `MaxSimilar` of what the prefilter let
through (`Candidates`), by score and then the newest. `Listed` is what the rules page says the table decides,
`Decision` what the engine takes. `Search` reads one page per step, by offset, over the
filters and the orders of the tool.

A row of `docs` without a slug is a document not made yet (`NoDocument`). `Household`
is any state a household may be in before the first step: rules somebody taught,
documents none or one of them active, rows with any category, payee and tags there
are. `Filter` and `Longest` are the `filter` and the sort-and-slice of the code, by the
places they keep. An order of rows is any strict order that agrees with its key
(`Orders`): the database is free between rows that tie.

## 3. Runs

Each question has one run; the constants are in the `.cfg` and the scenes in the MC
module. Most runs end with everybody having used up what the bounds allow, and the
system may then stop, so they do not look for deadlock; the queue, the sync window,
the field and the pages of figures do.

**`MCRunQueue_overlap`** (two rows, two drainers, one person enqueueing, cap 2, one
death, the sync queue). `ExclusiveUntilCrash`: a row has one worker, and shows as
running, until some process has died. `SuccessFinalUntilCrash`: a success is not
dragged back. Two drainers are what the deployment has (the worker, and a person
with `--drain`), two rows let one be reaped while another is worked on, and one
death is what arms the reaper.

**`MCRunQueue_life`** (the inference queue, two rows, one drainer, a death, a retry,
`Clear`; with fairness). `EveryRunSettles`, and `LivesOneLife`: every behaviour is one
of `JobLife`'s under the mapping `Stage`. The inference queue is used because it has
the most operations. `Lives` proves the refinement for one drainer of any of the four
queues, and `LivesWhileCalm` for any number of drainers of the sync and rules queues
until a process dies. Past that it fails the way `RowHasOneWorker` does; and where rows
are retried it fails with two drainers even before (`drain.ts:118`: the outcome of a run is
decided from the attempts of the row's former life).

**`MCRunQueue_mail`** (the outbox, two drainers, `money email retry` and `clear-failed`
running beside them). `HonouredUntilCrash`: whoever was answered with a waiting row,
or had a message requeued, gets an attempt that starts after the answer.

**`MCIngest_window`** (four days, overlap 1, one queued run that a second runner may
reclaim, one failure, reclaim or death, full and incremental windows; with fairness).
`NoGap`: what the bank shows and the database lacks is within reach of the next
incremental sync. `EventuallyHeld`: every transaction the bank shows is ingested.
Four days are two more than the overlap needs for something to fall behind it.
With `--days` windows `NoGap` excepts what the window skipped; the theorem `GapFree`
covers them.

**`MCEnrichment_owner`** (one transaction, two values, a sync, a pass, a person, one
edit, one change of mind of Akahu or of the rules, deaths; with fairness).
`ChoiceStands`: a person's choice stands unless a writer acted on a row that had
changed since it read it. `NeverRenagged`: a dismissed conflict re-opens only if Akahu
moved, as long as one sync at a time works on the link (the table below has what two
do). `Settles`: once everybody stops changing their mind the field stops changing.
`Surfaces`: a disagreement over a defended field is raised. Transactions of one page
meet only in the batch that rolls back, so one suffices for everything but the
count; three conflict ids are one more than can be remembered at once plus a fresh
one.

**`MCChatTurn_turns`** (two threads, two requests, a cap of one, two rounds, one call
per reply, one steer or more, one failed statement or death). `OneTurnEach`: turns and
entries of the registry correspond, through every failure of the setup, of the loop
and of the release. `NoOrphanClaim`: a claimed thread has a request on its way to
releasing it, until a statement or the process fails. `AnsweredOrAnswering`: each call
has exactly its answers, or its turn is writing them, whatever is stopped, steered,
interleaved or deleted. `StopHolds`: once stopped, a turn asks for nothing more.

**`MCAccess_ways`** (two people, one with a second factor and one who must enrol, a
browser, two workspaces, one invitation, two changes; with fairness). `RedirectsEnd`:
no loop among the proxy, the signpost, login, enrolment and the layout. `Arrives`:
through all those detours the browser lands where it was last sent, if its user
belongs there. `KeepsAnOwner`: a workspace that had an owner has one. Two workspaces
are what the signpost can confuse; two changes let a second owner leave while a
deletion waits at its prompt.

**`MCLinks_pairs`** (one link, two forms, one keypair, two pairs, two run rows, two
tries). `LatestKept`: a row that says "stored" holds the pair stored last. `PairHeard`:
until a run has tried a pasted pair, one is coming, through deaths, the reaper and tries
that run out. It excepts a pair an upgrade wrote over, a run lost on its last
try before it read the link, and a form answered with a row the reaper is about to fail.
`KeyCanGo`: once an upgrade has been through every row the symmetric key can be retired
(`.env.example:116-118`), for no row is locked with it any more, whichever forms and
commands were under way, except by a `money link token` that had begun before there was
a public key. One link shows what two would, since a link's row is written by nobody
else's command; two tries are a last one and one before it.

**`MCLedger_merge`** (a row that came back under a new id, its counterpart, three
accounts, one person with two acts, one sync or pass, one merge). `GroupsWhole`: a
transfer has two legs but for the races at the lines named there. `VowsKept`: what a
person linked stays linked through passes, syncs and merges. `CountedOnce`: a merged
row is never held beside the one it became, as long as the account Akahu lists it
under is marked superseded. `ChoicesSurvive`: a category, tax year or
label a person set is on the row that stands for it after the merge. Two acts, a
job and a merge are what a race of three needs; the one race of these properties that
takes three acts (a year set on both rows of a pair, the successor's erased while the
merge waits) is out of the run's reach and in the theorem's.

**`MCFigures_pages`** (two days either side of the end of March and of the tax year, two
tax years to choose from, two batches of rows, three plans with a yearly one across
the new year, six habits, pages three back, a line 45 days on). `Whole`: a window
shows each transaction exactly once, at its place, its periods leave no day out, what
lies before it is within reach of its links, a link opens the window it names, and
its tables add up to the rows they list (`Told`). `Conserved`: the flow's nodes equal
their links and no two boxes overlap. `PlanAdds`: a
plan is what its items come to, asked day by day. What `amountInPeriod` says of an item is
compared for items in the display currency, since it does not convert, and the yearly
window for plans that say when they start and end. `LineMeets`: the line back meets the
line forward with no day on both, its points are on the walk of the days, the money is gone
on the first day it is at nothing or less, whatever comes in later, and the line ends on the day
the last of the credit is drawn. Under one base the money never runs out; under the lean one it
is gone on day 20, comes back on day 22 and is gone again from day 27, and the
credit is used up on day 34 of the 45. `Recovered`: regular payments are recovered as what
they are, late or in parts. The dates sit where a month's end, a fortnight's cycle,
a quarter and a tax year fall together.

**`MCBudgets_plans`** (three scenes: people change budgets while a run has its proposal
ready; they ask for a run and go on; a person talks to a run, or it dies and is
taken up again, or it is reaped alive and another drainer has its row; two areas, two
rounds; with fairness). `HeardOnce`: what was said is in
front of the model once, in order. `OneWriter`: a log taken over has no worker writing
to it, unless no run row pointed at it when it was found finished, or the reaper had
taken the row from a worker that lived. `StreamOnce`: a refresh adds nothing a hand-edited row already covers. `LogSettles`:
a log that says it is working stops saying so.

**`MCRuleBook_book`** (six scenes: a first use, a book under edit with a pass, people
enriching with a pass, tags with a pass, transfers with two passes and two failed
statements, a search; three documents, transactions and tags, five words). `OneActive`:
at most one document is active. `AsListed`: an undisturbed pass leaves rows as the page's
reading of the rules says, and the rule's tag on exactly those it changed or linked as a
transfer; it links none that was linked or that the document says not to; rows whose turn failed
are not tagged. `NothingLost` and `Taught`: a
new lesson changes the outcome of no transaction there could be but those it
reaches, and decides all of those. `NothingMissed`: the prefilter of "similar
transactions" drops nothing that would have scored enough. `PagesWhole`: a listing read to its end while nothing
changed holds each matching row once, in order.

The exceptions in these properties (`Calm`, `raced`, `skipped`, `troubles`, `kept`, `overtaken`,
`torn`, `loose`, `lost`, `alone`, `steady`, `spent`, `belated`, `failed`, `missed`) are history variables set exactly where the code acts
on something older than what it overwrites, or where a statement of its own fails; what
remains is what it promises. For `StreamOnce` and `Taught` the exception is the race itself, of
which the code promises nothing: they hold for a refresh against what it had read, and
for an editor alone with the document.

### What the code does not do as it says

These sentences of the repository are stated as definitions beside the others and
are refuted by the model. No run of the project lists them, because each fails
(`NeverRenagged` is listed, with the one sync it holds for):

| Definition | The sentence | What happens |
|---|---|---|
| `RunQueue!RowHasOneWorker` | two drainers are "safe if two overlap" (`scripts/drain.ts`) | the reaper flips a row, another drainer claims it, the reaper's finalise by id requeues it, a third claim gives it a second worker |
| `RunQueue!OnlyFailedCleared` | `clear-failed`: "Delete failed messages" (`email/retry.ts`) | a message requeued while the prompt is open is deleted unsent |
| `Ingest!FullHonoured` | a full request "widens" a queued run (`queue.ts`) | behind a `--days` run the flag is stored and then ignored |
| `Enrichment!ChoiceAlwaysStands` | a user-owned field is "never touched" (`rules/engine/apply.ts`) | an edit between the pass's read and its write by id is overwritten, ownership included |
| `Enrichment!NeverRenagged`, with two syncs of one link | a dismissed conflict "is only re-opened if Akahu's value has changed *again*" (`ingest/conflicts.ts:28`) | a run that was reclaimed while it lived, and the one that took over, read the same conflict; the second raises Akahu's new value, it is dismissed, and the first raises it again from its older reading |
| `ChatTurn!EveryCallAnswered` | "Every call gets a row" (`chat/run.ts`) | a death between the call's row and its answer's leaves a call no one will answer, in a thread that reads as finished |
| `ChatTurn!InstructionsHeard` | an instruction "would be obeyed *eventually*" (`chat/runs.ts`) | it lands between the read and the new signal: its interrupt hits the old one, and the turn ends without another round |
| `Links!EnvHoldsNothing` | an "env" row holds no pair (`cli/commands/link/token.ts:281`) | an upgrade that read the row before writes its blob back afterwards |

Smaller disagreements, met while modelling and without a definition of their own:

* *Queue and chat.* A row can be claimed once more than `WORKER_MAX_ATTEMPTS`, since a
  drainer decides from the attempts it read before its claim (`drain.ts:118`). A pasted pair
  may get no run: the form reuses a row that the reaper has flipped and then fails for
  good, or one whose last try dies before it reads the link. A request
  that loses `reserveRun` clears the claim of the turn it lost to (`turn/route.ts:186`). A
  thread whose process died stays claimed, so its page watches and does not resume
  it (`use-turn-stream.ts:260`). `compactThread` checks for a running turn only at its start,
  and a cut may fall on a steer between a call and its answers. A turn started
  without a message lets a late subscriber skip its first deltas (`runs.ts:29-34`).
* *Fields and ledger.* Accepting Akahu's value logs the one recorded in the conflict,
  which a pass may have replaced since (`actions/conflict.ts:97`). The change log is not
  "written by every writer that links a transfer" (`supersede.ts`, near 142): the pass logs
  one leg, at its end, so a merge can misjudge who made a link. `--undo` clears one
  account's marker and no other: a row that was moved to the successor and deleted by a
  second merge from there is fetched again under its own account, beside the row it
  became. `CountedOnce` speaks of the rows whose own account is still marked.
* *Budgets.* Only a base "can be a forecast", but `updateBudget` writes the flag for a layer
  (`budget.ts:57`). A retry never clears `stopRequestedAt`, so a stopped run stops again.
  Rows the detector adds where the model proposed nothing carry no category or
  payee, so they never match a hand-edited row and count twice, despite
  `write.ts:51-53`. A refresh whose budget is deleted while it waits becomes a new
  budget; a death after the commit makes a second one. A duplicate drops
  provenance, so guesses read as typed. A refinement overwrites edits made since it
  read. A chat's rename marks a typed figure as the model's (`budget-write.ts:457`).
  Clearing a running run's row lets its log be taken over while it is written. So does the
  reaper: `WORKER_STALE_MINUTES` is to be "set well above any real inference" (`drain.ts:166-170`),
  but its default is 15 (`run-queue.ts:21`), nothing renews the lease, and a conversation may have 150
  rounds of up to 300 seconds each (`chat/client.ts:29,46`). Reaped on its last try, the run
  is failed while its worker writes on, and `continueLog` gives its log away
  (`actions.ts:289-290`).
* *Rules and search.* A lesson folded into an existing row can be shadowed by an
  earlier one and teach nothing, though it is answered "merged". Two editors of the
  document lose one's edit; two first uses can leave no active document. The rule
  editor's help (`rule-editor.tsx:198`) and `chat/tools/rules.ts:61` still speak of tags the
  engine says are gone (`engine/index.ts:218`). An upper bound alone on the amount
  filters nothing (`chat/tools/transactions.ts:388`). Paging by offset through the
  uncategorised queue skips rows when earlier pages have been dealt with (`:142`). A tag
  joined between the pass's read and its insert loses the pass's whole tag.
* *Figures.* The flip between calendar and tax periods does not come back for tax
  years that start about the 15th to 17th (`periods.ts`: "maps back"). Paging the breakdown
  can replace the asked base in the url ("keeps the rest of the query intact"). A forecast
  clipped to now leaves out what is due today while actuals include today. A yearly
  payment cannot be detected in a window of two years that needs three of them.
  Transfers to locked accounts move the reconstructed line. A row moved to a tax year
  older than the oldest row may be out of reach of paging.

## 4. Bounds

`MaxAttempts`, `MaxCrashes`, `MaxRetries`, `LastDay`, `MaxTroubles`, `MaxChanges`, `MaxEdits`,
`MaxActs`, `MaxCalls`, `MaxMerges`, `MaxJobs`, `MaxPaged` and `MaxPages` bound counters in guards,
as do `ops` (failed statements too) and `left` (other drainers too) in `RuleBook`, `Budgets` and
`Inference`; `Run`, `ConflictId`, `MaxGroups`, `MaxPair`,
`Docs`, `Labels`, `Budgets`, `Items`, `Threads` and the `Runs` of `Links` bound the supply of ids. `MaxAttempts`, `Lookback`,
`Overlap`, `MaxSteps`, `MaxNudges`, `MaxTokens`, `MaxSimilar` and `Cap` are the code's own constants made
small; `LastDay <= Lookback` keeps the model within the history a full sync reaches,
which is the only span the code makes a promise about. The calendar's, the
detector's and the diagram's constants are the code's own. The theorems of section
6 hold for all values.

## 5. Fairness

Nobody is ever obliged to enqueue, edit, retry or die, and nothing is assumed of a
single attempt. What is assumed: the worker loop continues after an error and its
container is restarted (`scripts/worker.ts:62-76`, the compose file), so a drainer
keeps taking steps (`WF` on `Drain`, `Serve` of `Ingest`, `RunRules`, and `Worker` of `Budgets`); time
passes (`Elapse`, `Age`); the timer keeps queueing incremental syncs (`Schedule`, `Sync`);
not every sync dies or fails before its commit (`SF` on `Commit`); and a browser that
was redirected asks for the page (`WF` on `Serve` of `Access`). Calls to Akahu, the model
and the mail relay have timeouts, so a run ends. Deaths are bounded in `RunQueue`,
`Ingest` and `Inference` and unbounded in `Enrichment`. The other modules have no fairness:
their properties are safety.

## 6. What is proved

For every number of rows, drainers, runners, days, transactions, threads, links,
keys, workspaces and people:

* `RunQueueProofs`: `TypeCorrect`; `Exclusive`, `Honoured` and `SuccessFinal` from the
  inductive invariant `CalmInv`; `FailedSpent` (sync and rules queues) from `SpentInv`.
  `ExclusiveUntilCrash` is not inductive: nothing in it stops the reaper. `CalmInv` adds
  that a running row is attended by a worker holding the very lease the row shows
  and that no such lease is stale, hence the reaper finds nothing, hence nobody
  else writes a claimed row. `CalmBack` shows calm cannot return once lost, so the
  invariant may be conditional on it. `SpentInv` adds that the attempts a drainer has
  read never exceed the row's, so that deciding from an old count errs on the
  lenient side; retries reset the count, so it is stated for the queues without.
  `Lives` is the refinement `LivesOneLife`, for one drainer and any of the four queues:
  `LoneInv` says that what the drainer has read of its row still holds, but for the row
  having been cleared, so each of its writes moves a job from the stage `JobLife`
  expects. Two steps of the code are more than a step of one job: a sync whose link
  is no longer active is failed with attempts left (`Abandon`, only where `Revocable`), and
  `clear-failed` deletes several rows in one statement (`Withdraw` of a set). What a lone
  drainer gives is a `Faithful` reading and a `Sound` decision, and one lemma carries any
  step with both to `JobLife`; so `LivesWhileCalm` has only to get them from elsewhere:
  for any number of drainers of the sync and rules queues, as long as the system
  stays calm, `CalmInv` and `SpentInv` give them. It assumes calm of the whole behaviour, since
  one run that outlives its lease is enough to break the refinement later.
* `SyncProofs`, of the window: `WindowTyped`, and `GapFree` from `GapInv`: a run that is fetching has
  everything missing ahead of its cursor or within the overlap of the newest date
  it has seen, and its window is rooted at a date that is no later than the
  overlap before one. That is what makes overlapping runs harmless: each of them
  may move the mark, and none can move it past what it has itself covered.
* `SyncProofs`, of the fields: `TypeCorrect`; `ChoiceKept` and `HolderKnown` from `IInv`, which adds
  that a settled field is owned by its user, which is what the guards test. `Unnagged`
  (`NeverRenagged`), for one sync at a time, from `SeenTheirs`: of a conflict a sync has
  read, nobody but a sync changes the value Akahu gave.
* `ChatTurnProofs`: every property its run checks, and `NoLeak`, that the registry holds
  no entry without its turn. `TypeCorrect` needs `Pending` (answers
  are written while calls are left). `OneTurn` and `NoLeak` come from `Slots`, in which
  the number of entries is bounded, because that is what `reserveRun` counts; the
  number of turns follows by the injection from turns to their threads. `ClaimsEnd`
  is inductive as it stands. `CallsAreAnswered` comes from `CallsInv`, which adds that
  the row being answered is there and no row answers a later one, and from `Slots`:
  two turns on one thread would answer each other's calls. `StopIsHeard` comes from
  `Signalled`: a completion of a stopped turn runs under an aborted signal.
* `AccessProofs`, of the ways in: `OwnerKept` (`KeepsAnOwner`). The property is not inductive: an invitation
  grants what its row says when it is accepted, so `Granting` says that is a workspace,
  a person and a role; and a deletion is typed after its check, so `Cleared` says the
  command at its prompt had found its user the only owner of nothing, which is why
  a workspace it leaves without an owner is one another owner has left since.
  `Arrived` (`Arrives`) rests on `LedInv`: wherever a browser is headed, that is named by
  the url it is at, by the `?next=` of the form it is signing in on, or, once both are
  gone, by its last-workspace cookie, through every detour. That is what the
  signpost reads back, unless the user does not belong there.
* `AccessProofs`, of the pairs: `LinksTyped`, `PairKept` (`LatestKept`), `PairsHeard` (`PairHeard`, for any
  number of tries and of rows) and `KeyGoes` (`KeyCanGo`). The invariant adds
  `Formed` (a form past its read names a link there may be), `Upgrading` (an upgrade
  runs with a key to seal to, over symmetric rows of links that exist, so the only
  thing it can write over a newer pair is what sets `overtaken`) and `Asking` (a row
  that waits for an answer says "stored", which is what lets `LatestKept` speak of it
  when a run opens it). `Working` says a worker's run is in the table and running, so that
  whatever takes a row away, it is a row that has been tried or has tries left, or it
  is in `spent`. `Sweeping` is what an upgrade knows half way: there is a public key, and
  any row locked with the older one is among those it has still to write, or belated.
* `LedgerProofs`: every safety property its run checks: `Whole` (`GroupsWhole`), `Counted`
  (`CountedOnce`), `Survive` (`ChoicesSurvive`) and `VowsHold` (`VowsKept`). `Whole` rests on
  `LegInv`: groups are numbered as they are made, so a new one has no legs from
  before; what a request is about to write is what it read, so the rows of its new
  group were loose or come with their group; and every group that is not torn has
  two legs. A bulk link has an oldest row since its rows are finitely many and days
  are numbers. For `Counted`, `Gone` says more than the property, that the
  older row is not held and its account is marked; what a sync under way may do needs
  `Avoids`: an account that is marked is one the sync set out to leave alone or one
  merged since it looked. A commit takes the rows of its plan away even if they have
  been touched since, which is why the plan's being old does no harm here.
  `Survive` rests on `ChoiceInv`. `Matched` says of a plan that no row succeeds two and no
  successor is itself succeeded, so that what is written to a row is what was planned
  for it; `PlanPairs` proves it of a new plan, `ShapesOnce` of the greedy pairing: of two
  rows that took the same one, neither may have had its turn after the other. `Fair`
  says the pair's rows are still held and its link is what its own readings call for,
  and `Foreseen` that what people had set by then is in the plan or on the successor. The last
  is where the proof found what two acts do not show: a tax year the successor has when
  the plan is made is not carried, and erased there before the commit, the older
  row's year goes with its row. That is the plan being old, as for a choice made after
  it, so `Erase` takes it off what is remembered (`LeftOut`).
  `VowsHold` rests on `VowInv`, with the three others: a row in a group is held and the
  group exists (`Attached`), and a successor that a person has linked was in a group when
  the plan read it (`Vowing`), so a rule's link on the older row does not outrank the
  person's. `MovesVows` is what any link does to the others: a group is folded whole, and a
  row that was read loose and has joined a group since takes its links with it.
* `SearchProofs`: every property its run checks, and `WellTyped`, the type invariant
  of the book, the rows, the hands and the pass.
  `Whole` (`PagesWhole`) from `ListInv`: what has been read is the front of the answer, in
  some order of its rows that the database may have used; two such orders of the
  same rows differ at most between ties, so a page read by offset continues it. The
  lemmas count the rows before a row and find the row of each rank.
  `AllSimilar` (`NothingMissed`), of the candidates, is arithmetic on words: leave more than half of a set's
  words out and what is left cannot be half of a union.
  `OnlyOneActive` (`OneActive`) from `BookInv`, which adds that a hand that has found or made
  the document and met nobody holds an active one; the demotion that follows then
  leaves that one and no other.
  `NoLessonLost` (`NothingLost`): the rows a lesson replaces decide what it decides, for
  more transactions, and none it leaves above them catches a row it does not. It is
  about two tables and any transaction at all, so the lemmas say what the first
  match in a filtered sequence is. `LessonsTaught` (`Taught`) needs `BookInv` as well: the table
  written is one the worker will find.
  `PassesAsListed` (`AsListed`) from `PassInv`: of each row, in each step of the pass, whether
  it is still to be written, has failed, is owed its tag (for a change or for a
  transfer linked), or is as decided but for a tag that was missed; and that a pass
  nobody disturbed is still running the active document's rules. The engine and the
  page read the table differently (a row without a cell for every column is
  skipped by one and listed by the other), and they agree because a pass heals the
  table it has read.

* `BudgetsProofs`: every safety property its run checks.
  `LogHasOneWriter` (`OneWriter`) from `HoldInv`: a person may find a log finished and take
  it over only later, so what is true in between is that the log they found is not the
  one a worker holds, unless no run row pointed at it or the row was shared. That rests on
  `RowHeld`: the row a worker still holds says "running" and is no other drainer's,
  whatever is reaped elsewhere, which is what `continueLog` reads; a row that is not
  its own does not point at its log. And it rests on everybody naming only logs there are, so that a new
  thread is nobody's. `EverythingHeard` (`HeardOnce`) from `HearInv`: of the rows people wrote,
  the ones accounted for are those in front of the model; those not accounted for
  are all theirs, and all above. A row the worker writes itself is accounted for as
  it is written, a person's row takes the next seq, and so what a round finds
  unheard continues what the last one heard. `NothingCountedTwice` (`StreamOnce`): where
  there was no row a refresh leaves none or one of the proposal's that is about
  nothing kept, and what was kept is what the rows read were about.
* `FiguresProofs`: `FiguresWhole` (`Whole`), for any set of days, tax years, views, plans and
  batches of rows. It rests on the calendar. `PeriodsSliced` says of each of the nine kinds
  of period, for any day a tax year may start on, that every day is in one period,
  the one its key names, which begins where its key tells and ends where the next
  begins, and that keys and counting back follow the order of days. It is
  proved from the arithmetic of dates up: the year of a day of four centuries, its month
  and day, months, weeks and fortnights, quarters and years of either kind. `WindowsFound`: the offset
  `offsetForStartDate` finds for the first day of a window is that window's, as far back as
  a page looks. From there a window's keys are consecutive, a row's key is in it or
  not by its date alone (or the close of the year it was moved to), and the oldest row
  decides whether there is more. The state needs no more than `Typed` and `Loaded` (the
  screen is what `Page` computes for the url): what was shown before is never read back.
  `Anchored` has its exception because the code has it: a link kept for months and
  followed from the dashboard opens three periods and from the breakdown six, so a
  start nearer than a window's length is before the first window's end, and the most
  recent is shown. `Told`, the part of `Whole` about the tables, needs sums over finite sets. `Smallest` gives
  the induction the library's theorems cannot: of the sets a fact fails for, one with the
  fewest members, which is found by well-foundedness of the naturals. From it, that a sum
  over a union is the sum over its disjoint parts (`SumByParts`). A column's income is then
  its groups' and each group's its row's, named or other; a label that has merchants
  has every one of its rows under one of them, so the amounts come to the label's.
  `PlanHolds` (`PlanAdds`), for any plans too, rests on the same calendar. A step of days
  from the first one due, and a step of months with the day clamped to the month, meet
  exactly the days that asking each one (`DueOn`) says are due, in order, and no month's end
  drifts; a yearly window is found by the year the day is in. The planned entries are
  then the due days of the items, told apart by budget, item and day. The amounts follow
  from sums over finite sets: by label for a group, of a constant for one item in one
  period, negated for what is taken off the ledger.

`TypeCorrect`, `WindowTyped`, `LinksTyped`, `FailedSpent`, `HolderKnown` and `NoLeak` are proved although no
run lists their property; TLC checked those on the same instances first, and the type
invariants of `Ledger` and `Figures` too, which have no theorem of their own (`Figures` is
typed within `FiguresWhole`). `PeriodsSliced` and `WindowsFound` are about operators; TLC checked them
over a span of years first.

Assumptions: only those named in the modules (`KindAssumption`, `PeopleAssumption`,
`BoundsAssumption`, `NoneAssumption`, `NothingAssumption`, `WindowAssumption`, `CapAssumption` and
`ThreadAssumption`, that a person has finitely many threads; `FoundedAssumption`, that
the memberships at the start are roles; `AccountAssumption`, that rows and the pairs named
by hand are of accounts there are; `RowAssumption`, that rows are finitely many, days
are numbers, and what stands for nothing is no row, group or owner; `SomeLinks`,
`KeypairsAreKeypairs`, `MaxPairIsNat` and `MaxAttemptsIsPositive`; `BookIds`, that ids are numbers and come
out in order, that a page and a chat are among the hands, and that a row is no leg of its own; `WordAssumption`, that words
are finitely many and known by their length; `SearchAssumption`, that days, amounts and
page sizes are numbers and a filter has the tool's fields; `DetectedAreas`, `Limits`,
`ThreadIds`, `BudgetIds`, `NoneIsNoLog` and `NothingThere`, that areas are finitely many,
ids are finitely many numbers, items numbered in order, and that what stands for
nothing is no row; `DaysAssumption`, `ChoicesAssumption` and `BatchesAssumption`, that days are
finitely many numbers, a tax year starts on a day every month has (`settings/actions.ts` takes no
other), views are the code's, and each batch is finitely many well-formed rows; `PlansAssumption`, that plans
are finitely many and their items have the columns of `BudgetItem`; days come after the one
that stands for no date; `FxAssumption`, that
rates are finitely many whole numbers, none negative).
`Lives`, `LivesWhileCalm` and `Unnagged` state theirs: one drainer; the sync or the rules queue, and
calm; one sync at a time.

**Only model-checked:** the liveness properties (`EveryRunSettles`, `EventuallyHeld`, `Settles`,
`Surfaces`, `RedirectsEnd`, `LogSettles`), which need fairness and are out of the prover's
reach; and of `Figures` three properties. `Conserved` and `Recovered` sort (the columns of the
diagram, the amounts a median is taken of, the gaps between payments), and the library's
sort is a choice among the orders that agree, which the prover cannot follow into a
layout. `LineMeets` walks the days one by one from either side.

## 7. What to read into it, and what not

A property holds of the model. The model's steps are the statements of the code
at READ COMMITTED; the parts of a statement that do not bear on the properties
(columns, wording, most of the change log) are left out. One coalescing target, one
field and one workspace (two in `Access`) are modelled: they share no state with
their siblings except the drainer, which serves one queue after another, and a slow
sync delaying a mail is a matter of time that no property here is about. In `Figures`
money is in whole units and rates are whole, so rounding is not in question.

## 8. Not modelled

* Text: prompts, mails, labels of pages, formats. Components and their layout,
  except the flow diagram's, which decides what is legible of the figures.
* Accounts, balance snapshots, pending rows and the catalog (categories, exchange
  rates, institutions): single-batch upserts and wholesale replacements, with no
  state carried between syncs.
* Which rows of a thread a model is shown and where it is cut: it depends on the
  lengths of texts. The replay of events to late subscribers.
* The inside of Better Auth, of the rule graph's engine (only the learned table is
  modelled) and of cryptography: external. Sealing is a relation between a key and
  a blob.
* How transfer candidates and superseding accounts are scored: in `Ledger` any pair may
  be proposed, in `RuleBook` each row's `Legs` are given. The groups are `Ledger`'s; in `RuleBook`
  a row is linked or not.
* A second drainer's own log, and the budgets it writes: only what it does to the
  run's row. A run asked for after its row was cleared while the worker
  lives is in the theorems' reach, not in the run's.
* The row filter of tenancy: a predicate added to each query, with no steps.
* Listing commands and read-only chat tools. Build, migrations, containers.
* A mail may be sent twice (death between SMTP and the update): intended.

## 9. Plan

1. Proofs: that layers are one level deep; `Conserved`, from a sort whose order is stated.
2. `ChatTurn`: compaction against a turn that starts meanwhile, the replay buffer; that
   turns end, and a question is answered once its page is reopened.
3. A composition of `Ingest`, `Enrichment` and `RuleBook` with the rules queue: a sync queues
   the pass that classifies what it ingested.
4. Pending rows and snapshots in `Ledger`, beside the merge that carries them over.
