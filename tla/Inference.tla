-------------------------- MODULE Inference --------------------------
(* One budget inference and the log it writes: the worker's conversation
   with the model (lib/server/budget/llm), the thread it is logged into
   (lib/server/budget/inference-log), and what the person watching can do to
   it (tellRun, stopRun, continueLog in the chat's actions; clearing and
   retrying the run row in the budgets' actions).

   A log is a sequence of rows: "asked" is a user row the run wrote (its
   brief, a nudge), "told" a user row a person wrote, "noted" any other.  A
   row's index is its seq.  One commitment stands for each spending area; a
   proposed row is bare when its category and payee did not resolve, so that
   only the area is left of its identity.

   The queue that hands runs to workers is module RunQueue; here it is the
   four states of the one run row.  One worker is followed, a conversation at
   a time.  The lease it claims the row with is never renewed, and a
   conversation may outlast it: a reaper takes the row away from a worker that
   lives as from one that died, and another drainer may then claim it, link a
   log of its own and write its outcome.  Of that drainer only what it does to
   the row is here.                                                         *)
EXTENDS Integers, Sequences, FiniteSets, SequencesExt

CONSTANTS
  Areas,     \* the spending areas of the history, one commitment in each
  Detected,  \* those the deterministic detector finds a rhythm in
  Unresolved, \* those where the names the model gives a category and a payee match none
  MaxSteps,  \* MAX_STEPS: rounds of a conversation
  MaxNudges, \* nudges before the model is taken at its word (2 in the code)
  Threads,   \* threads runs may open, in order
  None

ASSUME DetectedAreas == IsFiniteSet(Areas) /\ Detected \subseteq Areas /\ Unresolved \subseteq Areas
ASSUME Limits == MaxSteps \in Nat \ {0} /\ MaxNudges \in Nat
ASSUME ThreadIds == IsFiniteSet(Threads) /\ Threads \subseteq Nat

\* A log's own rows, and a worker that is doing nothing.
Kinds == {"asked", "told", "noted"}
Logs == [unattended : BOOLEAN, running : BOOLEAN, rows : Seq(Kinds)]
ASSUME NoneIsNoLog == None \notin Threads \cup Logs
States == {"queued", "running", "done", "failed"}

VARIABLES
  run,    \* the BudgetInferenceRun row: [status, target, thread, stop, other], or None
  log,    \* each thread: one of Logs, or None
  talk,   \* the worker's process: see Quiet
  teller, \* a thread tellRun found working and has not written to yet
  taker,  \* a thread continueLog found finished and has not taken yet
  left,   \* bounds: messages still to type, runs to ask for, deaths, retries, failures, others
  loose,  \* history: threads taken over while no run row pointed at them, or a shared one
  lost    \* history: threads whose worker died or never held its log

inferVars == <<run, log, talk, teller, taker, left, loose, lost>>

Quiet   == [at |-> "idle", thread |-> None, target |-> None, step |-> 0,
            nudges |-> 0, accounted |-> {}, heard |-> <<>>, due |-> {},
            covered |-> {}, items |-> {}, stopped |-> FALSE, row |-> "gone"]
\* The row this worker claimed: "held", "shared" once a reaper took it away, or
\* "gone", cleared (a run asked for afterwards is another row).
Rows == {"held", "shared", "gone"}

LogIds == {t \in Threads : log[t] # None}
Fresh  == {t \in Threads : log[t] = None}
Told(t) == {i \in DOMAIN log[t].rows : log[t].rows[i] = "told"}
Users(t) == {i \in DOMAIN log[t].rows : log[t].rows[i] \in {"asked", "told"}}

\* The rows a proposal is made of.
Commitments == [about : Areas, bare : BOOLEAN, source : {"ai", "computed"}]

InferInit ==
  /\ log = [t \in Threads |-> None]
  /\ teller = None /\ taker = None
  /\ loose = {} /\ lost = {}

--------------------------------------------------------------------------
(* The log.  Every write is best effort; a failed one is left out.         *)

\* append: the row takes the next seq, and a user row of the run's own is
\* accounted for at once.
Append1(t, kind) ==
  IF t = None THEN log ELSE [log EXCEPT ![t].rows = Append(@, kind)]
AccountedWith(t, kind) ==
  IF t = None \/ kind # "asked" THEN talk.accounted
  ELSE talk.accounted \cup {Len(log[t].rows) + 1}

UnheardPastMark(t) ==
  IF t = None THEN {}
  ELSE {i \in Users(t) : \A j \in talk.accounted : i > j}
\* heard: the user rows that are not accounted for.  "A person can type while
\* the run is mid-round, so their message can take a seq below one the run
\* goes on to write."
Unheard(t) == IF t = None THEN {} ELSE Users(t) \ talk.accounted

\* Numbers in order: before each come as many as its place says.
Below(i, S) == {j \in S : j < i}
InOrder(S) == [k \in 1 .. Cardinality(S) |-> CHOOSE i \in S : Cardinality(Below(i, S)) = k - 1]

ClosedNever(t) == log
\* close: the thread stops saying it is working.
Closed(t) == IF t = None \/ log[t] = None THEN log
             ELSE [log EXCEPT ![t].running = FALSE]

\* stopRequested: looked for on the run's own row.
StopAsked == talk.row # "gone" /\ run.stop

--------------------------------------------------------------------------
(* The worker up to its proposal.                                          *)

\* The queue hands the run out; the row as it is now is what the worker goes by.
Claim ==
  /\ talk.at = "idle" /\ run # None /\ run.status = "queued"
  /\ run' = [run EXCEPT !.status = "running"]
  /\ talk' = [Quiet EXCEPT !.at = "claimed", !.target = run.target,
                           !.row = IF run.other THEN "shared" ELSE "held"]
  /\ UNCHANGED <<log, teller, taker, left, loose, lost>>

\* openInferenceLog: a thread claimed from the start, then written back to the
\* run row by its id; a person may have cleared it.  Either write may fail, and a log
\* that failed to open is none.
OpenLog ==
  /\ talk.at = "claimed" /\ Fresh # {}
  /\ LET t == CHOOSE t \in Fresh : \A u \in Fresh : t <= u
     IN  /\ log' = [log EXCEPT ![t] = [unattended |-> TRUE, running |-> TRUE, rows |-> <<>>]]
         /\ talk' = [talk EXCEPT !.at = "opened", !.thread = t]
  /\ UNCHANGED <<run, teller, taker, left, loose, lost>>

LinkLog ==
  /\ talk.at = "opened"
  /\ run' = IF talk.row = "gone" THEN run ELSE [run EXCEPT !.thread = talk.thread]
  /\ \E available \in BOOLEAN :
       IF available
       THEN /\ talk' = [talk EXCEPT !.at = "ready",
                                    !.accounted = AccountedWith(talk.thread, "asked")]
            /\ log' = Append1(talk.thread, "asked")
       ELSE /\ talk' = [talk EXCEPT !.at = "computing"]
            /\ log' = Append1(talk.thread, "noted")
  /\ UNCHANGED <<teller, taker, left, loose, lost>>

OpenFails ==
  /\ talk.at \in {"claimed", "opened"} /\ left.fails > 0
  /\ left' = [left EXCEPT !.fails = @ - 1]
  /\ lost' = IF talk.thread = None THEN lost ELSE lost \cup {talk.thread}
  /\ \E next \in {"ready", "computing"} :
       talk' = [talk EXCEPT !.at = next, !.thread = None]
  /\ UNCHANGED <<run, log, teller, taker, loose>>

\* The top of a round: what was said since is put in front of the model, ...
Hear ==
  /\ talk.at = "ready"
  /\ LET new == Unheard(talk.thread)
     IN  talk' = [talk EXCEPT !.at = "listening",
                              !.accounted = @ \cup new,
                              !.heard = @ \o InOrder(new),
                              !.due = IF talk.thread = None THEN {} ELSE Told(talk.thread)]
  /\ UNCHANGED <<run, log, teller, taker, left, loose, lost>>

\* ... a stop is looked for, and only then is the model asked.
LookForStop ==
  /\ talk.at = "listening"
  /\ IF talk.thread # None /\ StopAsked
     THEN /\ talk' = [talk EXCEPT !.at = "over", !.stopped = TRUE]
          /\ log' = Append1(talk.thread, "noted")
     ELSE /\ talk' = [talk EXCEPT !.at = "asking"]
          /\ UNCHANGED log
  /\ UNCHANGED <<run, teller, taker, left, loose, lost>>

\* resolveProposedItems: a row for no real area is refused; a category or payee
\* that does not resolve "just degrades to null".
Proposed(a) == [about |-> a, bare |-> a \in Unresolved, source |-> "ai"]

Missed == Areas \ talk.covered
AfterRound == IF talk.step + 1 >= MaxSteps THEN "over" ELSE "ready"

\* A tool call: a read, a rejected batch, or rows accepted for one area.
CallTool ==
  /\ talk.at = "asking"
  /\ \E accepted \in {{}} \cup {{Proposed(a)} : a \in Areas} :
       talk' = [talk EXCEPT !.at = AfterRound, !.step = @ + 1,
                            !.items = @ \cup accepted,
                            !.covered = @ \cup {row.about : row \in accepted}]
  /\ log' = Append1(talk.thread, "noted")
  /\ UNCHANGED <<run, teller, taker, left, loose, lost>>

Finish ==
  /\ talk.at = "asking"
  /\ talk' = [talk EXCEPT !.at = "over", !.step = @ + 1]
  /\ log' = Append1(talk.thread, "noted")
  /\ UNCHANGED <<run, teller, taker, left, loose, lost>>

\* No tool call: rows written out as text are salvaged, and the model is
\* nudged about the areas left, or taken at its word.
SayNothing ==
  /\ talk.at = "asking"
  /\ \E salvaged \in {{}} \cup {{Proposed(a)} : a \in Areas} :
       LET covered == talk.covered \cup {row.about : row \in salvaged}
           done    == covered = Areas \/ talk.nudges >= MaxNudges
       IN  /\ talk' = [talk EXCEPT
                 !.at = IF done THEN "over" ELSE AfterRound,
                 !.step = @ + 1, !.items = @ \cup salvaged, !.covered = covered,
                 !.nudges = IF done THEN @ ELSE @ + 1,
                 !.accounted = IF done THEN @ ELSE AccountedWith(talk.thread, "asked")]
           /\ log' = Append1(talk.thread, IF done THEN "noted" ELSE "asked")
  /\ UNCHANGED <<run, teller, taker, left, loose, lost>>

\* Only a transport failure escapes the loop: everything it proposed is
\* dropped, and the deterministic detector stands in.
ModelFails ==
  /\ talk.at = "asking" /\ left.fails > 0
  /\ left' = [left EXCEPT !.fails = @ - 1]
  /\ talk' = [talk EXCEPT !.at = "computing"]
  /\ log' = Append1(talk.thread, "noted")
  /\ UNCHANGED <<run, teller, taker, loose, lost>>

\* proposeBudgetFromHistory: whole rows, straight from the history's streams.
Computed == {[about |-> a, bare |-> FALSE, source |-> "computed"] : a \in Detected}
\* proposeBudgetFromHistoryForWindows: the ids are not carried, so its rows
\* keep no category and no payee.
FilledIn(missed) ==
  {[about |-> a, bare |-> TRUE, source |-> "computed"] : a \in missed \cap Detected}
\* dedupeProposedItems: of rows with one name, one stays (the largest; which
\* of the two that is, the model's figures decide).
Deduped(rows) == {kept \in SUBSET rows :
  /\ {r.about : r \in kept} = {r.about : r \in rows}
  /\ \A r, s \in kept : r.about = s.about => r = s}

Compute ==
  /\ talk.at = "computing"
  /\ talk' = [talk EXCEPT !.at = "proposed", !.items = Computed,
                          !.stopped = FALSE, !.covered = {}]
  /\ UNCHANGED <<run, log, teller, taker, left, loose, lost>>

Resolve ==
  /\ talk.at = "over"
  /\ \E kept \in Deduped(talk.items \cup IF talk.stopped THEN {} ELSE FilledIn(Missed)) :
       talk' = [talk EXCEPT !.at = "proposed", !.items = kept]
  /\ log' = Append1(talk.thread, "noted")
  /\ UNCHANGED <<run, teller, taker, left, loose, lost>>

\* The `finally` of runBudgetInference, after the budget is written (module
\* Budgets) or the reason for failing was noted.
CloseLog ==
  /\ talk.at \in {"closing", "failed"} /\ talk.thread # None
  /\ log' = Closed(talk.thread)
  /\ talk' = [talk EXCEPT !.thread = None]
  /\ UNCHANGED <<run, teller, taker, left, loose, lost>>

\* What the queue makes of it: done, pointing at the budget, a retry, or a
\* failure for good, written by the row's id whatever became of it since.  A
\* budget deleted meanwhile (`stands` says whether it was) cannot be pointed at,
\* and that is a failure like any other.
Settle(stands) ==
  /\ talk.at \in {"closing", "failed"} /\ talk.thread = None
  /\ \E status \in IF talk.at = "closing" /\ (talk.row # "gone" => stands)
                    THEN {"done"} ELSE {"failed", "queued"} :
       /\ status = "queued" => left.retries > 0
       /\ left' = IF status = "queued" THEN [left EXCEPT !.retries = @ - 1] ELSE left
       /\ run' = IF talk.row = "gone" THEN run
                 ELSE [run EXCEPT !.status = status,
                                  !.target = IF status = "done" THEN talk.target ELSE @]
  /\ talk' = Quiet
  /\ UNCHANGED <<log, teller, taker, loose, lost>>

\* The worker's process dies.
Die ==
  /\ talk.at # "idle" /\ left.deaths > 0
  /\ left' = [left EXCEPT !.deaths = @ - 1]
  /\ lost' = IF talk.thread = None THEN lost ELSE lost \cup {talk.thread}
  /\ talk' = Quiet
  /\ UNCHANGED <<run, log, teller, taker, loose>>

SharedRow == [talk EXCEPT !.row = IF @ = "held" THEN "shared" ELSE @]
\* reapStale: a running row whose lease ran out, whoever works on it: the
\* retry-or-fail decision, as if the worker had died.
Reap ==
  /\ run # None /\ run.status = "running"
  /\ \E status \in {"failed", "queued"} :
       /\ status = "queued" => left.retries > 0
       /\ left' = IF status = "queued" THEN [left EXCEPT !.retries = @ - 1] ELSE left
       /\ run' = [run EXCEPT !.status = status]
  /\ talk' = SharedRow
  /\ UNCHANGED <<log, teller, taker, loose, lost>>

\* Another drainer with the row: it claims it, points it at a log of its own,
\* and writes how its conversation ended.
OtherClaims ==
  /\ run # None /\ run.status = "queued" /\ left.others > 0
  /\ left' = [left EXCEPT !.others = @ - 1]
  /\ run' = [run EXCEPT !.status = "running", !.other = TRUE]
  /\ UNCHANGED <<log, talk, teller, taker, loose, lost>>

OtherLinks ==
  /\ run # None /\ run.other /\ run.thread # None
  /\ run' = [run EXCEPT !.thread = None]
  /\ UNCHANGED <<log, talk, teller, taker, left, loose, lost>>

OtherSettles(budgets) ==
  /\ run # None /\ run.other
  /\ \E status \in {"done", "failed", "queued"}, b \in budgets \cup {None} :
       /\ status = "done" => b # None
       /\ status = "queued" => left.retries > 0
       /\ left' = IF status = "queued" THEN [left EXCEPT !.retries = @ - 1] ELSE left
       /\ run' = [run EXCEPT !.status = status, !.other = FALSE,
                             !.target = IF status = "done" THEN b ELSE @]
  /\ UNCHANGED <<log, talk, teller, taker, loose, lost>>

--------------------------------------------------------------------------
(* The person watching.                                                    *)

\* tellRun: the log says it is working, then the row is written.
FindWorking ==
  /\ teller = None /\ left.typed > 0
  /\ \E t \in LogIds : log[t].unattended /\ log[t].running /\ teller' = t
  /\ UNCHANGED <<run, log, talk, taker, left, loose, lost>>

Tell ==
  /\ teller # None
  /\ left' = [left EXCEPT !.typed = @ - 1]
  /\ log' = [log EXCEPT ![teller].rows = Append(@, "told")]
  /\ teller' = None
  /\ UNCHANGED <<run, talk, taker, loose, lost>>

\* stopRun: a mark on the run row, if the row still points at this log.
Stop ==
  /\ run # None /\ run.thread # None /\ ~run.stop
  /\ log[run.thread].unattended /\ run.status \in {"queued", "running"}
  /\ left.typed > 0 /\ left' = [left EXCEPT !.typed = @ - 1]
  /\ run' = [run EXCEPT !.stop = TRUE]
  /\ UNCHANGED <<log, talk, teller, taker, loose, lost>>

WorkingNever(t) == FALSE
\* continueLog: "refused while the run is still going, because the worker is
\* still writing to this thread and two writers on one conversation is how a
\* thread stops being one".  The run row is what says so.
Working(t) == run # None /\ run.thread = t /\ run.status \in {"queued", "running"}
FindFinished ==
  /\ taker = None
  /\ \E t \in LogIds :
       /\ log[t].unattended /\ ~Working(t)
       /\ taker' = t
       /\ loose' = IF run = None \/ run.thread # t \/ talk.row = "shared"
                   THEN loose \cup {t} ELSE loose
  /\ UNCHANGED <<run, log, talk, teller, left, lost>>

TakeOver ==
  /\ taker # None
  /\ log' = [log EXCEPT ![taker].unattended = FALSE, ![taker].running = FALSE]
  /\ taker' = None
  /\ UNCHANGED <<run, talk, teller, left, loose, lost>>

\* The runs "being created" on the budgets page: all but those that are done.
Awaiting == run # None /\ run.status # "done"
Buttons == IF ~Awaiting THEN {}
           ELSE IF run.status = "failed" THEN {"retry", "clear"} ELSE {"clear"}

\* clearInferenceRun, from a page that may be stale: whatever the row is doing.
ClearRun ==
  /\ run # None /\ left.typed > 0
  /\ left' = [left EXCEPT !.typed = @ - 1]
  /\ run' = None /\ talk' = [talk EXCEPT !.row = "gone"]
  /\ UNCHANGED <<log, teller, taker, loose, lost>>

\* retryInferenceRun: a failed row starts over.  A stop asked of it stands.
RetryRun ==
  /\ "retry" \in Buttons /\ left.retries > 0
  /\ left' = [left EXCEPT !.retries = @ - 1]
  /\ run' = [run EXCEPT !.status = "queued"]
  /\ UNCHANGED <<log, talk, teller, taker, loose, lost>>

--------------------------------------------------------------------------
Conversing == \/ OpenLog \/ LinkLog \/ OpenFails \/ Hear \/ LookForStop
              \/ CallTool \/ Finish \/ SayNothing \/ ModelFails
              \/ Compute \/ Resolve
Watching   == FindWorking \/ Tell \/ Stop \/ FindFinished \/ TakeOver \/ ClearRun \/ RetryRun

\* What a person said before the round began is in front of the model, once,
\* in the order it was said: no message stands below the run's own rows unread
\* (inference-log.ts, `accounted`).
HeardOnce ==
  /\ \A i, j \in DOMAIN talk.heard : i < j => talk.heard[i] < talk.heard[j]
  /\ talk.at = "asking" => talk.due = {talk.heard[i] : i \in DOMAIN talk.heard}

\* A log a person carried on as a conversation has no worker writing to it,
\* unless, when they took it over, no run row pointed at it (the row was cleared,
\* not written back yet, or another drainer's by then) or a reaper had taken the
\* row away from the worker, which had outlived its lease.
OneWriter ==
  \A t \in LogIds : ~log[t].unattended /\ talk.thread = t => t \in loose

Busy(t) == log[t] # None /\ log[t].running

\* A log that says it is working stops saying so, unless its worker died or
\* lost hold of it before it was linked.
LogSettles == \A t \in Threads : Busy(t) ~> (~Busy(t) \/ t \in lost)
======================================================================
