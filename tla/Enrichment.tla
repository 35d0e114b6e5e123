----------------------------- MODULE Enrichment -----------------------------
(***************************************************************************)
(* Who decides what a transaction's category (or merchant) is.  Three      *)
(* writers take turns over one field of a row, under the precedence        *)
(* user > rule > akahu: the sync (ingest/transactions.ts), which reads a   *)
(* page's rows and conflicts and commits the page in a later batch; the    *)
(* rules pass (rules/engine), which reads every row once and then writes   *)
(* them one by one; and a person, who sets the field (enrichment.ts) or    *)
(* settles a conflict the sync raised (actions/conflict.ts).               *)
(*                                                                         *)
(* One field is modelled; the other is the same code again.  The isolation *)
(* is Postgres' READ COMMITTED: a transaction that locks the row first is  *)
(* one step from that lock to its commit, and reads made before it may be  *)
(* out of date.  Conflict ids are only compared, so an id nobody remembers *)
(* any longer stands for a new one.                                        *)
(***************************************************************************)
EXTENDS Naturals, FiniteSets

CONSTANTS
    Tx,             \* transactions, all on one page of one link
    Value,          \* categories
    Syncer,         \* processes that sync the link
    Pass,           \* processes that run rules passes
    Person,         \* people settling conflicts
    ConflictId,
    MaxChanges,     \* bound: changes of mind of Akahu or of the rules' author
    MaxEdits,       \* bound: categories set by hand
    None            \* no category, no conflict, no opinion

ASSUME NoneAssumption == None \notin Value
ASSUME BoundsAssumption == MaxChanges \in Nat /\ MaxEdits \in Nat

VARIABLES
    row,        \* per transaction: the field's value, and its source column
    akahu,      \* what Akahu says the value is
    rule,       \* what the active rule document says, None for no match
    conflict,   \* its TransactionConflict row
    spc, page,  \* the sync: where it is, the values on the page it listed,
    prior,      \* the rows it read,
    known,      \* and the conflicts
    ppc, snap,  \* the pass: where it is, the rows it read,
    out, todo,  \* the document's answers, the rows still to be visited
    asked,      \* the conflict row acceptAkahuValue has read
    changes, edits,
    choice,     \* history: the value a person last settled the field on
    raced       \* history: since then, a sync or a pass has acted on a row that
                \* was no longer as it had read it

fieldVars == <<row, conflict>>
worldVars == <<akahu, rule, changes>>
syncVars == <<spc, page, prior, known>>
passVars == <<ppc, snap, out, todo>>
histVars == <<choice, raced, edits>>
vars == <<fieldVars, worldVars, syncVars, passVars, asked, histVars>>

Opinion == Value \cup {None}
Row == [value : Opinion, source : {"none", "akahu", "rule", "user"}]
NoRow == [value |-> None, source |-> "none"]
Conflict == [id : ConflictId, held : {"user", "rule"}, kept : Opinion,
             theirs : Value, open : BOOLEAN]
Nobody == "nobody"

TypeOK ==
    /\ row \in [Tx -> Row]
    /\ akahu \in [Tx -> Opinion] /\ rule \in [Tx -> Opinion]
    /\ conflict \in [Tx -> Conflict \cup {None}]
    /\ spc \in [Syncer -> {"idle", "listed", "read"}]
    /\ page \in [Syncer -> [Tx -> Opinion]]
    /\ prior \in [Syncer -> [Tx -> Row]]
    /\ known \in [Syncer -> [Tx -> Conflict \cup {None}]]
    /\ ppc \in [Pass -> {"idle", "running"}]
    /\ snap \in [Pass -> [Tx -> Row]]
    /\ out \in [Pass -> [Tx -> Opinion]]
    /\ todo \in [Pass -> SUBSET Tx]
    /\ asked \in [Person -> [tx : Tx, seen : Conflict] \cup {None}]
    /\ choice \in [Tx -> Opinion \cup {Nobody}]
    /\ raced \in [Tx -> BOOLEAN]
    /\ changes \in 0..MaxChanges /\ edits \in 0..MaxEdits

NoOpinion == [t \in Tx |-> None]

Init ==
    /\ row = [t \in Tx |-> NoRow]
    /\ akahu \in [Tx -> Opinion] /\ rule \in [Tx -> Opinion]
    /\ conflict = [t \in Tx |-> None]
    /\ spc = [s \in Syncer |-> "idle"]
    /\ page = [s \in Syncer |-> NoOpinion]
    /\ prior = [s \in Syncer |-> [t \in Tx |-> NoRow]]
    /\ known = [s \in Syncer |-> [t \in Tx |-> None]]
    /\ ppc = [p \in Pass |-> "idle"]
    /\ snap = [p \in Pass |-> [t \in Tx |-> NoRow]]
    /\ out = [p \in Pass |-> NoOpinion]
    /\ todo = [p \in Pass |-> {}]
    /\ asked = [u \in Person |-> None]
    /\ choice = [t \in Tx |-> Nobody]
    /\ raced = [t \in Tx |-> FALSE]
    /\ changes = 0 /\ edits = 0

Present(t) == row[t].source # "none"

-----------------------------------------------------------------------------
(* The world: Akahu changes its mind, somebody edits the rule document.      *)

Report(t, v) ==
    /\ v # akahu[t] /\ changes < MaxChanges
    /\ changes' = changes + 1
    /\ akahu' = [akahu EXCEPT ![t] = v]
    /\ UNCHANGED <<fieldVars, rule, syncVars, passVars, asked, histVars>>

EditRule(t, v) ==
    /\ v # rule[t] /\ changes < MaxChanges
    /\ changes' = changes + 1
    /\ rule' = [rule EXCEPT ![t] = v]
    /\ UNCHANGED <<fieldVars, akahu, syncVars, passVars, asked, histVars>>

-----------------------------------------------------------------------------
(* The sync: list a page, read what is held of it, commit one batch.         *)

List(s) ==
    /\ spc[s] = "idle"
    /\ spc' = [spc EXCEPT ![s] = "listed"]
    /\ page' = [page EXCEPT ![s] = akahu]
    /\ UNCHANGED <<fieldVars, worldVars, prior, known, passVars, asked, histVars>>

Read(s) ==
    /\ spc[s] = "listed"
    /\ spc' = [spc EXCEPT ![s] = "read"]
    /\ prior' = [prior EXCEPT ![s] = row]
    /\ known' = [known EXCEPT ![s] = conflict]
    /\ UNCHANGED <<fieldVars, worldVars, page, passVars, asked, histVars>>

Forget(s) ==
    /\ spc' = [spc EXCEPT ![s] = "idle"]
    /\ page' = [page EXCEPT ![s] = NoOpinion]
    /\ prior' = [prior EXCEPT ![s] = [t \in Tx |-> NoRow]]
    /\ known' = [known EXCEPT ![s] = [t \in Tx |-> None]]

\* Mutant of Defended: a rule's value is not worth defending.
DefendedUserOnly(source) == source = "user"

Defended(source) == source \in {"user", "rule"}

\* The batch's upsert of one transaction.  An update never writes the source.
RowAfter(t, p, v) ==
    IF Defended(p.source) THEN row[t]
    ELSE IF Present(t) THEN [row[t] EXCEPT !.value = v]
    ELSE [value |-> v, source |-> "akahu"]

Diverges(p, v) == v # None /\ v # p.value

Same(c, d) == c # None /\ d # None /\ c.id = d.id

Remembered(t) ==
    {c.id : c \in ({conflict[t]} \cup {known[s][t] : s \in Syncer}
                   \cup {a.seen : a \in {asked[u] : u \in Person} \ {None}})
                  \ {None}}

Fresh(t) == ConflictId \ Remembered(t)

\* Mutant of Reopened: the prompt is raised by every sync.
AlwaysReopened(c, v) == TRUE

\* Re-open only when Akahu has moved since the conflict was recorded.
Reopened(c, v) == c.theirs # v

\* Mutant of Reconciled: nobody is asked.
NeverRaised(t, p, v, c) == IF c = None THEN conflict[t] ELSE None

\* reconcileConflict, given the row and the conflict the sync read.
Reconciled(t, p, v, c) ==
    IF ~Diverges(p, v) THEN IF c = None THEN conflict[t] ELSE None
    ELSE IF c = None THEN [id |-> CHOOSE i \in Fresh(t) : TRUE, held |-> p.source,
                           kept |-> p.value, theirs |-> v, open |-> TRUE]
    ELSE [conflict[t] EXCEPT !.held = p.source, !.kept = p.value,
                             !.theirs = v, !.open = @ \/ Reopened(c, v)]

\* Its op meets the rows it expects: an update or a delete by id finds its row,
\* a create finds none (one conflict per field and transaction).
Lands(t, p, v, c) ==
    Defended(p.source) =>
        IF c # None THEN Same(conflict[t], c)
        ELSE Diverges(p, v) => conflict[t] = None /\ Fresh(t) # {}

Landing(s) == \A t \in Tx : Lands(t, prior[s][t], page[s][t], known[s][t])

Commit(s) ==
    /\ spc[s] = "read" /\ Landing(s)
    /\ row' = [t \in Tx |-> RowAfter(t, prior[s][t], page[s][t])]
    /\ conflict' = [t \in Tx |->
            IF Defended(prior[s][t].source)
            THEN Reconciled(t, prior[s][t], page[s][t], known[s][t])
            ELSE conflict[t]]
    /\ raced' = [t \in Tx |-> raced[t] \/ row[t] # prior[s][t]]
    /\ Forget(s)
    /\ UNCHANGED <<worldVars, passVars, asked, choice, edits>>

\* The whole page is rolled back and the run fails, to be retried.
RolledBack(s) ==
    /\ spc[s] = "read" /\ ~Landing(s)
    /\ Forget(s)
    /\ UNCHANGED <<fieldVars, worldVars, passVars, asked, histVars>>

\* Death before the commit leaves nothing behind, wherever it strikes.
SyncDies(s) ==
    /\ spc[s] = "read"
    /\ Forget(s)
    /\ UNCHANGED <<fieldVars, worldVars, passVars, asked, histVars>>

-----------------------------------------------------------------------------
(* The rules pass.                                                           *)

\* The document, then every row the workspace holds.  Nothing compares the two,
\* so one step reads both.
Begin(p) ==
    /\ ppc[p] = "idle"
    /\ ppc' = [ppc EXCEPT ![p] = "running"]
    /\ snap' = [snap EXCEPT ![p] = row]
    /\ out' = [out EXCEPT ![p] = rule]
    /\ todo' = [todo EXCEPT ![p] = {t \in Tx : Present(t)}]
    /\ UNCHANGED <<fieldVars, worldVars, syncVars, asked, histVars>>

\* Does the rule's answer v change the row r?  Nobody outranks a user.
Moves(r, v) == v # None /\ r.source # "user" /\ v # r.value

Visited(p, t) == todo' = [todo EXCEPT ![p] = @ \ {t}]

\* applyOutput: decided from the row as the pass read it, written by id.
Apply(p, t) ==
    /\ t \in todo[p] /\ Moves(snap[p][t], out[p][t])
    /\ row' = [row EXCEPT ![t] = [value |-> out[p][t], source |-> "rule"]]
    /\ raced' = [raced EXCEPT ![t] = @ \/ row[t] # snap[p][t]]
    /\ Visited(p, t)
    /\ UNCHANGED <<conflict, worldVars, syncVars, ppc, snap, out, asked, choice, edits>>

\* Nothing to change, or the evaluation threw and is stepped over.
StepOver(p, t) ==
    /\ t \in todo[p]
    /\ Visited(p, t)
    /\ UNCHANGED <<fieldVars, worldVars, syncVars, ppc, snap, out, asked, histVars>>

Rest(p) ==
    /\ ppc' = [ppc EXCEPT ![p] = "idle"]
    /\ snap' = [snap EXCEPT ![p] = [t \in Tx |-> NoRow]]
    /\ out' = [out EXCEPT ![p] = NoOpinion]
    /\ todo' = [todo EXCEPT ![p] = {}]
    /\ UNCHANGED <<fieldVars, worldVars, syncVars, asked, histVars>>

Finish(p) == ppc[p] = "running" /\ todo[p] = {} /\ Rest(p)

PassDies(p) == ppc[p] = "running" /\ todo[p] # {} /\ Rest(p)

-----------------------------------------------------------------------------
(* People.                                                                   *)

\* applyEnrichment: the value, the ownership and the end of any conflict.
Edit(t, v) ==
    /\ Present(t) /\ edits < MaxEdits
    /\ edits' = edits + 1
    /\ row' = [row EXCEPT ![t] = [value |-> v, source |-> "user"]]
    /\ conflict' = [conflict EXCEPT ![t] = None]
    /\ choice' = [choice EXCEPT ![t] = v]
    /\ raced' = [raced EXCEPT ![t] = FALSE]
    /\ UNCHANGED <<worldVars, syncVars, passVars, asked>>

\* keepUserValue.
Keep(t) ==
    /\ conflict[t] # None /\ conflict[t].open
    /\ conflict' = [conflict EXCEPT ![t].open = FALSE]
    /\ UNCHANGED <<row, worldVars, syncVars, passVars, asked, histVars>>

\* acceptAkahuValue reads the conflict.
Ask(u, t) ==
    /\ asked[u] = None /\ conflict[t] # None
    /\ asked' = [asked EXCEPT ![u] = [tx |-> t, seen |-> conflict[t]]]
    /\ UNCHANGED <<fieldVars, worldVars, syncVars, passVars, histVars>>

\* Mutant of Owner: accepting always hands the field back to the sync.
BackToAkahu(held) == "akahu"

\* Who owns a field once a person has taken Akahu's value for it.
Owner(held) == IF held = "rule" THEN "user" ELSE "akahu"

\* ... and, in one transaction, writes the value and deletes the conflict.
Take(u) ==
    /\ asked[u] # None
    /\ LET t == asked[u].tx
           c == asked[u].seen
       IN /\ Same(conflict[t], c)
          /\ row' = [row EXCEPT ![t] = [value |-> c.theirs, source |-> Owner(c.held)]]
          /\ conflict' = [conflict EXCEPT ![t] = None]
          /\ choice' = [choice EXCEPT ![t] = IF c.held = "rule" THEN c.theirs ELSE Nobody]
          /\ raced' = [raced EXCEPT ![t] = FALSE]
    /\ asked' = [asked EXCEPT ![u] = None]
    /\ UNCHANGED <<worldVars, syncVars, passVars, edits>>

\* The conflict has gone: the delete throws and the transaction rolls back.
TakeLost(u) ==
    /\ asked[u] # None /\ ~Same(conflict[asked[u].tx], asked[u].seen)
    /\ asked' = [asked EXCEPT ![u] = None]
    /\ UNCHANGED <<fieldVars, worldVars, syncVars, passVars, histVars>>

-----------------------------------------------------------------------------
Sync(s) == List(s) \/ Read(s) \/ Commit(s) \/ RolledBack(s)

RunRules(p) == Begin(p) \/ Finish(p)
               \/ \E t \in Tx : Apply(p, t) \/ StepOver(p, t)

World == \E t \in Tx, v \in Opinion : Report(t, v) \/ EditRule(t, v)

Settle == \/ \E t \in Tx : Keep(t) \/ \E v \in Opinion : Edit(t, v)
          \/ \E u \in Person : Take(u) \/ TakeLost(u) \/ \E t \in Tx : Ask(u, t)

Die == \/ \E s \in Syncer : SyncDies(s)
       \/ \E p \in Pass : PassDies(p)

Next == World \/ Settle \/ Die
        \/ \E s \in Syncer : Sync(s)
        \/ \E p \in Pass : RunRules(p)

Spec == Init /\ [][Next]_vars

\* The timer syncs again and again, not every sync dies before it commits, and
\* every sync queues a pass.
FairSpec ==
    /\ Spec
    /\ \A s \in Syncer : WF_vars(Sync(s)) /\ SF_vars(Commit(s))
    /\ \A p \in Pass : WF_vars(RunRules(p))

-----------------------------------------------------------------------------
(* Properties.                                                               *)

\* What a person settled a field on stays, through every sync and every rules
\* pass, until a person changes it or hands the field back to the sync: whoever
\* they overruled, and however they did it.
ChoiceStands == \A t \in Tx : choice[t] # Nobody /\ ~raced[t] => row[t].value = choice[t]

\* A conflict knows who holds the field: acceptAkahuValue decides from it who is
\* to own the field next, without looking at the row.  In particular none is
\* left standing on a field the sync owns, where nothing would ever clear it.
ConflictKnowsHolder ==
    \A t \in Tx : conflict[t] # None /\ ~raced[t] => conflict[t].held = row[t].source

\* "A conflict the user already dismissed is only re-opened if Akahu's value has
\* changed again since it was dismissed" (ingest/conflicts.ts), with the sync's
\* reading of the conflict older than its writing of it.
NeverRenagged ==
    [][\A t \in Tx :
        /\ conflict[t] # None /\ ~conflict[t].open
        /\ Same(conflict'[t], conflict[t]) /\ conflict'[t].open
        => conflict'[t].theirs # conflict[t].theirs]_vars

\* The sync and the rules agree: once Akahu, the author of the rules and the
\* people are done changing their minds, the field stops changing.
Settles == <>[][FALSE]_row

\* A standing disagreement with Akahu over a defended field is raised.
Surfaces ==
    \A t \in Tx :
        (Defended(row[t].source) /\ Diverges(row[t], akahu[t]))
            ~> (conflict[t] # None \/ ~Defended(row[t].source)
                \/ ~Diverges(row[t], akahu[t]))

-----------------------------------------------------------------------------
(* What the comments of the repository say, and the code does not do.        *)

\* "A field owned by `user` is never touched" (rules/engine/apply.ts); "stamped
\* user-owned, which stops the next Akahu sync overwriting it" (enrichment.ts).
ChoiceAlwaysStands == \A t \in Tx : choice[t] # Nobody => row[t].value = choice[t]
=============================================================================
