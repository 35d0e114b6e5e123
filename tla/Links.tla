---------------------------- MODULE Links ----------------------------
(* A workspace's bank links and the token pair each one holds: the sync
   page's two forms (app/w/[workspace]/sync), `money link token`, `money link
   upgrade` and `money sync`, and the worker that opens a pair when it claims
   a run.

   A pair is a number, newer pairs being larger; `blob` is the two cipher
   columns, always written together: the pair and what it is locked with, the
   symmetric key ("sym") or the public half of a keypair.  What binds a blob
   to its row (tokenAad) is the function itself: a blob is only ever read in
   the row it was written to.  A process keeps the environment it was started
   with, so a command carries the keys it saw.

   Runs are drained by one worker, which reaps between two jobs: what a second
   drainer and a lease that runs out do to a run is RunQueue's.  Backoff is a
   wait and nothing else here.                                             *)
EXTENDS Naturals, FiniteSets, TLC

CONSTANTS
  LinkIds,   \* ids the database may mint
  Forms,     \* submissions of the sync page in flight
  Keypairs,  \* keypairs `money link keypair` has printed
  MaxPair,   \* token pairs pasted in all
  Runs,      \* bound: SyncRun rows that are not over
  MaxAttempts, \* WORKER_MAX_ATTEMPTS
  Nothing

ASSUME SomeLinks == IsFiniteSet(LinkIds) /\ LinkIds # {} /\ Nothing \notin Keypairs
ASSUME KeypairsAreKeypairs == "sym" \notin Keypairs
ASSUME MaxPairIsNat == MaxPair \in Nat
ASSUME MaxAttemptsIsPositive == MaxAttempts \in Nat \ {0}

VARIABLES
  link,      \* the BankLink rows: [source, blob], or Nothing
  host,      \* the keys of the deployment: [pub, priv, sym]
  form,      \* each submission: [at, link]
  token,     \* `money link token`: [link, keys] while it prompts, or Nothing
  upgrade,   \* `money link upgrade`: [seen, keys] while it runs, or Nothing
  runs,      \* the SyncRun rows that are not over: [link, status, attempts]
  worker,    \* the run claimed: [run, at], or Nothing
  pasted,    \* pairs pasted so far
  latest,    \* history: the pair last stored in each row
  asked,     \* history: rows where a form stored a pair no run has opened
  overtaken, \* history: rows where an upgrade wrote over a newer pair
  spent,     \* history: rows asked about whose run was on its last try, and lost it
  swept,     \* history: an upgrade has gone through every row
  belated    \* history: rows a command older than the public key wrote after it

pairVars == <<link, pasted, latest, asked, overtaken, spent, belated>>
upgradeVars == <<upgrade, swept>>
runVars == <<runs, worker>>
linkVars == <<pairVars, host, form, token, upgradeVars, runVars>>

Links == {l \in LinkIds : link[l] # Nothing}
Pairs == 1..MaxPair
Blobs == [pair : Pairs, lock : Keypairs \cup {"sym"}]
Rows  == [source : {"env", "stored"}, blob : Blobs \cup {Nothing}]
\* A row the reaper has flipped is `queued` in the table while it decides.
SyncRuns == [link : LinkIds, status : {"queued", "flipped", "running"}, attempts : 0..MaxAttempts]
Jobs  == [run : Runs, at : {"claimed", "using"}]
Keys  == [pub : Keypairs \cup {Nothing}, priv : Keypairs \cup {Nothing}, sym : BOOLEAN]
Idle  == [at |-> "idle", link |-> Nothing]

ASSUME NothingAssumption == Nothing \notin Blobs \cup Rows \cup Jobs \cup SyncRuns

LinkTypes ==
  /\ link \in [LinkIds -> Rows \cup {Nothing}]
  /\ host \in Keys
  /\ form \in [Forms -> [at : {"idle", "page", "counted", "found", "saved"},
                         link : LinkIds \cup {Nothing}]]
  /\ token \in [link : LinkIds \cup {Nothing}, keys : Keys] \cup {Nothing}
  /\ upgrade \in [seen : [LinkIds -> Blobs \cup {Nothing}], keys : Keys] \cup {Nothing}
  /\ runs \in [Runs -> SyncRuns \cup {Nothing}]
  /\ worker \in Jobs \cup {Nothing}
  /\ pasted \in 0..MaxPair
  /\ latest \in [LinkIds -> Pairs \cup {Nothing}]
  /\ asked \subseteq LinkIds /\ overtaken \subseteq LinkIds /\ spent \subseteq LinkIds
  /\ swept \in BOOLEAN /\ belated \subseteq LinkIds

LinkInit ==
  /\ link \in [LinkIds -> {Nothing, [source |-> "env", blob |-> Nothing]}]
  /\ host \in [pub : {Nothing}, priv : {Nothing}, sym : BOOLEAN]
  /\ form = [f \in Forms |-> Idle]
  /\ token = Nothing /\ upgrade = Nothing
  /\ runs = [r \in Runs |-> Nothing] /\ worker = Nothing
  /\ pasted = 0
  /\ latest = [l \in LinkIds |-> Nothing]
  /\ asked = {} /\ overtaken = {} /\ spent = {}
  /\ swept = FALSE /\ belated = {}

-----------------------------------------------------------------------------
(* lib/server/secrets.ts and seal.ts *)

(* decryptSecret: the prefix picks the key, and only that key opens it. *)
Opens(keys, blob) ==
  IF blob.lock = "sym" THEN keys.sym ELSE keys.priv = blob.lock

(* sealSecret needs the public half only. *)
Sealed(keys, p) == [pair |-> p, lock |-> keys.pub]

\* Mutant of CipherFields: the older key as long as there is one.
OldKeyFirst(keys) == IF keys.sym THEN "sym" ELSE keys.pub

(* cipherFields of the command: sealed when there is a key to seal to. *)
CipherFields(keys) == IF keys.pub # Nothing THEN keys.pub ELSE "sym"

(* What resolveToken hands the sync: the instance's pair (Nothing), the stored
   pair, or an error; it never falls back from one to the other.           *)
NoToken == 0
ResolveToken(row) ==
  CASE row.source = "env"  -> Nothing
    [] row.blob = Nothing     -> NoToken
    [] OTHER               -> IF Opens(host, row.blob) THEN row.blob.pair ELSE NoToken

(* A pair is written to a row, with all that goes with it; `late` when whoever
   writes it began before there was a public key, and there is one now.    *)
Stores(l, blob, heard, late) ==
  /\ link' = [link EXCEPT ![l] = [source |-> "stored", blob |-> blob]]
  /\ pasted' = pasted + 1
  /\ latest' = [latest EXCEPT ![l] = blob.pair]
  /\ asked' = IF heard THEN asked \cup {l} ELSE asked \ {l}
  /\ overtaken' = overtaken \ {l} /\ spent' = spent \ {l}
  /\ belated' = IF late THEN belated \cup {l} ELSE belated \ {l}

-----------------------------------------------------------------------------
(* The operator and the environment *)

(* The halves of a printed keypair are put where they go by hand, one at a
   time, and the symmetric key is set or retired.                          *)
SetPublicKey(k) ==
  /\ host.pub # k
  /\ host' = [host EXCEPT !.pub = k]
  /\ UNCHANGED <<pairVars, form, token, upgradeVars, runVars>>

SetPrivateKey(k) ==
  /\ host.priv # k
  /\ host' = [host EXCEPT !.priv = k]
  /\ UNCHANGED <<pairVars, form, token, upgradeVars, runVars>>

RetireEncryptionKey ==
  /\ host.sym
  /\ host' = [host EXCEPT !.sym = FALSE]
  /\ UNCHANGED <<pairVars, form, token, upgradeVars, runVars>>

-----------------------------------------------------------------------------
(* The sync page's forms *)

(* The connect form is for a workspace with no link, the replace form for a
   link there is; what a page offered is what is posted, however late.     *)
OffersConnect(f) == Links = {} /\ form' = [form EXCEPT ![f] = [at |-> "page", link |-> Nothing]]
OffersReplace(f) == \E l \in Links : form' = [form EXCEPT ![f] = [at |-> "page", link |-> l]]

OpenPage(f) ==
  /\ form[f] = Idle
  /\ OffersConnect(f) \/ OffersReplace(f)
  /\ UNCHANGED <<pairVars, host, token, upgradeVars, runVars>>

(* readPair: no public key, nothing is stored. *)
ReadPair == host.pub # Nothing /\ pasted < MaxPair

(* connectBank counts the active links, or replaceBankTokens finds its row:
   a read of its own, before the write.                                    *)
FormReads(f) ==
  /\ form[f].at = "page" /\ ReadPair
  /\ IF form[f].link = Nothing
       THEN form' = [form EXCEPT ![f] = IF Links = {} THEN [@ EXCEPT !.at = "counted"] ELSE Idle]
       ELSE form' = [form EXCEPT ![f].at = "found"]
  /\ UNCHANGED <<pairVars, host, token, upgradeVars, runVars>>

(* The row is created and sealed in one transaction; nothing is left of it
   when there is no longer a key to seal to.                               *)
ConnectBank(f) ==
  /\ form[f].at = "counted" /\ pasted < MaxPair
  /\ \E l \in LinkIds \ Links :
       IF host.pub # Nothing
         THEN /\ Stores(l, Sealed(host, pasted + 1), TRUE, FALSE)
              /\ form' = [form EXCEPT ![f] = [at |-> "saved", link |-> l]]
         ELSE /\ form' = [form EXCEPT ![f] = Idle]
              /\ UNCHANGED pairVars
  /\ UNCHANGED <<host, token, upgradeVars, runVars>>

ReplaceBankTokens(f) ==
  /\ form[f].at = "found" /\ pasted < MaxPair
  /\ IF host.pub # Nothing
       THEN /\ Stores(form[f].link, Sealed(host, pasted + 1), TRUE, FALSE)
            /\ form' = [form EXCEPT ![f].at = "saved"]
       ELSE /\ form' = [form EXCEPT ![f] = Idle]
            /\ UNCHANGED pairVars
  /\ UNCHANGED <<host, token, upgradeVars, runVars>>

(* enqueueSync reuses a run that is queued, and only such a run: one that is
   running may have read the pair this caller replaced.  A row keeps the
   attempts it has used.                                                   *)
\* Mutant of Coalesces: any run that is not over.
CoalescesUnfinished(l) == {r \in Runs : runs[r] # Nothing /\ runs[r].link = l}
Coalesces(l) ==
  {r \in Runs : runs[r] # Nothing /\ runs[r].link = l /\ runs[r].status \in {"queued", "flipped"}}

CreatesRun(l) ==
  \E r \in Runs :
    /\ runs[r] = Nothing
    /\ runs' = [runs EXCEPT ![r] = [link |-> l, status |-> "queued", attempts |-> 0]]

(* Between the reaper's two statements the only row that waits may be one it
   is about to fail for good, and then nobody will try the pair.           *)
Spent(r) == runs[r].attempts = MaxAttempts
Doomed(l) == \A r \in Coalesces(l) : runs[r].status = "flipped" /\ Spent(r)

FormQueues(f) ==
  /\ form[f].at = "saved"
  /\ LET l == form[f].link IN
     IF Coalesces(l) # {}
       THEN runs' = runs /\ spent' = IF Doomed(l) THEN spent \cup ({l} \cap asked) ELSE spent
       ELSE CreatesRun(l) /\ spent' = spent \ {l}
  /\ form' = [form EXCEPT ![f] = Idle]
  /\ UNCHANGED <<link, pasted, latest, asked, overtaken, belated, host, token, upgradeVars, worker>>

(* The reader leaves, or the process dies where it stands, and then nobody
   answers for the pair it had stored.                                     *)
FormEnds(f) ==
  /\ form[f] # Idle
  /\ form' = [form EXCEPT ![f] = Idle]
  /\ asked' = IF form[f].at = "saved" /\ \A g \in Forms \ {f} : form[g] # form[f]
                THEN asked \ {form[f].link} ELSE asked
  /\ spent' = spent \cap asked'
  /\ UNCHANGED <<link, pasted, latest, overtaken, belated, host, token, upgradeVars, runVars>>

-----------------------------------------------------------------------------
(* money link token *)

(* Something to lock with, checked before a credential is asked for; the
   private half is never looked at.                                        *)
TokenAsks ==
  /\ token = Nothing
  /\ host.pub # Nothing \/ host.sym
  /\ \E l \in Links \cup {Nothing} :
       token' = [link |-> l, keys |-> [host EXCEPT !.priv = Nothing]]
  /\ UNCHANGED <<pairVars, host, form, upgradeVars, runVars>>

(* Akahu accepted the pair and the operator said yes: a new row and its pair
   in one transaction, or an unguarded update of the row found before.     *)
TokenStores ==
  /\ token # Nothing /\ pasted < MaxPair
  /\ \E l \in IF token.link = Nothing THEN LinkIds \ Links ELSE {token.link} :
       Stores(l, [pair |-> pasted + 1, lock |-> CipherFields(token.keys)], FALSE,
              token.keys.pub = Nothing /\ host.pub # Nothing)
  /\ token' = Nothing
  /\ UNCHANGED <<host, form, upgradeVars, runVars>>

TokenEnds ==
  /\ token # Nothing /\ token' = Nothing
  /\ UNCHANGED <<pairVars, host, form, upgradeVars, runVars>>

(* --source env: back to the instance's pair, the stored copy erased. *)
RevertToEnv(l) ==
  /\ l \in Links
  /\ link' = [link EXCEPT ![l] = [source |-> "env", blob |-> Nothing]]
  /\ latest' = [latest EXCEPT ![l] = Nothing]
  /\ asked' = asked \ {l} /\ overtaken' = overtaken \ {l}
  /\ spent' = spent \ {l} /\ belated' = belated \ {l}
  /\ UNCHANGED <<pasted, host, form, token, upgradeVars, runVars>>

-----------------------------------------------------------------------------
(* money link upgrade --apply *)

(* scheme: a row that is sealed, or empty, is passed over. *)
PendingAll(blob) == blob # Nothing
Pending(blob) == blob # Nothing /\ blob.lock = "sym"

(* Both keys or nothing; then every row of the workspace is read at once. *)
UpgradeReads ==
  /\ upgrade = Nothing
  /\ host.pub # Nothing /\ host.sym
  /\ upgrade' = [keys |-> host,
                 seen |-> [l \in LinkIds |-> IF l \in Links /\ Pending(link[l].blob)
                                               THEN link[l].blob ELSE Nothing]]
  /\ UNCHANGED <<pairVars, swept, host, form, token, runVars>>

(* reseal opens what it sealed, through the worker's own path, before it
   writes.                                                                 *)
Verified(keys, blob) == Opens(keys, blob)

(* One row: opened with the symmetric key as it was when read, sealed, tried,
   written by id; whatever was stored meanwhile is written over, and the
   source is left as it is.  A key that does not fit stops the command.    *)
UpgradeRow(l) ==
  /\ upgrade # Nothing /\ upgrade.seen[l] # Nothing
  /\ LET blob == Sealed(upgrade.keys, upgrade.seen[l].pair) IN
     IF Opens(upgrade.keys, upgrade.seen[l]) /\ Verified(upgrade.keys, blob)
       THEN /\ link' = [link EXCEPT ![l].blob = blob]
            /\ overtaken' = IF latest[l] # blob.pair /\ upgrade.seen[l].lock = "sym"
                            THEN overtaken \cup {l} ELSE overtaken
            /\ upgrade' = [upgrade EXCEPT !.seen[l] = Nothing]
       ELSE upgrade' = Nothing /\ UNCHANGED <<link, overtaken>>
  /\ UNCHANGED <<pasted, latest, asked, spent, belated, swept, host, form, token, runVars>>

(* It has gone through every row, or is interrupted between two. *)
UpgradeEnds ==
  /\ upgrade # Nothing /\ upgrade' = Nothing
  /\ swept' \in IF \A l \in LinkIds : upgrade.seen[l] = Nothing THEN {swept, TRUE} ELSE {swept}
  /\ UNCHANGED <<pairVars, host, form, token, runVars>>

-----------------------------------------------------------------------------
(* money sync and the worker *)

(* queueSyncs, one active link at a time, reusing the run that waits. *)
QueueSync(l) ==
  /\ l \in Links /\ Coalesces(l) = {}
  /\ CreatesRun(l)
  /\ UNCHANGED <<pairVars, host, form, token, upgradeVars, worker>>

(* claimAndRunSync takes a queued row; attempts past the cap are all alike. *)
Claim(r) ==
  /\ worker = Nothing /\ \A q \in Runs : runs[q] # Nothing => runs[q].status # "flipped"
  /\ runs[r] # Nothing /\ runs[r].status = "queued"
  /\ worker' = [run |-> r, at |-> "claimed"]
  /\ runs' = [runs EXCEPT ![r].status = "running",
                          ![r].attempts = IF Spent(r) THEN @ ELSE @ + 1]
  /\ UNCHANGED <<pairVars, host, form, token, upgradeVars>>

(* finalise: back to the queue, or failed for good once the tries are spent. *)
Finalised(r) == IF Spent(r) THEN Nothing ELSE [runs[r] EXCEPT !.status = "queued"]

(* The claimed run reads its link and opens the pair: from here on it works
   with what it read.  A pair it cannot open fails the run there.          *)
OpenPair ==
  /\ worker # Nothing /\ worker.at = "claimed"
  /\ LET l == runs[worker.run].link  t == ResolveToken(link[l]) IN
     /\ asked' = IF t \in {NoToken, latest[l]} THEN asked \ {l} ELSE asked
     /\ spent' = spent \cap asked'
     /\ IF t = NoToken
          THEN /\ worker' = Nothing
               /\ runs' = [runs EXCEPT ![worker.run] = Finalised(worker.run)]
          ELSE worker' = [worker EXCEPT !.at = "using"] /\ runs' = runs
  /\ UNCHANGED <<link, pasted, latest, overtaken, belated, host, form, token, upgradeVars>>

(* The run is done with, or it threw. *)
RunEnds ==
  /\ worker # Nothing /\ worker.at = "using"
  /\ worker' = Nothing
  /\ \E row \in {Nothing, Finalised(worker.run)} : runs' = [runs EXCEPT ![worker.run] = row]
  /\ UNCHANGED <<pairVars, host, form, token, upgradeVars>>

(* The process dies holding a run, or the read of its link throws, which is
   outside the try: the row is left running.  On its last try, before it has
   opened the pair, that is the end of it.                                 *)
WorkerDies ==
  /\ worker # Nothing /\ worker' = Nothing
  /\ spent' = IF worker.at = "claimed" /\ Spent(worker.run)
               THEN spent \cup ({runs[worker.run].link} \cap asked) ELSE spent
  /\ UNCHANGED <<runs, link, pasted, latest, asked, overtaken, belated, host, form, token, upgradeVars>>

(* reapStale takes back a row left running: queued first, so that nobody takes
   it for one in flight, then decided like any other failure; the process may
   die between the two.                                                    *)
ReapFlips(r) ==
  /\ worker = Nothing
  /\ runs[r] # Nothing /\ runs[r].status = "running"
  /\ runs' = [runs EXCEPT ![r].status = "flipped"]
  /\ UNCHANGED <<pairVars, host, form, token, upgradeVars, worker>>

ReapDecides(r) ==
  /\ runs[r] # Nothing /\ runs[r].status = "flipped"
  /\ \E row \in {Finalised(r), [runs[r] EXCEPT !.status = "queued"]} : runs' = [runs EXCEPT ![r] = row]
  /\ UNCHANGED <<pairVars, host, form, token, upgradeVars, worker>>

LinkNext ==
  \/ \E k \in Keypairs : SetPublicKey(k) \/ SetPrivateKey(k)
  \/ RetireEncryptionKey
  \/ \E f \in Forms : \/ OpenPage(f) \/ FormReads(f) \/ ConnectBank(f)
                      \/ ReplaceBankTokens(f) \/ FormQueues(f) \/ FormEnds(f)
  \/ TokenAsks \/ TokenStores \/ TokenEnds
  \/ \E l \in LinkIds : RevertToEnv(l) \/ UpgradeRow(l) \/ QueueSync(l)
  \/ UpgradeReads \/ UpgradeEnds
  \/ \E r \in Runs : Claim(r) \/ ReapFlips(r) \/ ReapDecides(r)
  \/ OpenPair \/ RunEnds \/ WorkerDies

LinkSpec == LinkInit /\ [][LinkNext]_linkVars

-----------------------------------------------------------------------------
(* What the links promise *)

(* A row that says "stored" holds a pair, and it is the last one anybody
   stored there, whether a form, a command or an upgrade wrote the row since,
   unless an upgrade had read the row while it was still symmetric and came
   back to write after it was replaced.                                    *)
LatestKept ==
  \A l \in Links : link[l].source = "stored" /\ l \notin overtaken =>
    link[l].blob # Nothing /\ link[l].blob.pair = latest[l]

(* A run of the link that will still be claimed, or claimed again: it waits,
   or it was left running or is being taken back with a try to spare.      *)
Coming(l) ==
  \E r \in Runs :
    /\ runs[r] # Nothing /\ runs[r].link = l
    /\ \/ runs[r].status = "queued"
       \/ ~Spent(r) /\ (worker # Nothing => worker.run # r)

(* A pair pasted into the page gets its answer: until a run has opened it, or
   failed to, a run is coming or about to read it, or the form that stored it
   is about to queue one.  An upgrade may have written over the pair; and a
   run on its last try may be lost before it reads the link, or be given up
   while a form is being told that it waits.                               *)
PairHeard ==
  \A l \in asked :
    \/ l \in overtaken \cup spent
    \/ Coming(l)
    \/ worker # Nothing /\ worker.at = "claimed" /\ runs[worker.run].link = l
    \/ \E f \in Forms : form[f] = [at |-> "saved", link |-> l]

(* The symmetric key can go once an upgrade has been through every row: no row
   is locked with it then, nor ever will be, whatever forms, commands and
   upgrades were under way, but for a pair that `money link token` had begun to
   store before there was a public key (.env.example:116-118).             *)
KeyCanGo ==
  swept => \A l \in Links :
    link[l].blob # Nothing /\ link[l].blob.lock = "sym" => l \in belated

(* A row that says "env" holds no pair (`money link token --source env`). *)
EnvHoldsNothing ==
  \A l \in Links : link[l].source = "env" => link[l].blob = Nothing
=============================================================================
