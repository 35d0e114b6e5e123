------------------------------- MODULE Ledger -------------------------------
(***************************************************************************)
(* What moves transactions about: the transfers that people and the rules  *)
(* pass link them into (matching/transfers.ts and the actions around it),  *)
(* and the merge of an account into the one Akahu replaced it with         *)
(* (accounts/supersede.ts and its command), beside the sync that brings    *)
(* rows in.  Every writer reads first and writes in a later transaction,   *)
(* so one step here is a group of reads or one committed transaction; the  *)
(* writes of a transaction name rows by id and groups by id, and take      *)
(* whatever is there by then.                                              *)
(*                                                                         *)
(* Of a row's enrichment the model keeps who owns its category (merchant   *)
(* is the same code), whether it has a tax year, a label, an open          *)
(* conflict.  From the change log it keeps the transfer entries, which the *)
(* merge reads back to learn who made a link.                              *)
(***************************************************************************)
EXTENDS Integers, FiniteSets, Functions

CONSTANTS
    Row,            \* transactions, by Akahu id
    Account,
    AkahuAccount,   \* [Row -> Account]: the account Akahu lists it under
    MigratedFrom,   \* [Row -> Row or None]: the row Akahu says it replaced
    Start,          \* the rows held at the start, before Akahu said what they replaced
    Predecessor,    \* [Account -> Account or None]: the same for accounts
    Date, Amount,   \* [Row -> Nat], the number of a day, and [Row -> Int]
    Window,         \* days between the legs of a transfer, for the auto-linker
    Near,           \* days between two rows of one shape
    Pairs,          \* the pairs of accounts a person names with --pair
    Picks, Batches, \* the pairs of rows, and the selections, people link
    Person,
    Edited,         \* bound: the rows whose enrichment anybody touches
    MaxGroups,      \* bound: transfer groups ever created
    MaxActs,        \* bound: things people do
    MaxJobs,        \* bound: syncs and rules passes
    MaxMerges,      \* bound: merges
    None

Source == {"akahu", "rule", "user"}

ASSUME AccountAssumption ==
    /\ None \notin Account /\ AkahuAccount \in [Row -> Account]
    /\ Pairs \subseteq Account \X Account
ASSUME RowAssumption ==
    /\ IsFiniteSet(Row) /\ Batches \subseteq SUBSET Row
    /\ Date \in [Row -> Nat] /\ None \notin Nat \cup Row \cup Source

VARIABLES
    home,           \* the account each held row is on, None if it is not held
    group,          \* its transferGroupId
    groups, minted, \* the TransferGroup rows, and how many there ever were
    owner,          \* its categorySource
    claim,          \* its migratedFromId
    extras,         \* what else hangs off it: a tax year, a label
    author,         \* of its transfer link, by the last FieldChange row about it
    into,           \* supersededById
    request,        \* per person and for the rules pass: what linking has read
    pass,           \* the rules pass: the rows it read ungrouped, its entries
    merge,          \* the merge under way: its plan and what it read
    sync,           \* the running sync: the accounts it leaves alone, and (history)
                    \* the ones merged since it looked
    acts,           \* how much of the bounds is used
    torn,           \* history: groups a write from an old read, or a merge not
                    \* swept yet, may have left with one leg
    vows,           \* history: pairs of rows a person has linked
    facts,          \* history: what people have set, on which row
    settled         \* history: pairs of rows a merge has made one, while Akahu lists
                    \* the older under an account that is superseded

bank == <<home, claim, owner, extras, into>>
links == <<group, groups, minted, torn, vows>>
runs == <<pass, merge, sync>>
told == <<facts, settled>>
vars == <<bank, links, author, request, runs, acts, told>>

Rules == "rules"
Actor == Person \cup {Rules}
Group == 1..MaxGroups
Idle == [op |-> "idle"]
Held == {r \in Row : home[r] # None}
Legs(g) == {r \in Held : group[r] = g}
Bound(kind, n) == acts[kind] < n /\ acts' = [acts EXCEPT ![kind] = @ + 1]

Init ==
    /\ home = [r \in Row |-> IF r \in Start THEN AkahuAccount[r] ELSE None]
    /\ claim = [r \in Row |-> None]
    /\ group = [r \in Row |-> None]
    /\ groups = {} /\ minted = 0
    /\ owner = [r \in Row |-> "akahu"]
    /\ extras = [r \in Row |-> {}]
    /\ author = [r \in Row |-> "akahu"]
    /\ into = [a \in Account |-> None]
    /\ request = [a \in Actor |-> Idle]
    /\ pass = [on |-> FALSE, loose |-> {}, noted |-> {}]
    /\ merge = Idle
    /\ sync = [on |-> FALSE, skip |-> {}, missed |-> {}]
    /\ acts = [kind \in {"act", "job", "merge"} |-> 0]
    /\ torn = {} /\ vows = {} /\ facts = {} /\ settled = {}

-----------------------------------------------------------------------------
(* The sync: it learns once which accounts are superseded, then writes the   *)
(* accounts, each with today's balance, and page after page of rows.         *)

NeverSkips == {}                                            \* mutant
Skipped == {a \in Account : into[a] # None}

SyncBegins ==
    /\ ~sync.on /\ Bound("job", MaxJobs)
    /\ sync' = [on |-> TRUE, skip |-> Skipped, missed |-> {}]
    /\ UNCHANGED <<bank, links, author, request, pass, merge, told>>

\* The upsert rewrites the account of a row it holds as well.  A sync that was
\* under way when its account was merged still writes it: nothing is promised of
\* the rows it brings back.
SyncRow(r) ==
    /\ sync.on /\ AkahuAccount[r] \notin sync.skip
    /\ home' = [home EXCEPT ![r] = AkahuAccount[r]]
    /\ claim' = [claim EXCEPT ![r] = MigratedFrom[r]]
    /\ settled' = IF AkahuAccount[r] \in sync.missed
                  THEN {s \in settled : r \notin {s.old, s.next}} ELSE settled
    /\ UNCHANGED <<owner, extras, into, links, author, request, runs, acts, facts>>

SyncEnds ==
    /\ sync.on
    /\ sync' = [on |-> FALSE, skip |-> {}, missed |-> {}]
    /\ UNCHANGED <<bank, links, author, request, pass, merge, acts, told>>

-----------------------------------------------------------------------------
(* What people and the pass write on a row.  A choice a merge has already    *)
(* read is not remembered: it acts on a plan made before.                    *)

Planned == IF merge.op \in {"planned", "gathered"} THEN merge.pairs ELSE {}
ReadAlready(r, f) ==
    \E p \in Planned : r \in {p.old, p.next} /\ (f = "label" => merge.op # "planned")

SetCategory(r) ==
    /\ r \in Held /\ Bound("act", MaxActs)
    /\ owner' = [owner EXCEPT ![r] = "user"]
    /\ facts' = IF ReadAlready(r, "category") THEN facts \ {<<r, "category">>}
                                              ELSE facts \cup {<<r, "category">>}
    /\ UNCHANGED <<home, claim, extras, into, links, author, request, runs, settled>>

RuleSets(r) ==
    /\ pass.on /\ r \in Held /\ owner[r] = "akahu"
    /\ owner' = [owner EXCEPT ![r] = "rule"]
    /\ UNCHANGED <<home, claim, extras, into, links, author, request, runs, acts, told>>

Annotate(r, f) ==
    /\ r \in Held /\ f \notin extras[r] /\ Bound("act", MaxActs)
    /\ extras' = [extras EXCEPT ![r] = @ \cup {f}]
    /\ facts' = IF ReadAlready(r, f) THEN facts ELSE facts \cup {<<r, f>>}
    /\ UNCHANGED <<home, claim, owner, into, links, author, request, runs, settled>>

\* A year the merge has seen on the successor is not carried to it: erased there,
\* the one on the older row is not remembered either.
LeftOut(r, f) == {p.old : p \in {q \in Planned : q.next = r /\ f = "year"}}

Erase(r, f) ==
    /\ r \in Held /\ f \in extras[r] /\ Bound("act", MaxActs)
    /\ extras' = [extras EXCEPT ![r] = @ \ {f}]
    /\ facts' = facts \ {<<x, f>> : x \in {r} \cup LeftOut(r, f)}
    /\ UNCHANGED <<home, claim, owner, into, links, author, request, runs, settled>>

-----------------------------------------------------------------------------
(* Linking.  A write moves rows by id to `g'; what that does to the history  *)
(* variables is the same everywhere: a row known to be loose that has joined *)
(* a group meanwhile tears that group, and a row that is gone leaves `g'     *)
(* short.                                                                    *)

Logs(rows, by) == author' = [r \in Row |-> IF r \in rows THEN by ELSE author[r]]

\* `moved' are the rows the statements name, `seen' the group each was read in.
Moves(moved, whole, g, seen) ==
    LET now == moved \cap Held
        all == now \cup {r \in Held : group[r] \in whole}
    IN  /\ group' = [r \in Row |-> IF r \in all THEN g ELSE group[r]]
        /\ groups' = (groups \cup ({g} \ 1..minted)) \ whole
        /\ torn' = groups' \cap
                   (torn \cup {group[r] : r \in {m \in now : group[m] \notin {seen[m], None, g}}}
                         \cup (IF moved \subseteq Held THEN {} ELSE {g}))

Broken(moved, seen) ==
    {v \in vows : \E r \in v \cap moved : group[r] # None /\ group[r] # seen[r]}

\* A link between rows a merge has planned for is not remembered either.
Vowed(pairs, g) ==
    {v \in pairs : \A r \in v : group'[r] = g /\ \A p \in Planned : r \notin {p.old, p.next}}

LinkRead(a, s, t) ==
    /\ request[a].op = "idle" /\ s # t /\ {s, t} \subseteq Held
    /\ group[s] = None \/ group[s] # group[t]
    /\ request' = [request EXCEPT ![a] =
                      [op |-> "link", source |-> s, target |-> t,
                       seen |-> [r \in {s, t} |-> group[r]]]]

PersonLinks(p, s, t) ==
    /\ Bound("act", MaxActs)
    /\ LinkRead(p, s, t)
    /\ UNCHANGED <<bank, links, author, runs, told>>

\* The group the legs end up in: the source's, else the target's, else a new one.
Chosen(a, b) == IF a # None THEN a ELSE IF b # None THEN b ELSE minted + 1

LinkWrite(a) ==
    LET q == request[a]
        s == q.source
        t == q.target
        g == Chosen(q.seen[s], q.seen[t])
        folded == {q.seen[t]} \ {None, g}
        moved == {r \in {s, t} : q.seen[r] = None}
    IN  /\ q.op = "link" /\ g \in Group
        /\ \/ g \in groups \/ g = minted + 1    \* else the foreign key fails
           \/ moved \cap Held = {} /\ folded = {}
        /\ folded \subseteq groups              \* else the delete fails
        /\ minted' = IF g > minted THEN g ELSE minted
        /\ Moves(moved, folded, g, q.seen)
        /\ request' = [request EXCEPT ![a] = Idle]
        /\ IF a = Rules
           THEN /\ pass' = [pass EXCEPT !.noted = @ \cup {s}]
                /\ vows' = vows \ Broken(moved, q.seen)
                /\ UNCHANGED author
           ELSE /\ Logs({s, t}, "user")
                /\ vows' = (vows \ Broken(moved, q.seen))
                           \cup Vowed({{s, t}}, g)
                /\ UNCHANGED pass
        /\ UNCHANGED <<bank, merge, sync, acts, told>>

\* The transaction throws and rolls back, or the request dies.
LinkFails(a) ==
    /\ request[a].op # "idle"
    /\ request' = [request EXCEPT ![a] = Idle]
    /\ UNCHANGED <<bank, links, author, runs, acts, told>>

UnlinkRead(p, s) ==
    /\ request[p].op = "idle" /\ s \in Held /\ group[s] # None
    /\ Bound("act", MaxActs)
    /\ request' = [request EXCEPT ![p] =
                      [op |-> "unlink", source |-> s, from |-> group[s],
                       others |-> Legs(group[s]) \ {s}]]
    /\ UNCHANGED <<bank, links, author, runs, told>>

ReleasesAlone(others) == others = {}                        \* mutant
\* One other leg or none: the group goes with the link.
Releases(others) == Cardinality(others) <= 1

UnlinkWrite(p) ==
    LET q == request[p]
        releases == Releases(q.others)
        freed == {q.source} \cup (IF releases THEN Legs(q.from) ELSE {})
        left == group[q.source]
    IN  /\ q.op = "unlink"
        /\ q.source \in Held
        /\ releases => q.from \in groups
        /\ group' = [r \in Row |-> IF r \in freed THEN None ELSE group[r]]
        /\ groups' = IF releases THEN groups \ {q.from} ELSE groups
        /\ torn' = (IF releases THEN torn \ {q.from} ELSE torn)
                   \cup {g \in {left} \ {None} :
                           \/ g # q.from
                           \/ ~releases /\ Legs(g) # q.others \cup {q.source}}
        /\ vows' = {v \in vows : v \cap freed = {}}
        /\ Logs({q.source} \cup (IF releases THEN q.others ELSE {}), "user")
        /\ request' = [request EXCEPT ![p] = Idle]
        /\ UNCHANGED <<minted, bank, runs, acts, told>>

\* Oldest first; a date in common is settled by the id.
Oldest(rows) == CHOOSE r \in rows : \A o \in rows : Date[r] <= Date[o]

BulkRead(p, rows) ==
    /\ request[p].op = "idle" /\ rows \subseteq Held /\ Cardinality(rows) >= 2
    /\ \E r \in rows : group[r] = None \/ group[r] # group[Oldest(rows)]
    /\ Bound("act", MaxActs)
    /\ request' = [request EXCEPT ![p] =
                      [op |-> "bulk", rows |-> rows, seen |-> [r \in rows |-> group[r]]]]
    /\ UNCHANGED <<bank, links, author, runs, told>>

BulkWrite(p) ==
    LET q == request[p]
        anchor == Oldest(q.rows)
        loose == {r \in q.rows : q.seen[r] = None}
        met == {q.seen[r] : r \in q.rows \ loose}
        joined == {r \in q.rows \ {anchor} :
                      q.seen[anchor] = None \/ q.seen[r] # q.seen[anchor]}
        g == Chosen(q.seen[anchor],
                    IF met = {} THEN None ELSE q.seen[Oldest(q.rows \ loose)])
    IN  /\ q.op = "bulk" /\ g \in Group
        /\ \/ g = minted + 1
           \/ g \in groups
           \/ loose \cap Held = {} /\ \A r \in Held : group[r] \notin met \ {g}
        /\ minted' = IF g > minted THEN g ELSE minted
        /\ Moves(loose, met \ {g}, g, q.seen)
        /\ vows' = (vows \ Broken(loose, q.seen))
                   \cup Vowed({{anchor, r} : r \in joined}, g)
        /\ Logs(joined \cup {anchor}, "user")
        /\ request' = [request EXCEPT ![p] = Idle]
        /\ UNCHANGED <<bank, runs, acts, told>>

-----------------------------------------------------------------------------
(* The rules pass, as far as transfers go: it reads every row, links a row   *)
(* it read loose to the one loose row that offsets it, and logs at its end.  *)

Distance(m, n) == IF m < n THEN n - m ELSE m - n

Counterparts(r) ==
    {t \in Held \ {r} : /\ group[t] = None
                        /\ home[t] # home[r]
                        /\ Amount[t] = 0 - Amount[r]
                        /\ Distance(Date[t], Date[r]) <= Window}

PassBegins ==
    /\ ~pass.on /\ Bound("job", MaxJobs)
    /\ pass' = [on |-> TRUE, loose |-> {r \in Held : group[r] = None}, noted |-> {}]
    /\ UNCHANGED <<bank, links, author, request, merge, sync, told>>

AutoLink(r) ==
    /\ pass.on /\ r \in pass.loose \cap Held
    /\ \E t \in Row : Counterparts(r) = {t} /\ LinkRead(Rules, r, t)
    /\ UNCHANGED <<bank, links, author, runs, acts, told>>

\* Ends well, or dies; dead, it has logged nothing.
PassEnds(logged) ==
    /\ pass.on /\ request[Rules].op = "idle"
    /\ Logs(logged, "rule")
    /\ pass' = [on |-> FALSE, loose |-> {}, noted |-> {}]
    /\ UNCHANGED <<bank, links, request, merge, sync, acts, told>>

-----------------------------------------------------------------------------
(* The merge.                                                                *)

RankFlat(source) == IF source = "akahu" THEN 0 ELSE 1         \* mutant
Rank(source) == CASE source = "user" -> 2 [] source = "rule" -> 1 [] OTHER -> 0

SuccessorFirst(o, n) == FALSE                               \* mutant
Outranks(o, n) == Rank(author[o]) > Rank(author[n])

\* What the successor takes from the row it replaces.
CarryOver(o, n) ==
    [old |-> o, next |-> n,
     category |-> IF Rank(owner[o]) > Rank(owner[n]) THEN owner[o] ELSE None,
     year |-> "year" \in extras[o] \ extras[n],
     by |-> author[o],
     was |-> <<group[o], group[n]>>, rival |-> author[n],    \* history
     link |-> IF /\ group[o] \notin {None, group[n]}
                 /\ group[n] = None \/ Outranks(o, n)
              THEN group[o] ELSE None]

Carries(p) == p.category # None \/ p.year \/ p.link # None

On(a) == {r \in Row : home[r] = a}

\* If two rows name one predecessor the later has it.
Latest(rows) == CHOOSE r \in rows : \A m \in rows : Date[m] <= Date[r]
Claimed(old, new) ==
    {p \in On(old) \X On(new) : /\ claim[p[2]] = p[1]
                               /\ p[2] = Latest({n \in On(new) : claim[n] = p[1]})}

\* By shape: each row in its turn, oldest first, takes the nearest still free.
\* The database orders the rows of one day as it likes, and so does `turn'.
Turns(olds) ==
    {turn \in Bijection(olds, 1..Cardinality(olds)) :
        \A x, y \in olds : Date[x] < Date[y] => turn[x] < turn[y]}
Fits(o, n) == Amount[n] = Amount[o] /\ Distance(Date[n], Date[o]) <= Near
Free(o, news, pairs, turn) ==
    {n \in news : Fits(o, n) /\ \A p \in pairs : p[2] = n => turn[o] <= turn[p[1]]}
Nearest(o, rows) ==
    {n \in rows : \A m \in rows : Distance(Date[n], Date[o]) <= Distance(Date[m], Date[o])}

ByShape(olds, news) ==
    {pairs \in SUBSET (olds \X news) : \E turn \in Turns(olds) : \A o \in olds :
        LET mine == {p \in pairs : p[1] = o}
            free == Free(o, news, pairs, turn)
        IN  IF free = {} THEN mine = {}
            ELSE \E n \in Nearest(o, free) : mine = {<<o, n>>}}

\* The pairs --auto offers.
Proposed ==
    {p \in Account \X Account :
        /\ Predecessor[p[2]] = p[1] /\ into[p[2]] = None
        /\ into[p[1]] = None \/ (into[p[1]] = p[2] /\ On(p[1]) # {})}

Plan(old, new, fallback) ==
    LET exact == Claimed(old, new)
        left == On(old) \ {p[1] : p \in exact}
        overlap == {r \in left : \E n \in On(new) : Date[n] <= Date[r]}
    IN  /\ merge.op = "idle" /\ Bound("merge", MaxMerges)
        /\ old # new /\ into[old] \in {None, new} /\ into[new] = None
        /\ \E guessed \in IF fallback = "heuristic"
                          THEN ByShape(overlap, {n \in On(new) : claim[n] = None}) ELSE {{}} :
              merge' = [op |-> "planned", old |-> old, new |-> new,
                        pairs |-> {CarryOver(p[1], p[2]) : p \in exact \cup guessed},
                        moves |-> IF fallback = "move" THEN left ELSE {}]
        /\ UNCHANGED <<bank, links, author, request, pass, sync, told>>

\* applySupersession reads what hangs off the doomed rows, then builds its batch.
Gather ==
    /\ merge.op = "planned"
    /\ merge' =
         [op |-> "gathered", old |-> merge.old, new |-> merge.new,
          pairs |-> merge.pairs, moves |-> merge.moves,
          labelled |-> {p \in merge.pairs : "label" \in extras[p.old]}]
    /\ UNCHANGED <<bank, links, author, request, pass, sync, acts, told>>

Successor(pairs, r) ==
    IF \E p \in pairs : p.old = r THEN (CHOOSE p \in pairs : p.old = r).next ELSE r

\* Whether the batch meets a row, a group or a day it did not expect.
RowsLost == \/ \E p \in merge.pairs : Carries(p) /\ p.next \notin Held
            \/ \E p \in merge.labelled : p.next \notin Held
Refused == RowsLost \/ \E p \in merge.pairs : p.link # None /\ p.link \notin groups

\* Who a successor's link is logged to: the carried entry, or whichever of the
\* two rows' entries is the later.
Authors(p) ==
    IF p.link # None THEN {p.by}
    ELSE IF author[p.old] = "akahu" THEN {author[p.next]}
    ELSE IF author[p.next] = "akahu" THEN {author[p.old]} ELSE {author[p.old], author[p.next]}

\* A person's link goes to the successor, unless a person linked that as well,
\* or either row was linked or unlinked after the plan was made.  The log is
\* not always right about who did (the pass logs one leg of a link, at its end):
\* the merge can only go by what it says.
Survives(v, p) ==
    /\ p.old \in v => /\ \A w \in vows : p.next \notin w
                      /\ p.was = <<group[p.old], group[p.next]>>
                      /\ p.by = "user" /\ p.rival # "user"
    /\ p.next \in v => p.link = None \/ p.rival = "user"

Commit ==
    LET pairs == merge.pairs
        gone == {p.old : p \in pairs}
        pairOf(r) == CHOOSE p \in pairs : p.next = r
        heirs == {p.next : p \in pairs}
        relinked == {p.next : p \in {q \in pairs : q.link # None}}
        grp == [r \in Row |-> IF r \in gone THEN None
                              ELSE IF r \in relinked THEN pairOf(r).link
                              ELSE group[r]]
    IN  /\ merge.op = "gathered" /\ ~Refused
        /\ home' = [r \in Row |-> IF r \in gone THEN None
                                  ELSE IF r \in merge.moves \cap Held THEN merge.new ELSE home[r]]
        /\ owner' = [r \in Row |->
              IF r \in gone THEN "akahu"
              ELSE IF r \in heirs /\ pairOf(r).category # None THEN pairOf(r).category
              ELSE owner[r]]
        /\ extras' = [r \in Row |->
              IF r \in gone THEN {}
              ELSE extras[r] \cup {x \in {"year", "label"} : \E p \in pairs :
                      p.next = r /\ IF x = "year" THEN p.year ELSE p \in merge.labelled}]
        /\ author' \in {f \in [Row -> Source] : \A r \in Row :
              f[r] \in IF r \in gone THEN {"akahu"}
                       ELSE IF r \in heirs THEN Authors(pairOf(r)) ELSE {author[r]}}
        /\ group' = grp
        /\ into' = [into EXCEPT ![merge.old] = merge.new]
        /\ torn' = torn \cup {g \in groups : \E r \in Held : group[r] = g /\ grp[r] # g}
        /\ vows' = {v \in {{Successor(pairs, r) : r \in w} : w \in {w \in vows :
                        \A p \in pairs : Survives(w, p)}} : Cardinality(v) = 2}
        /\ facts' = {f \in {<<Successor(pairs, f[1]), f[2]>> : f \in facts} : f[1] \in Held}
        /\ settled' = settled \cup {[old |-> p.old, next |-> p.next] :
                                        p \in {q \in pairs : into'[AkahuAccount[q.old]] # None}}
        /\ sync' = IF sync.on THEN [sync EXCEPT !.missed = @ \cup {merge.old}] ELSE sync
        /\ merge' = [op |-> "merged"]
        /\ UNCHANGED <<claim, groups, minted, request, pass, acts>>

\* Swept afterwards, over all groups there are, in two more statements.
Single == {g \in groups : Cardinality(Legs(g)) < 2}

FindSingles ==
    /\ merge.op = "merged"
    /\ merge' = [op |-> "pruning", single |-> Single]
    /\ UNCHANGED <<bank, links, author, request, pass, sync, acts, told>>

Prune ==
    /\ merge.op = "pruning"
    /\ groups' = groups \ merge.single
    /\ group' = [r \in Row |-> IF group[r] \in merge.single THEN None ELSE group[r]]
    /\ torn' = torn \ merge.single
    /\ vows' = {v \in vows : \A r \in v : group[r] \notin merge.single}
    /\ merge' = Idle
    /\ UNCHANGED <<minted, bank, author, request, pass, sync, acts, told>>

\* The command is dry, is interrupted, or its batch is refused.
MergeStops ==
    /\ merge.op # "idle"
    /\ merge' = Idle
    /\ UNCHANGED <<bank, links, author, request, pass, sync, acts, told>>

Undo(a) ==
    /\ into[a] # None /\ Bound("act", MaxActs)
    /\ into' = [into EXCEPT ![a] = None]
    /\ settled' = {s \in settled : AkahuAccount[s.old] # a}
    /\ UNCHANGED <<home, claim, owner, extras, links, author, request, runs, facts>>

-----------------------------------------------------------------------------
Sync ==
    \/ SyncBegins \/ SyncEnds
    \/ \E r \in Row : SyncRow(r)

People ==
    \E p \in Person :
        \/ \E pick \in Picks : PersonLinks(p, pick[1], pick[2])
        \/ \E s \in Row : UnlinkRead(p, s)
        \/ \E rows \in Batches : BulkRead(p, rows)
        \/ UnlinkWrite(p) \/ BulkWrite(p)

Editing ==
    \E r \in Edited :
        \/ SetCategory(r)
        \/ \E f \in {"year", "label"} : Annotate(r, f) \/ Erase(r, f)

RulesPass ==
    \/ PassBegins
    \/ \E r \in Edited : RuleSets(r)
    \/ \E r \in Row : AutoLink(r)
    \/ PassEnds(pass.noted) \/ PassEnds({})

Merge ==
    \/ \E p \in Proposed \cup Pairs, fallback \in {"keep", "heuristic", "move"} :
           Plan(p[1], p[2], fallback)
    \/ Gather \/ Commit \/ FindSingles \/ Prune \/ MergeStops
    \/ \E a \in Account : Undo(a)

Next ==
    \/ Sync \/ People \/ Editing \/ RulesPass \/ Merge
    \/ \E a \in Actor : LinkWrite(a) \/ LinkFails(a)

Spec == Init /\ [][Next]_vars

-----------------------------------------------------------------------------
(* Properties.                                                               *)

\* Rows have accounts, groups and owners of their kinds, and a row in a group
\* is in one that exists: the foreign key the unlinking and the sweep rely on.
TypeOK ==
    /\ home \in [Row -> Account \cup {None}]
    /\ group \in [Row -> groups \cup {None}]
    /\ groups \subseteq 1..minted /\ minted \in 0..MaxGroups
    /\ owner \in [Row -> Source] /\ claim \in [Row -> Row \cup {None}]
    /\ extras \in [Row -> SUBSET {"year", "label"}]
    /\ author \in [Row -> Source]
    /\ into \in [Account -> Account \cup {None}]
    /\ torn \subseteq groups

\* A transfer has two legs.  Only a write that trusted an older read, or a merge
\* that has not swept yet, leaves a group with one (transfers.ts:34,
\* transfer.ts:121, supersede.ts:690).
GroupsWhole == \A g \in groups \ torn : Cardinality(Legs(g)) >= 2

\* Two rows a person linked stay one transfer through rules passes, syncs, later
\* links and merges of their accounts, until a person unlinks one of them
\* (supersede.ts:224-259).
VowsKept == \A v \in vows : \E g \in groups : v \subseteq Legs(g)

\* Rows a merge has made one are never both held again: the sync leaves the old
\* account alone, whatever it was doing when the account was merged
\* (sync.ts:86, supersede.ts:630).  A row whose own account's marker was cleared
\* is fetched again, wherever it had been moved.
CountedOnce == \A s \in settled : home[s.old] = None \/ home[s.next] = None

\* What a person set on a row is there after any number of merges, on the row
\* that stands for it now (supersede.ts:187-222).
ChoicesSurvive ==
    \A f \in facts : IF f[2] = "category" THEN owner[f[1]] = "user"
                                          ELSE f[2] \in extras[f[1]]
=============================================================================
