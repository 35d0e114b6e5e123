-------------------------- MODULE RuleBook --------------------------
(* A household's standing rules and its tags: the one active rule document
   (lib/server/rules/document), the table of learned rules in it and the three
   ways of changing that table (rules/learning), the pages and the chat tools
   that do so, a worker's pass over the transactions (rules/engine), and the
   tags that a pass, the pages and the chat put on transactions.

   A document is read whole, changed and written back whole: what an editor
   holds in between is in `hand`.  What a pass does to a field somebody else
   is changing is module Enrichment's business, the groups transfers are linked
   into Ledger's, the queueing of passes RunQueue's.                         *)
EXTENDS Tokens, SequencesExt, TLC

CONSTANTS Docs, Txs, Labels, Payees,   \* ids the database may mint, in order
          Types,     \* the bank's transaction types
          transfer,  \* the one of them that says money was moved
          Legs,      \* per transaction, those that offset it in amount, account and date
          MaxSimilar,  \* similar transactions a page lists at most
          Catalog,   \* per category id, the name it goes by
          Names,     \* tag names
          Folded,    \* per tag name, that name in lower case
          Hands,     \* who acts: "page" somebody's browser, "chat" a tool call
          None, Gone

ASSUME BookIds ==
  /\ \A S \in {Docs, Txs, Labels, Payees} : IsFiniteSet(S) /\ S \subseteq Nat
  /\ None \notin Docs \cup Types \cup DOMAIN Catalog \cup Names \cup Payees
  /\ Gone \notin Names \cup {None} /\ {"page", "chat"} \subseteq Hands
  /\ Legs \in [Txs -> SUBSET Txs] /\ (\A t \in Txs : t \notin Legs[t]) /\ MaxSimilar \in Nat

VARIABLES
  docs,    \* each RuleDocument: [slug, active, stamp, rules, auto]
  txs,     \* each transaction: [type, words, category, owner, payee, powner, tags, linked]
  payees,  \* each Merchant: its name, or None
  labels,  \* each Label: its name, None, or Gone
  hand,    \* each hand between its reads and its writes
  ops,     \* bound: operations of each kind a hand may still start, passes, searches, failures
  minted,  \* row ids given out so far
  now,     \* ticks at each write of a document
  pass     \* the worker's pass

bookVars == <<docs, minted, now>>
tagVars == <<labels, txs>>
vars == <<docs, txs, payees, labels, hand, ops, minted, now, pass>>

Cats == DOMAIN Catalog
\* A record with some of its fields given.
With(fields, r) ==
  [f \in DOMAIN fields \cup DOMAIN r |-> IF f \in DOMAIN fields THEN fields[f] ELSE r[f]]
Free == [op |-> "free"]
Idle == [at |-> "idle"]
\* A document not made yet has no slug.
NoDocument == [slug |-> None, active |-> FALSE, stamp |-> 0, rules |-> << >>, auto |-> FALSE]
Kept == {d \in Docs : docs[d].slug # None}
Active == {d \in Kept : docs[d].active}
Living == {l \in Labels : labels[l] \notin {None, Gone}}
NextOf(S) == CHOOSE i \in S : \A j \in S : i <= j

--------------------------------------------------------------------------
(* Rows of the table: [id, type, words, shaped, whole, category, payee, label].
   A row that is not `shaped` holds a predicate somebody wrote by hand, here
   any of its words; one that is not `whole` lacks a cell for some column.   *)

\* deriveMatch, buildExpression: two predicates are the same text or not.
Match(type, words) == [type |-> type, words |-> words]
MatchOf(row) == Match(row.type, row.words)
Outputs(category, payee, label) == [category |-> category, payee |-> payee, label |-> label]
OutputsOf(row) == Outputs(row.category, row.payee, row.label)
Row(id, match, outputs) ==
  [id |-> id, shaped |-> TRUE, whole |-> TRUE, type |-> match.type, words |-> match.words,
   category |-> outputs.category, payee |-> outputs.payee, label |-> outputs.label]

\* The engine, over buildInput.
Captures(row, tx) ==
  /\ row.type # None => row.type = tx.type
  /\ IF row.shaped THEN ToSet(row.words) \subseteq tx.words
                   ELSE ToSet(row.words) \cap tx.words # {}

\* A row without a cell for every column is skipped outright; the first of the
\* others to match decides.
Nothing == Outputs(None, None, None)
Decision(rules, tx) ==
  LET i == SelectInSeq(rules, LAMBDA row : row.whole /\ Captures(row, tx))
  IN  IF i = 0 THEN Nothing ELSE OutputsOf(rules[i])

\* normalizeTable
Normalized(rules) == [i \in DOMAIN rules |-> [rules[i] EXCEPT !.whole = TRUE]]

\* matchesTransaction, over readLearnedRules: what the pages say of a row.
MatchesTransaction(row, tx) ==
  /\ row.shaped /\ (row.type # None \/ row.words # << >>)
  /\ row.type # None => row.type = tx.type
  /\ ToSet(row.words) \subseteq tx.words
\* get_transaction: the rows that claim it, the first of which decides.
MatchedByRules(rules, tx) == {i \in DOMAIN rules : MatchesTransaction(rules[i], tx)}
Listed(rules, tx) ==
  LET claims == MatchedByRules(rules, tx)
  IN  IF claims = {} THEN Nothing ELSE OutputsOf(rules[NextOf(claims)])

\* countMatching, preview: what a predicate reaches.
Reach(match) ==
  {t \in Txs : /\ match.type # None => txs[t].type = match.type
               /\ ToSet(match.words) \subseteq txs[t].words}

--------------------------------------------------------------------------
(* upsertLearnedRule, updateLearnedRule, deleteLearnedRule.                *)

\* Rows a lesson is compared with: same type, same outputs, generated.
SameOutputs(row, match, outputs) == row.shaped /\ OutputsOf(row) = outputs
SameKind(row, match, outputs) ==
  row.shaped /\ row.type = match.type /\ OutputsOf(row) = outputs
Narrower(row, match, outputs) ==
  SameKind(row, match, outputs) /\ ToSet(match.words) \subseteq ToSet(row.words)
Broader(row, match, outputs) ==
  SameKind(row, match, outputs) /\ ToSet(row.words) \subseteq ToSet(match.words)

\* A cell takes what the lesson says, and keeps what it had otherwise.
Filled(row, outputs) ==
  [c \in DOMAIN row |-> IF c \in DOMAIN outputs /\ outputs[c] # None THEN outputs[c] ELSE row[c]]

IsExact(rules, match) == \E i \in DOMAIN rules : MatchOf(rules[i]) = match /\ rules[i].shaped
IsNew(rules, match, outputs) ==
  /\ ~IsExact(rules, match)
  /\ \A i \in DOMAIN rules : ~Broader(rules[i], match, outputs)

AddedLast(rules, row) == Append(rules, row)
Added(rules, row) == <<row>> \o rules

Upserted(rules, id, match, outputs) ==
  CASE IsExact(rules, match) ->
         LET i == SelectInSeq(rules, LAMBDA row : MatchOf(row) = match /\ row.shaped)
         IN  [rules EXCEPT ![i] = Filled(@, outputs)]
    [] IsNew(rules, match, outputs) ->
         Added(Filter(rules, {i \in DOMAIN rules : ~Narrower(rules[i], match, outputs)}),
               Row(id, match, outputs))
    [] OTHER -> rules

\* validateEdit: at least a word, and a category or a payee.
ValidEdit(words, outputs) ==
  words # << >> /\ (outputs.category # None \/ outputs.payee # None)
\* A row rewritten in place; nothing at all when it is gone.
Rewritten(rules, id, match, outputs) ==
  IF \E i \in DOMAIN rules : rules[i].id = id
  THEN [i \in DOMAIN rules |->
          IF rules[i].id = id THEN Row(id, match, outputs) ELSE Normalized(rules)[i]]
  ELSE rules
Removed(rules, id) == Filter(rules, {i \in DOMAIN rules : rules[i].id # id})

\* What an editor's mutation makes of the document it holds.
Mutated(copy, e) ==
  CASE e.op = "teach"  -> [copy EXCEPT !.rules = Upserted(Normalized(@), minted + 1, e.match, e.outputs)]
    [] e.op = "edit"   -> [copy EXCEPT !.rules = Rewritten(@, e.row, e.match, e.outputs)]
    [] e.op = "remove" -> [copy EXCEPT !.rules = Removed(@, e.row)]
    [] e.op = "toggle" -> [copy EXCEPT !.auto = e.auto]

--------------------------------------------------------------------------
(* The document: readRuleGraph and editRuleGraph go through activeRuleDocument,
   which makes it on first use.                                             *)

\* The document a new household starts from: no table, transfers linked.
DefaultDocument(slug) ==
  [slug |-> slug, active |-> TRUE, stamp |-> now + 1, rules |-> << >>, auto |-> TRUE]

Edits(h) == "step" \in DOMAIN hand[h]
At(h, step) == Edits(h) /\ hand[h].step = step

\* A hand that writes a document leaves no other one alone with it.
Disturbed(h, e) ==
  [g \in Hands |-> IF g = h THEN e ELSE IF Edits(g) THEN [hand[g] EXCEPT !.alone = FALSE] ELSE hand[g]]
Goes(h, e) == hand' = [hand EXCEPT ![h] = e]

\* What follows once the document is found: a reader is done with it, a chat
\* about to remove a rule has seen whether it is there, and editors write.
Found(h, d) ==
  CASE hand[h].op = "list" -> Free
    [] hand[h].op = "look" ->
         IF \E i \in DOMAIN docs[d].rules : docs[d].rules[i].id = hand[h].row
         THEN [hand[h] EXCEPT !.op = "remove"] ELSE Free
    [] OTHER -> [hand[h] EXCEPT !.step = "write", !.doc = d, !.copy = docs[d]]

Open(h) ==
  /\ At(h, "open")
  /\ IF Active # {} THEN \E d \in Active : Goes(h, Found(h, d))
                    ELSE Goes(h, [hand[h] EXCEPT !.step = "name"])
  /\ UNCHANGED bookVars

\* uniqueSlug: the first of automations, automations-2, ... not in use.
Unused == {n \in Docs : \A d \in Kept : docs[d].slug # n}
Name(h) ==
  /\ At(h, "name") /\ Unused # {}
  /\ Goes(h, [hand[h] EXCEPT !.step = "create", !.slug = NextOf(Unused)])
  /\ UNCHANGED bookVars

\* A slug taken since then throws, and nothing is edited.
Create(h) ==
  /\ At(h, "create")
  /\ IF \E d \in Kept : docs[d].slug = hand[h].slug
     THEN Goes(h, Free) /\ UNCHANGED bookVars
     ELSE LET d == NextOf(Docs \ Kept)
          IN  /\ Docs \ Kept # {}
              /\ docs' = [docs EXCEPT ![d] = DefaultDocument(hand[h].slug)]
              /\ now' = now + 1 /\ UNCHANGED minted
              /\ hand' = Disturbed(h, [hand[h] EXCEPT !.step = "demote", !.doc = d])

LeftActive(d, doc, mine) == doc
Deactivated(d, doc, mine) ==
  IF d # mine /\ doc.active THEN [doc EXCEPT !.active = FALSE, !.stamp = now + 1] ELSE doc
Demote(h) ==
  /\ At(h, "demote")
  /\ docs' = [d \in Docs |-> Deactivated(d, docs[d], hand[h].doc)]
  /\ now' = now + 1 /\ UNCHANGED minted
  /\ hand' = Disturbed(h, CASE hand[h].op \in {"list", "look"} -> Free
                            [] OTHER -> [hand[h] EXCEPT !.step = "write",
                                           !.copy = DefaultDocument(hand[h].slug)])

\* The content goes back whole, over whatever is there by now.
Write(h) ==
  /\ At(h, "write")
  /\ LET new == Mutated(hand[h].copy, hand[h])
     IN  docs' = [docs EXCEPT ![hand[h].doc].rules = new.rules, ![hand[h].doc].auto = new.auto,
                              ![hand[h].doc].stamp = now + 1]
  /\ now' = now + 1
  /\ minted' = IF hand[h].op = "teach" THEN minted + 1 ELSE minted
  /\ hand' = Disturbed(h, Free)

EditBook(h) ==
  /\ (Open(h) \/ Name(h) \/ Create(h) \/ Demote(h) \/ Write(h))
  /\ UNCHANGED <<tagVars, payees, ops>>

--------------------------------------------------------------------------
(* Who edits the book.                                                     *)

Starts(h, kind, e) ==
  /\ hand[h] = Free /\ ops[kind][h] > 0
  /\ ops' = [ops EXCEPT ![kind][h] = @ - 1]
  /\ Goes(h, e)
Editing(op) ==
  [op |-> op, step |-> "open", alone |-> TRUE, slug |-> None, doc |-> None, copy |-> NoDocument]
Teaching(match, outputs) == With([match |-> match, outputs |-> outputs], Editing("teach"))
Reads == UNCHANGED <<bookVars, tagVars, payees>>

\* The page offers to learn from a row that has something to teach.
Teachable(t) == txs[t].category # None \/ txs[t].payee # None

\* generateRuleFromTransaction, and create_rule given fromTransaction: words
\* and outputs from the row, a category the chat names in place of the row's.
Learn(h) ==
  \E t \in Txs :
    LET words == DistinctiveTokens(txs[t].words)
    IN  /\ words # << >> /\ (h = "page" => Teachable(t))
        /\ \E c \in {txs[t].category} \cup (IF h = "chat" THEN Cats ELSE {}) :
             /\ c # None \/ txs[t].payee # None
             /\ Starts(h, "edit", Teaching(Match(txs[t].type, words), Outputs(c, txs[t].payee, None)))
  /\ Reads

\* create_rule given words and a type: words that key nothing are dropped.
Spelled == UNION {[1 .. n -> Words] : n \in 1 .. 2}
Usable(words) == Filter(words, {i \in DOMAIN words : words[i] \notin Volatile \cup Boilerplate})
CreateRule ==
  /\ \E words \in Spelled, type \in Types, c \in Cats :
       /\ Usable(words) # << >>
       /\ Starts("chat", "edit", Teaching(Match(type, Usable(words)), Outputs(c, None, None)))
  /\ Reads

\* The rows a page was rendered with; it may be stale by now.
Shown == UNION {ToSet(docs[d].rules) : d \in Active}

\* updateRule: the editor starts from the row, and is offered for a shaped
\* one only.  A word dropped, a type lifted, other outputs, a tag.
Edited(row) ==
  {<<Match(type, words), Outputs(c, row.payee, label)>> :
     type \in {row.type, None}, words \in {row.words, SubSeq(row.words, 2, Len(row.words))},
     c \in Cats \cup {None}, label \in Names \cup {row.label}}
UpdateRule ==
  /\ \E row \in Shown :
       /\ row.shaped
       /\ \E edit \in Edited(row) :
            /\ ValidEdit(edit[1].words, edit[2])
            /\ Starts("page", "edit", With([row |-> row.id, match |-> edit[1], outputs |-> edit[2]], Editing("edit")))
  /\ Reads

RemoveRule ==
  /\ \E row \in Shown : Starts("page", "edit", With([row |-> row.id], Editing("remove")))
  /\ Reads
ToggleTransfersAutoLink ==
  /\ \E d \in Active : Starts("page", "edit", With([auto |-> ~docs[d].auto], Editing("toggle")))
  /\ Reads

\* list_rules and get_transaction; delete_rule, which looks before it edits.
ListRules == Starts("chat", "edit", Editing("list")) /\ Reads
DeleteRule ==
  /\ \E id \in 1 .. minted : Starts("chat", "edit", With([row |-> id], Editing("look")))
  /\ Reads

--------------------------------------------------------------------------
(* What is written to transactions by hand: enrich-write, the page's similar
   transactions, and tags.                                                 *)

Does(h, op) == hand[h].op = op
Ends(h) == Goes(h, Free) /\ UNCHANGED ops
NoBook == UNCHANGED <<bookVars, payees>>

Categorises(ids, c) == [op |-> "categorise", ids |-> ids, value |-> c]
Pays(ids, p) == [op |-> "merchant", ids |-> ids, value |-> p]

\* findCategory, findMerchant, findLabel: an id, or a name that only one has.
Sole(S) == IF Cardinality(S) = 1 THEN S ELSE {}
FoundCategory(key) == IF key \in Cats THEN {key} ELSE Sole({c \in Cats : Catalog[c] = key})
FoundMerchant(key) ==
  IF key \in Payees THEN {p \in {key} : payees[p] # None} ELSE Sole({p \in Payees : payees[p] = key})
FoundLabels(name) == {l \in Living : Folded[labels[l]] = Folded[name]}

\* resolveTransactions, then what the handler changes: rows that differ now.
Differing(ids, field, value) == {t \in ids : txs[t][field] # value}

\* categorise_transactions and set_transaction_merchant, the reads.
CategoriseTransactions ==
  /\ \E ids \in SUBSET Txs \ {{}}, key \in Cats \cup {Catalog[c] : c \in Cats} :
     \E c \in FoundCategory(key) :
       Starts("chat", "enrich", Categorises(Differing(ids, "category", c), c))
  /\ Reads
SetTransactionsMerchant ==
  /\ \E ids \in SUBSET Txs \ {{}}, key \in Payees :
     \E p \in FoundMerchant(key) :
       Starts("chat", "enrich", Pays(Differing(ids, "payee", p), p))
  /\ Reads
\* A payee nobody has used is made at once, whatever is then done with it.
CreateMerchant ==
  /\ \E name \in Names, ids \in SUBSET Txs \ {{}} :
       LET p == NextOf({q \in Payees : payees[q] = None})
       IN  /\ \A q \in Payees : payees[q] # name
           /\ \E q \in Payees : payees[q] = None
           /\ payees' = [payees EXCEPT ![p] = name]
           /\ Starts("chat", "enrich", Pays(ids, p))
  /\ UNCHANGED <<bookVars, tagVars>>

\* getSimilarTransactions: candidates by the prefilter, scored afterwards; of those
\* that score enough, the first MaxSimilar, best first and the newer first of two
\* as good.  A score is a fraction.
Alike(t, u) == Overlaps(DescriptionTokens(txs[t].words), DescriptionTokens(txs[u].words))
SamePayee(t, u) == txs[t].payee # None /\ txs[u].payee = txs[t].payee
Candidates(t) ==
  {u \in Txs \ {t} : /\ txs[u].type = txs[t].type
                     /\ \/ SamePayee(t, u)
                        \/ PrefilterTokens(DescriptionTokens(txs[t].words)) \cap txs[u].words # {}}
Score(t, u) ==
  LET a == DescriptionTokens(txs[t].words)
      b == DescriptionTokens(txs[u].words)
  IN  IF SamePayee(t, u) THEN <<1, 1>> ELSE <<Cardinality(a \cap b), Cardinality(a \cup b)>>
Liker(t, u, v) ==
  LET s == Score(t, u)
      r == Score(t, v)
  IN  s[1] * r[2] > r[1] * s[2] \/ (s[1] * r[2] = r[1] * s[2] /\ u > v)
Scored(t) == {u \in Candidates(t) : SamePayee(t, u) \/ Alike(t, u)}
Similar(t) ==
  {u \in Scored(t) : Cardinality({v \in Scored(t) : Liker(t, v, u)}) < MaxSimilar}

\* Applying a row's category, or its payee, to those the page lists: all are
\* ticked until some are not, and with none ticked there is no applying.
Ticked(t) == SUBSET Similar(t) \ {{}}
ApplyToSimilar ==
  /\ \E t \in Txs : \E ids \in Ticked(t) :
       \/ /\ txs[t].category # None
          /\ Starts("page", "enrich", Categorises(ids, txs[t].category))
       \/ /\ txs[t].payee # None
          /\ Starts("page", "enrich", Pays(ids, txs[t].payee))
  /\ Reads

WriteCategory(h) ==
  /\ Does(h, "categorise")
  /\ txs' = [t \in Txs |-> IF t \in hand[h].ids
                           THEN [txs[t] EXCEPT !.category = hand[h].value, !.owner = "user"] ELSE txs[t]]
  /\ Ends(h) /\ NoBook /\ UNCHANGED labels
WriteMerchant(h) ==
  /\ Does(h, "merchant")
  /\ txs' = [t \in Txs |-> IF t \in hand[h].ids
                           THEN [txs[t] EXCEPT !.payee = hand[h].value, !.powner = "user"] ELSE txs[t]]
  /\ Ends(h) /\ NoBook /\ UNCHANGED labels

--------------------------------------------------------------------------
(* Tags.  (workspaceId, name) is unique as written; a tag's joins go with it. *)

Taken(name) == \E l \in Living : labels[l] = name
Room == \E l \in Labels : labels[l] = None
Minted == NextOf({l \in Labels : labels[l] = None})
Tagged(S, l) == [t \in Txs |-> IF t \in S THEN [txs[t] EXCEPT !.tags = @ \cup {l}] ELSE txs[t]]
Untagged(S, l) == [t \in Txs |-> IF t \in S THEN [txs[t] EXCEPT !.tags = @ \ {l}] ELSE txs[t]]
Asks(h, op) == Starts(h, "tag", op) /\ Reads

\* A tag joined to rows: a row that has it already fails the batch, and is
\* passed over by an upsert.
Joins(l, ids) == [op |-> "join", label |-> l, ids |-> {t \in ids : l \notin txs[t].tags}]
Upserts(l, ids) == [op |-> "upsert", label |-> l, ids |-> ids]
Mints(name, ids, then) == [op |-> "mint", name |-> name, ids |-> ids, then |-> then]

\* create_label, and add_label_to_transactions told to create; the reads.
CreateLabel ==
  \E name \in Names, ids \in SUBSET Txs :
    FoundLabels(name) = {} /\ Asks("chat", Mints(name, ids, "join"))
\* The pages know a name as written; theirs is made, or found, first.
CreateLabelAndAdd(ids, then) ==
  \E name \in Names :
    IF Taken(name)
    THEN Asks("page", [op |-> then, label |-> CHOOSE l \in Living : labels[l] = name, ids |-> ids])
    ELSE Asks("page", Mints(name, ids, then))
\* The insert throws when the name was taken meanwhile.
InsertLabel(h) ==
  /\ Does(h, "mint")
  /\ IF Taken(hand[h].name) THEN Ends(h) /\ UNCHANGED labels
     ELSE /\ Room /\ labels' = [labels EXCEPT ![Minted] = hand[h].name] /\ UNCHANGED ops
          /\ Goes(h, [op |-> hand[h].then, label |-> Minted, ids |-> hand[h].ids])
  /\ NoBook /\ UNCHANGED txs

\* rename_label, when no other tag goes by that name.
RenameLabel ==
  \E l \in Living, name \in Names :
    /\ FoundLabels(name) \subseteq {l}
    /\ Asks("chat", [op |-> "rename", label |-> l, name |-> name])
WriteRename ==
  /\ Does("chat", "rename")
  /\ LET l == hand["chat"].label
     IN  labels' = IF l \in Living /\ ~Taken(hand["chat"].name)
                   THEN [labels EXCEPT ![l] = hand["chat"].name] ELSE labels
  /\ Ends("chat") /\ NoBook /\ UNCHANGED txs

\* delete_label: at once, with every join.
DeleteLabel ==
  /\ \E l \in Living :
       labels' = [labels EXCEPT ![l] = Gone] /\ txs' = Untagged(Txs, l)
  /\ Starts("chat", "tag", Free) /\ NoBook

\* A tag gone since throws.
WriteTag(h) ==
  /\ Does(h, "join") \/ Does(h, "upsert")
  /\ LET l == hand[h].label
     IN  txs' = IF l \in Living /\ (Does(h, "join") => \A t \in hand[h].ids : l \notin txs[t].tags)
                THEN Tagged(hand[h].ids, l) ELSE txs
  /\ Ends(h) /\ NoBook /\ UNCHANGED labels

\* remove_label_from_transactions, removeTransactionLabel: at once.
RemoveLabel(h, ids, from) ==
  /\ \E l \in from : txs' = Untagged(ids, l)
  /\ Starts(h, "tag", Free) /\ NoBook /\ UNCHANGED labels

\* add_label_to_transactions and remove_label_from_transactions.
ChatTags ==
  \E ids \in SUBSET Txs \ {{}} :
    (\E l \in Living : Asks("chat", Joins(l, ids))) \/ RemoveLabel("chat", ids, Living)

\* The tags beside a row: each can be taken off, and the picker offers those the
\* row does not carry, or makes one.
LabelsCell ==
  \E t \in Txs :
    \/ \E l \in Living \ txs[t].tags : Asks("page", Upserts(l, {t}))
    \/ CreateLabelAndAdd({t}, "upsert")
    \/ RemoveLabel("page", {t}, txs[t].tags)

\* The bar over the rows ticked in a listing: a tag put on all of them, made if
\* need be, or taken off; one category, or payee, or none of it (applyEnrichment,
\* like every setter above).
BulkTags(ids) ==
  \/ \E l \in Living : Asks("page", Joins(l, ids))
  \/ CreateLabelAndAdd(ids, "join")
  \/ RemoveLabel("page", ids, Living)
BulkEnriches(ids) ==
  /\ \/ \E c \in Cats \cup {None} : Starts("page", "enrich", Categorises(ids, c))
     \/ \E p \in {q \in Payees : payees[q] # None} \cup {None} : Starts("page", "enrich", Pays(ids, p))
  /\ Reads
BulkBar == \E ids \in SUBSET Txs \ {{}} : BulkTags(ids) \/ BulkEnriches(ids)

--------------------------------------------------------------------------
(* runRules: a pass over every transaction, by the worker.                 *)

\* The active document written last, healed in memory.
Latest(d) == \A e \in Active : docs[e].stamp <= docs[d].stamp
Unhealed(rules) == rules
Healed(rules) == Normalized(rules)

StartPass ==
  /\ pass = Idle /\ ops.pass > 0
  /\ ops' = [ops EXCEPT !.pass = @ - 1]
  /\ pass' \in IF Active = {} THEN {Idle}
               ELSE {[at |-> "read", rules |-> Healed(docs[d].rules), auto |-> docs[d].auto, alone |-> TRUE] :
                       d \in {e \in Active : Latest(e)}}
  /\ UNCHANGED <<tagVars, payees>>

ReadTransactions ==
  /\ pass.at = "read"
  /\ pass' = With([at |-> "apply", snap |-> txs, todo |-> Txs, wanted |-> {},
                   linked |-> {}, failed |-> {}, missed |-> {}], pass)
  /\ UNCHANGED <<tagVars, payees, ops>>

\* applyOutput: a value that differs goes to a field nobody owns by hand; an
\* id that names nothing is passed over.
Sets(value, known, owner, current) ==
  value # None /\ known /\ owner # "user" /\ value # current
SetsCategory(out, tx) == Sets(out.category, out.category \in Cats, tx.owner, tx.category)
SetsPayee(out, tx) ==
  Sets(out.payee, out.payee \in Payees /\ payees[out.payee] # None, tx.powner, tx.payee)
Applied(tx, c, p, out) ==
  [tx EXCEPT !.category = IF c THEN out.category ELSE @, !.owner = IF c THEN "rule" ELSE @,
             !.payee = IF p THEN out.payee ELSE @, !.powner = IF p THEN "rule" ELSE @]

\* findAutoTransferLeg, linkTransferLegs: a transfer read as linked to nothing is
\* linked to its other leg, when just one unlinked row could be that.
Leg(t) ==
  IF pass.auto /\ pass.snap[t].type = transfer /\ ~pass.snap[t].linked
  THEN Sole({u \in Legs[t] : ~txs[u].linked}) ELSE {}
Linking(rows, t, leg) ==
  [u \in Txs |-> IF leg # {} /\ u \in leg \cup {t} THEN [rows[u] EXCEPT !.linked = TRUE] ELSE rows[u]]

Fails == ops.fail > 0 /\ ops' = [ops EXCEPT !.fail = @ - 1]

\* One transaction, newest first, by what was read of it: its columns, then its
\* transfer, and the rule's tag is wanted if either came to anything.
Turn == CHOOSE t \in pass.todo : \A u \in pass.todo : u <= t
Applies(t, out, c, p, leg) ==
  /\ txs' = Linking([txs EXCEPT ![t] = Applied(@, c, p, out)], t, leg) /\ UNCHANGED ops
  /\ pass' = [pass EXCEPT !.todo = @ \ {t}, !.linked = IF leg = {} THEN @ ELSE @ \cup {t},
                !.wanted = IF (c \/ p \/ leg # {}) /\ out.label # None
                           THEN @ \cup {<<out.label, t>>} ELSE @]
\* A statement that throws is counted and the row stepped over, with whatever was
\* written before it.
StepsOver(t, out, c, p, leg) ==
  /\ Fails
  /\ \E wrote, joined \in BOOLEAN :
       /\ joined => wrote
       /\ txs' = Linking(IF wrote THEN [txs EXCEPT ![t] = Applied(@, c, p, out)] ELSE txs,
                         t, IF joined THEN leg ELSE {})
  /\ pass' = [pass EXCEPT !.todo = @ \ {t}, !.failed = @ \cup {t}]
Apply ==
  /\ pass.at = "apply" /\ pass.todo # {}
  /\ \E t \in {Turn} : \E out \in {Decision(pass.rules, pass.snap[t])} :
     \E c \in {SetsCategory(out, pass.snap[t])}, p \in {SetsPayee(out, pass.snap[t])} :
     \E leg \in {Leg(t)} : Applies(t, out, c, p, leg) \/ StepsOver(t, out, c, p, leg)
  /\ UNCHANGED <<payees, labels>>

\* tagTransactions, one name at a time: the tag is found or made, then put on
\* those read as lacking it.
EnsureLabel ==
  /\ pass.at = "apply" /\ pass.todo = {} /\ pass.wanted # {}
  /\ \E name \in {w[1] : w \in pass.wanted} :
       /\ Taken(name) \/ Room
       /\ labels' = IF Taken(name) THEN labels ELSE [labels EXCEPT ![Minted] = name]
       /\ pass' = With([at |-> "label", name |-> name, label |-> CHOOSE l \in Labels : labels'[l] = name], pass)
  /\ UNCHANGED <<txs, payees, ops>>
ReadJoins ==
  /\ pass.at = "label"
  /\ LET ids == {t \in Txs : <<pass.name, t>> \in pass.wanted}
     IN  pass' = With([at |-> "tag", ids |-> {t \in ids : pass.label \notin txs[t].tags}], pass)
  /\ UNCHANGED <<tagVars, payees, ops>>
Joinable == pass.label \in Living /\ \A t \in pass.ids : pass.label \notin txs[t].tags
TagTransactions ==
  /\ pass.at = "tag" /\ Joinable
  /\ txs' = Tagged(pass.ids, pass.label)
  /\ pass' = [pass EXCEPT !.at = "apply", !.wanted = {w \in @ : w[1] # pass.name}]
  /\ UNCHANGED <<labels, payees, ops>>
\* A tag deleted, or a join made, in between fails the whole insert, as any
\* statement may fail, which is warned about and left.
TagFails ==
  /\ pass.at \in {"apply", "label", "tag"} /\ pass.todo = {}
  /\ Fails \/ (pass.at = "tag" /\ ~Joinable /\ UNCHANGED ops)
  /\ \E name \in IF pass.at = "apply" THEN {w[1] : w \in pass.wanted} ELSE {pass.name} :
       pass' = [pass EXCEPT !.at = "apply", !.wanted = {w \in @ : w[1] # name}, !.missed = @ \cup {name}]
  /\ UNCHANGED <<tagVars, payees>>

\* finalizeSuccess; a pass may also end anywhere short of it, its worker dead or a
\* statement outside a row failed.
FinishPass ==
  /\ pass.at = "apply" /\ pass.todo = {} /\ pass.wanted = {}
  /\ pass' = [pass EXCEPT !.at = "done"]
  /\ UNCHANGED <<tagVars, payees, ops>>
NextPass ==
  /\ pass # Idle /\ pass' = Idle
  /\ Fails \/ (pass.at = "done" /\ UNCHANGED ops)
  /\ UNCHANGED <<tagVars, payees>>

--------------------------------------------------------------------------
\* What the tables may hold when the watching starts: whatever was taught before,
\* on rows tagged with tags there are.
Owners == {"akahu", "rule", "user"}
Rules ==
  {row \in [id : Nat, type : Types \cup {None}, words : Seq(Words), shaped : BOOLEAN, whole : BOOLEAN,
            category : Cats \cup {None}, payee : Payees \cup {None}, label : Names \cup {None}] :
     row.shaped => row.type # None \/ row.words # << >>}
Documents ==
  [slug : Docs \cup {None}, active : BOOLEAN, stamp : Nat, rules : Seq(Rules), auto : BOOLEAN]
Transactions ==
  [type : Types, words : SUBSET Words, category : Cats \cup {None}, owner : Owners,
   payee : Payees \cup {None}, powner : Owners, tags : SUBSET Labels, linked : BOOLEAN]
Household ==
  /\ docs \in [Docs -> Documents] /\ minted \in Nat
  /\ \A d \in Docs : docs[d].stamp <= now
  /\ \A d, e \in Active : d = e
  /\ txs \in [Txs -> Transactions]
  /\ payees \in [Payees -> Names \cup {None}]
  /\ labels \in [Labels -> Names \cup {None, Gone}]
  /\ \A t \in Txs : txs[t].tags \subseteq Living

Init ==
  /\ now = 0 /\ Household
  /\ hand = [h \in Hands |-> Free] /\ pass = Idle

Editor ==
  \/ CreateRule \/ UpdateRule \/ RemoveRule \/ ToggleTransfersAutoLink \/ ListRules \/ DeleteRule
  \/ \E h \in Hands : Learn(h) \/ EditBook(h)
Enricher ==
  \/ CategoriseTransactions \/ SetTransactionsMerchant \/ CreateMerchant \/ ApplyToSimilar
  \/ \E h \in Hands : WriteCategory(h) \/ WriteMerchant(h)
Tagger ==
  \/ CreateLabel \/ RenameLabel \/ WriteRename \/ DeleteLabel \/ ChatTags \/ LabelsCell
  \/ BulkBar \/ \E h \in Hands : InsertLabel(h) \/ WriteTag(h)
Worker ==
  \/ StartPass \/ ReadTransactions \/ Apply \/ EnsureLabel \/ ReadJoins
  \/ TagTransactions \/ TagFails \/ FinishPass \/ NextPass

\* Whatever anybody does while a pass runs, the pass is no longer alone.
Next ==
  \/ (Editor \/ Enricher \/ Tagger)
       /\ pass' = IF pass = Idle THEN pass ELSE [pass EXCEPT !.alone = FALSE]
  \/ Worker /\ UNCHANGED <<bookVars, hand>>
Spec == Init /\ [][Next]_vars

--------------------------------------------------------------------------
(* What is checked.                                                        *)

\* Once nobody is between making a document and demoting the others, at most
\* one is active, however many hands met the household's first use together:
\* "Only one document is ever active" (document.ts:38-42).
OneActive ==
  \A d, e \in Active : d # e => \E h \in Hands : At(h, "demote") /\ hand[h].doc \in {d, e}

\* What the page decides of a row, unless the first to take it was written by hand.
TagNames(tx) == {labels[l] : l \in tx.tags}
Unclear(rules, tx) ==
  \E i \in DOMAIN rules : /\ ~rules[i].shaped /\ Captures(rules[i], tx)
                          /\ \A j \in 1 .. i : ~MatchesTransaction(rules[j], tx)
AsDecided(t, out) ==
  LET was == pass.snap[t]
      is == txs[t]
      c == SetsCategory(out, was)
      p == SetsPayee(out, was)
      tag == IF c \/ p \/ t \in pass.linked THEN {out.label} \ ({None} \cup pass.missed) ELSE {}
  IN  /\ is.category = IF c THEN out.category ELSE was.category
      /\ is.payee = IF p THEN out.payee ELSE was.payee
      /\ TagNames(is) = TagNames(was) \cup tag

\* A pass that nobody disturbed leaves every transaction as the rules page says
\* its rules decide, read top to bottom (page.tsx:129), in fields nobody owns,
\* and the tag of the rule on exactly those it changed, a transfer it linked among
\* them; it links none while the document says not to, and never one that somebody
\* had linked.  Where a hand-written row comes first the page does not say what it
\* takes; a row whose turn failed is only never tagged, and a tag that could not be
\* written is on nothing.
AsListed ==
  pass.at = "done" =>
    \A d \in Active : pass.alone /\ Cardinality(Active) = 1 =>
      /\ \A t \in Txs \ pass.failed :
           \/ Unclear(docs[d].rules, pass.snap[t])
           \/ AsDecided(t, Listed(docs[d].rules, pass.snap[t]))
      /\ \A t \in pass.failed : TagNames(txs[t]) = TagNames(pass.snap[t])
      /\ \A t \in pass.linked : docs[d].auto /\ ~pass.snap[t].linked /\ txs[t].linked
      /\ ~docs[d].auto => \A t \in Txs : txs[t].linked = pass.snap[t].linked

\* Every transaction there could be; a lesson being written as a new row.
Worlds == [type : Types, words : SUBSET Words]
Teaches(h) == At(h, "write") /\ hand[h].op = "teach" /\ hand'[h] = Free
Fresh(h) == IsNew(hand[h].copy.rules, hand[h].match, hand[h].outputs)

\* A lesson that replaces the narrower rows it subsumes changes what is decided
\* of no transaction there could be: the book decides as if it had kept them.
NothingLost ==
  [][\A h \in Hands : Teaches(h) /\ Fresh(h) =>
       \A rules \in {docs'[hand[h].doc].rules}, old \in {Normalized(hand[h].copy.rules)} :
       \A row \in {Row(minted', hand[h].match, hand[h].outputs)} :
       \A tx \in Worlds : Decision(rules, tx) = Decision(<<row>> \o old, tx)]_vars

\* A lesson answered as a new rule, by a hand alone with the book, decides every
\* transaction its words reach in the book the worker reads next.
Taught ==
  [][\A h \in Hands : Teaches(h) /\ Fresh(h) /\ hand[h].alone =>
       \A d \in Active' : \A t \in Reach(hand[h].match) :
         (\A e \in Active' : docs'[e].stamp <= docs'[d].stamp)
           => Decision(Healed(docs'[d].rules), txs[t]) = hand[h].outputs]_vars

\* What the prefilter leaves out would not have scored enough (tokens.ts:46-71),
\* whatever the page then keeps of what did.
NothingMissed ==
  \A t \in Txs, u \in Txs :
    (u # t /\ txs[u].type = txs[t].type /\ (SamePayee(t, u) \/ Alike(t, u)))
      => u \in Candidates(t)

=============================================================================
