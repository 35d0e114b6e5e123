---------------------------- MODULE LedgerProofs ----------------------------
(* That rows a merge has made one are not both held again, that transfers keep
   two legs, and that a merge keeps what people set and linked (Ledger).     *)
EXTENDS Ledger, FiniteSetTheorems, WellFoundedInduction, TLAPS

Underway == merge.op \in {"planned", "gathered"}

TypeOfHome == home \in [Row -> Account \cup {None}]
TypeOfInto == into \in [Account -> Account \cup {None}]
TypeOfSync == sync \in [on : BOOLEAN, skip : SUBSET Account, missed : SUBSET Account]
TypeOfMerge ==
    Underway => /\ merge.old \in Account /\ merge.new \in Account
                /\ \A p \in merge.pairs : p.old \in Row

\* Akahu goes on listing the row that is gone, under an account that is merged.
Gone ==
    \A s \in settled : s.old \in Row /\ home[s.old] = None /\ into[AkahuAccount[s.old]] # None
\* A running sync leaves a merged account alone, or was overtaken by its merge.
Avoids == sync.on => \A a \in Account : into[a] # None => a \in sync.skip \cup sync.missed

CountInv == TypeOfHome /\ TypeOfInto /\ TypeOfSync /\ TypeOfMerge /\ Gone /\ Avoids

-----------------------------------------------------------------------------
LEMMA CountHolds == Init => CountInv
BY AccountAssumption DEF Init, CountInv, Underway, Idle, TypeOfHome, TypeOfInto, TypeOfSync,
    TypeOfMerge, Gone, Avoids

\* What touches neither accounts nor the sync nor the merge keeps the invariant.
LEMMA Elsewhere ==
    ASSUME CountInv, UNCHANGED <<home, into, settled, sync, merge>>
    PROVE  CountInv'
BY DEF CountInv, Underway, TypeOfHome, TypeOfInto, TypeOfSync, TypeOfMerge, Gone, Avoids

\* Nor does a merge that is dropped, or is past its commit.
LEMMA MergeMovesOn ==
    ASSUME CountInv, UNCHANGED <<home, into, settled, sync>>, TypeOfMerge'
    PROVE  CountInv'
BY DEF CountInv, TypeOfHome, TypeOfInto, TypeOfSync, Gone, Avoids

LEMMA SyncBeginsCounts == ASSUME CountInv, SyncBegins PROVE CountInv'
<1> USE DEF SyncBegins, CountInv, bank, links, told
<1>1. Skipped \in SUBSET Account BY DEF Skipped
<1>2. sync' = [on |-> TRUE, skip |-> Skipped, missed |-> {}] OBVIOUS
<1>3. TypeOfSync' BY <1>1, <1>2 DEF TypeOfSync
<1>4. Avoids' BY <1>2 DEF Avoids, Skipped
<1> QED BY <1>3, <1>4 DEF Underway, TypeOfHome, TypeOfInto, TypeOfMerge, Gone

LEMMA SyncEndsCounts == ASSUME CountInv, SyncEnds PROVE CountInv'
<1> USE DEF SyncEnds, CountInv, bank, links, told
<1>1. TypeOfSync' /\ Avoids' BY DEF TypeOfSync, Avoids
<1> QED BY <1>1 DEF Underway, TypeOfHome, TypeOfInto, TypeOfMerge, Gone

\* The row of a merged account comes back only from a sync its merge overtook.
LEMMA SyncRowCounts == ASSUME CountInv, NEW r \in Row, SyncRow(r) PROVE CountInv'
<1> USE AccountAssumption DEF SyncRow, CountInv, links, runs, told
<1>1. AkahuAccount[r] \in Account OBVIOUS
<1>2. TypeOfHome' BY <1>1 DEF TypeOfHome
<1>3. ASSUME NEW s \in settled' PROVE s \in settled /\ s.old # r
  <2>1. s \in settled OBVIOUS
  <2>2. CASE AkahuAccount[r] \in sync.missed BY <1>3, <2>2
  <2>3. CASE AkahuAccount[r] \notin sync.missed
    <3>1. into[AkahuAccount[r]] = None BY <1>1, <2>3 DEF Avoids
    <3> QED BY <2>1, <3>1 DEF Gone
  <2> QED BY <2>1, <2>2, <2>3
<1>4. Gone' BY <1>3 DEF Gone, TypeOfHome
<1> QED BY <1>2, <1>4 DEF Underway, TypeOfInto, TypeOfSync, TypeOfMerge, Avoids

\* No row stands for two.
NoneTwice(pairs) == \A p, q \in pairs : p[2] = q[2] => p = q

\* Paired by shape, a row is taken once: of two rows that had taken it, neither
\* may come after the other.
LEMMA ShapesOnce ==
    ASSUME NEW olds \in SUBSET Row, NEW news, NEW pairs \in ByShape(olds, news)
    PROVE  pairs \subseteq olds \X news /\ NoneTwice(pairs)
<1>1. pairs \subseteq olds \X news BY DEF ByShape
<1>2. PICK turn \in Turns(olds) : \A o \in olds :
          LET mine == {p \in pairs : p[1] = o}
              free == Free(o, news, pairs, turn)
          IN  IF free = {} THEN mine = {}
              ELSE \E n \in Nearest(o, free) : mine = {<<o, n>>}
  BY DEF ByShape
<1>3. Cardinality(olds) \in Nat BY RowAssumption, FS_Subset, FS_CardinalityType
<1>4. turn \in [olds -> 1..Cardinality(olds)] /\ \A x, y \in olds : turn[x] = turn[y] => x = y
  BY DEF Turns, Bijection, Injection, IsInjective
<1>5. ASSUME NEW p \in pairs PROVE p[1] \in olds /\ p[2] \in Free(p[1], news, pairs, turn)
  <2>1. p[1] \in olds /\ p = <<p[1], p[2]>> BY <1>1
  <2>2. PICK n \in Nearest(p[1], Free(p[1], news, pairs, turn)) :
            {q \in pairs : q[1] = p[1]} = {<<p[1], n>>}
    BY <1>2, <2>1
  <2>3. p = <<p[1], n>> BY <2>2
  <2> QED BY <2>1, <2>2, <2>3 DEF Nearest
<1>6. ASSUME NEW p \in pairs, NEW q \in pairs, p[2] = q[2] PROVE p = q
  <2>1. turn[p[1]] <= turn[q[1]] /\ turn[q[1]] <= turn[p[1]] BY <1>5, <1>6 DEF Free
  <2>2. turn[p[1]] \in Int /\ turn[q[1]] \in Int BY <1>3, <1>4, <1>5
  <2>3. p[1] = q[1] BY <1>4, <1>5, <2>1, <2>2
  <2> QED BY <1>1, <1>6, <2>3
<1> QED BY <1>1, <1>6 DEF NoneTwice

\* A plan pairs rows of the one account with rows of the other.
LEMMA PlanPairs ==
    ASSUME NEW old \in Account, NEW new \in Account, NEW fallback, Plan(old, new, fallback)
    PROVE  /\ old # new
           /\ \E ps, moves :
                 /\ ps \subseteq On(old) \X On(new) /\ NoneTwice(ps)
                 /\ merge' = [op |-> "planned", old |-> old, new |-> new,
                              pairs |-> {CarryOver(p[1], p[2]) : p \in ps}, moves |-> moves]
<1> DEFINE exact == Claimed(old, new)
           left == On(old) \ {p[1] : p \in exact}
           overlap == {r \in left : \E n \in On(new) : Date[n] <= Date[r]}
           free == {n \in On(new) : claim[n] = None}
           moved == IF fallback = "move" THEN left ELSE {}
<1>1. old # new BY DEF Plan
<1>2. PICK guessed \in IF fallback = "heuristic" THEN ByShape(overlap, free) ELSE {{}} :
          merge' = [op |-> "planned", old |-> old, new |-> new,
                    pairs |-> {CarryOver(p[1], p[2]) : p \in exact \cup guessed},
                    moves |-> moved]
  BY DEF Plan
<1>3. exact \subseteq On(old) \X On(new) /\ \A p \in exact : claim[p[2]] = p[1]
  BY DEF Claimed
<1>4. overlap \in SUBSET Row /\ overlap \subseteq On(old) /\ free \subseteq On(new) BY DEF On
<1>5. guessed \subseteq overlap \X free /\ NoneTwice(guessed)
  <2> HIDE DEF overlap, free
  <2>1. CASE guessed = {} BY <2>1 DEF NoneTwice
  <2>2. CASE guessed \in ByShape(overlap, free) BY <1>4, <2>2, ShapesOnce
  <2> QED BY <1>2, <2>1, <2>2
<1>6. \A p \in guessed : claim[p[2]] = None BY <1>5
<1> DEFINE ps == exact \cup guessed
<1> HIDE DEF exact, overlap, free, moved
<1>7. ps \subseteq On(old) \X On(new) BY <1>3, <1>4, <1>5
<1>8. ASSUME NEW p \in ps, NEW q \in ps, p[2] = q[2] PROVE p = q
  <2>1. p[1] \in Row /\ q[1] \in Row /\ p = <<p[1], p[2]>> /\ q = <<q[1], q[2]>>
    BY <1>7 DEF On
  <2>2. CASE p \in exact /\ q \in exact BY <1>3, <1>8, <2>1, <2>2
  <2>3. CASE p \in guessed /\ q \in guessed BY <1>5, <1>8, <2>3 DEF NoneTwice
  <2>4. CASE p \in exact /\ q \in guessed BY RowAssumption, <1>3, <1>6, <1>8, <2>1, <2>4
  <2>5. CASE p \in guessed /\ q \in exact BY RowAssumption, <1>3, <1>6, <1>8, <2>1, <2>5
  <2> QED BY <2>2, <2>3, <2>4, <2>5
<1>9. NoneTwice(ps) BY <1>8 DEF NoneTwice
<1> HIDE DEF ps
<1>10. merge' = [op |-> "planned", old |-> old, new |-> new,
                 pairs |-> {CarryOver(p[1], p[2]) : p \in ps}, moves |-> moved]
  BY <1>2 DEF ps
<1> QED BY <1>1, <1>7, <1>9, <1>10

LEMMA PlanCounts ==
    ASSUME CountInv, NEW old \in Account, NEW new \in Account,
           NEW fallback \in {"keep", "heuristic", "move"}, Plan(old, new, fallback)
    PROVE  CountInv'
<1>1. PICK ps, moves :
        /\ ps \subseteq On(old) \X On(new)
        /\ merge' = [op |-> "planned", old |-> old, new |-> new,
                     pairs |-> {CarryOver(p[1], p[2]) : p \in ps}, moves |-> moves]
  BY PlanPairs
<1>2. \A p \in merge'.pairs : p.old \in Row BY <1>1 DEF CarryOver, On
<1>3. TypeOfMerge' BY <1>1, <1>2 DEF TypeOfMerge, Underway
<1>4. UNCHANGED <<home, into, settled, sync>> BY DEF Plan, bank, links, told
<1> QED BY <1>3, <1>4, MergeMovesOn

LEMMA GatherCounts == ASSUME CountInv, Gather PROVE CountInv'
<1>1. TypeOfMerge' BY DEF Gather, CountInv, TypeOfMerge, Underway
<1>2. UNCHANGED <<home, into, settled, sync>> BY DEF Gather, bank, links, told
<1> QED BY <1>1, <1>2, MergeMovesOn

\* The merge takes the older rows away, brings none back, and marks the account
\* a running sync may not know of.
LEMMA CommitCounts == ASSUME CountInv, Commit PROVE CountInv'
<1> DEFINE gone == {p.old : p \in merge.pairs}
<1>1. /\ merge.old \in Account /\ merge.new \in Account /\ \A p \in merge.pairs : p.old \in Row
  BY DEF CountInv, TypeOfMerge, Underway, Commit
<1>2. /\ home' = [r \in Row |-> IF r \in gone THEN None
                                ELSE IF r \in merge.moves \cap Held THEN merge.new ELSE home[r]]
      /\ into' = [into EXCEPT ![merge.old] = merge.new]
      /\ settled' = settled \cup {[old |-> p.old, next |-> p.next] :
                        p \in {q \in merge.pairs : into'[AkahuAccount[q.old]] # None}}
      /\ sync' = IF sync.on THEN [sync EXCEPT !.missed = @ \cup {merge.old}] ELSE sync
      /\ merge' = [op |-> "merged"]
  BY DEF Commit
<1> HIDE DEF gone
<1>3. TypeOfHome' BY <1>1, <1>2 DEF CountInv, TypeOfHome
<1>4. TypeOfInto' BY <1>1, <1>2 DEF CountInv, TypeOfInto
<1>5. TypeOfSync' BY <1>1, <1>2 DEF CountInv, TypeOfSync
<1>6. TypeOfMerge' BY <1>2 DEF TypeOfMerge, Underway
<1>7. \A a \in Account : into'[a] # None => into[a] # None \/ a = merge.old
  BY <1>2 DEF CountInv, TypeOfInto
<1>8. \A a \in Account : into[a] # None => into'[a] # None
  BY <1>1, <1>2, AccountAssumption DEF CountInv, TypeOfInto
<1>9. \A r \in Row : home[r] = None \/ r \in gone => home'[r] = None
  BY <1>2 DEF Held
<1>10. ASSUME NEW s \in settled'
       PROVE  s.old \in Row /\ home'[s.old] = None /\ into'[AkahuAccount[s.old]] # None
  <2>1. CASE s \in settled
    <3>1. s.old \in Row /\ home[s.old] = None /\ into[AkahuAccount[s.old]] # None
      BY <2>1 DEF CountInv, Gone
    <3>2. AkahuAccount[s.old] \in Account BY <3>1, AccountAssumption
    <3> QED BY <1>8, <1>9, <3>1, <3>2
  <2>2. CASE s \notin settled
    <3>1. PICK p \in merge.pairs : /\ s = [old |-> p.old, next |-> p.next]
                                   /\ into'[AkahuAccount[p.old]] # None
      BY <1>2, <2>2
    <3>2. s.old = p.old /\ p.old \in gone BY <3>1 DEF gone
    <3> QED BY <1>1, <1>9, <3>1, <3>2
  <2> QED BY <2>1, <2>2
<1>11. Gone' BY <1>10 DEF Gone
<1>12. Avoids'
  <2>1. SUFFICES ASSUME sync'.on, NEW a \in Account, into'[a] # None
                 PROVE  a \in sync'.skip \cup sync'.missed
    BY DEF Avoids
  <2>2. sync.on BY <1>2, <2>1
  <2>3. sync'.skip = sync.skip /\ sync'.missed = sync.missed \cup {merge.old}
    BY <1>2, <2>2 DEF CountInv, TypeOfSync
  <2> QED BY <1>7, <2>1, <2>2, <2>3 DEF CountInv, Avoids
<1> QED BY <1>3, <1>4, <1>5, <1>6, <1>11, <1>12 DEF CountInv

LEMMA UndoCounts == ASSUME CountInv, NEW a \in Account, Undo(a) PROVE CountInv'
<1> USE AccountAssumption DEF CountInv, Undo, links, runs
<1>1. TypeOfInto' BY DEF TypeOfInto
<1>2. \A b \in Account : b # a => into'[b] = into[b] BY DEF TypeOfInto
<1>3. Gone' BY <1>2 DEF Gone
<1>4. \A b \in Account : into'[b] # None => into[b] # None BY DEF TypeOfInto
<1>5. Avoids' BY <1>4 DEF Avoids
<1> QED BY <1>1, <1>3, <1>5 DEF Underway, TypeOfHome, TypeOfSync, TypeOfMerge

-----------------------------------------------------------------------------
LEMMA SyncCounts == ASSUME CountInv, Sync PROVE CountInv'
BY SyncBeginsCounts, SyncEndsCounts, SyncRowCounts DEF Sync

\* People and the rules pass link and edit; they move no row between accounts.
LEMMA PeopleCount ==
    ASSUME CountInv, People \/ (\E a \in Actor : LinkWrite(a) \/ LinkFails(a)) PROVE CountInv'
<1>1. CASE People
  BY <1>1, Elsewhere, ZenonT(40) DEF People, PersonLinks, LinkRead, UnlinkRead, BulkRead, UnlinkWrite,
     BulkWrite, bank, links, runs, told
<1>2. ASSUME NEW a \in Actor, LinkWrite(a) PROVE UNCHANGED <<home, into, settled, sync, merge>>
  BY <1>2 DEF LinkWrite, bank, told
<1>3. ASSUME NEW a \in Actor, LinkFails(a) PROVE UNCHANGED <<home, into, settled, sync, merge>>
  BY <1>3 DEF LinkFails, bank, runs, told
<1> QED BY <1>1, <1>2, <1>3, Elsewhere

LEMMA EditingCounts == ASSUME CountInv, Editing PROVE CountInv'
BY Elsewhere DEF Editing, SetCategory, Annotate, Erase, links, runs

LEMMA RulesPassCounts == ASSUME CountInv, RulesPass PROVE CountInv'
BY Elsewhere DEF RulesPass, PassBegins, RuleSets, AutoLink, PassEnds, bank, links, runs, told

LEMMA MergeCounts == ASSUME CountInv, Merge PROVE CountInv'
<1>1. ASSUME NEW p \in Proposed \cup Pairs, NEW fallback \in {"keep", "heuristic", "move"},
             Plan(p[1], p[2], fallback)
      PROVE  CountInv'
  <2>1. p[1] \in Account /\ p[2] \in Account BY AccountAssumption DEF Proposed
  <2> QED BY <1>1, <2>1, PlanCounts
<1>2. CASE FindSingles \/ Prune \/ MergeStops
  <2>1. TypeOfMerge' BY <1>2 DEF FindSingles, Prune, MergeStops, Idle, TypeOfMerge, Underway
  <2>2. UNCHANGED <<home, into, settled, sync>>
    BY <1>2 DEF FindSingles, Prune, MergeStops, bank, links, told
  <2> QED BY <2>1, <2>2, MergeMovesOn
<1>3. ASSUME NEW a \in Account, Undo(a) PROVE CountInv' BY <1>3, UndoCounts
<1> QED BY <1>1, <1>2, <1>3, GatherCounts, CommitCounts DEF Merge

\* The strengthened invariant holds throughout.
THEOREM CountInvariant == Spec => []CountInv
<1>1. ASSUME CountInv, [Next]_vars PROVE CountInv'
  <2>1. CASE Next
    BY <1>1, <2>1, SyncCounts, PeopleCount, EditingCounts, RulesPassCounts, MergeCounts DEF Next
  <2>2. CASE UNCHANGED vars
    BY <1>1, <2>2, Elsewhere DEF vars, bank, runs, told
  <2> QED BY <1>1, <2>1, <2>2
<1> QED BY <1>1, CountHolds, PTL DEF Spec

\* Rows a merge has made one are never both held again, for any accounts, rows
\* and number of merges, syncs and undos (accounts/supersede.ts, ingest/sync.ts).
THEOREM Counted == Spec => []CountedOnce
<1>1. CountInv => CountedOnce BY DEF CountInv, Gone, CountedOnce
<1> QED BY <1>1, CountInvariant, PTL

-----------------------------------------------------------------------------
(* Transfers keep two legs.                                                  *)

\* A batch has an oldest row: days are numbered.
LEMMA OldestIsThere == ASSUME NEW rows \in SUBSET Row, rows # {} PROVE Oldest(rows) \in rows
<1> DEFINE days == {Date[r] : r \in rows}
<1>1. days \subseteq Nat /\ days # {} BY RowAssumption
<1>2. PICK x \in days : \A y \in days : <<y, x>> \notin OpToRel(<, Nat)
  <2> HIDE DEF days
  <2> QED BY <1>1, NatLessThanWellFounded, WFMin
<1>3. \A y \in days : ~(y < x) BY <1>1, <1>2 DEF OpToRel
<1>4. PICK r \in rows : Date[r] = x OBVIOUS
<1>5. \A o \in rows : Date[r] <= Date[o] BY RowAssumption, <1>3, <1>4
<1> QED BY <1>4, <1>5 DEF Oldest

Two(S) == \E x, y \in S : x # y

LEMMA TwoOrMore == ASSUME NEW S, IsFiniteSet(S) PROVE Cardinality(S) >= 2 <=> Two(S)
<1>1. ASSUME NEW x \in S, NEW y \in S, x # y PROVE Cardinality(S) >= 2
  <2>1. IsFiniteSet(S \ {x}) /\ Cardinality(S \ {x}) = Cardinality(S) - 1
    BY FS_RemoveElement
  <2>2. Cardinality(S \ {x}) # 0 BY <1>1, <2>1, FS_EmptySet
  <2> QED BY <2>1, <2>2, FS_CardinalityType
<1>2. ASSUME Cardinality(S) >= 2 PROVE Two(S)
  <2>1. PICK x \in S : TRUE BY <1>2, FS_EmptySet
  <2>2. S # {x} BY <1>2, FS_Singleton
  <2> QED BY <2>1, <2>2 DEF Two
<1> QED BY <1>1, <1>2 DEF Two

\* What a group can be, once `n' have been made, and a request that has read.
Known(n) == {None} \cup 1..n
Asked(q, n) ==
    /\ q.op = "link" => /\ q.source \in Row /\ q.target \in Row /\ q.source # q.target
                        /\ q.seen[q.source] \in Known(n) /\ q.seen[q.target] \in Known(n)
    /\ q.op = "unlink" => IsFiniteSet(q.others) /\ q.source \notin q.others
    /\ q.op = "bulk" => /\ q.rows \subseteq Row /\ Two(q.rows)
                        /\ \A r \in q.rows : q.seen[r] \in Known(n)

TypeOfGroups ==
    /\ minted \in Nat /\ groups \subseteq 1..minted /\ group \in [Row -> Known(minted)]
TypeOfRequests == DOMAIN request = Actor /\ \A a \in Actor : Asked(request[a], minted)
Paired == \A g \in groups \ torn : Two(Legs(g))

LegInv == TypeOfGroups /\ TypeOfRequests /\ Paired

LEMMA LegsHold == Init => LegInv
<1> SUFFICES ASSUME Init PROVE LegInv OBVIOUS
<1>1. TypeOfGroups /\ Paired BY DEF Init, TypeOfGroups, Known, Paired
<1>2. TypeOfRequests BY DEF Init, TypeOfRequests, Asked, Idle
<1> QED BY <1>1, <1>2 DEF LegInv

LEMMA IdleAsked == \A n : Asked(Idle, n)
BY DEF Asked, Idle

\* A request that was well formed stays so while groups are only added.
LEMMA StillAsked ==
    ASSUME NEW n \in Nat, NEW m \in Nat, n <= m, NEW q, Asked(q, n)
    PROVE  Asked(q, m)
<1>1. Known(n) \subseteq Known(m) BY DEF Known
<1> QED BY <1>1 DEF Asked

LEMMA OneAsks ==
    ASSUME TypeOfRequests, minted \in Nat, minted' \in Nat, minted <= minted',
           NEW a \in Actor, NEW q, Asked(q, minted'), request' = [request EXCEPT ![a] = q]
    PROVE  TypeOfRequests'
<1>1. DOMAIN request' = Actor BY DEF TypeOfRequests
<1>2. ASSUME NEW b \in Actor PROVE Asked(request'[b], minted')
  <2>1. Asked(request[b], minted) BY DEF TypeOfRequests
  <2>2. Asked(request[b], minted') BY <2>1, StillAsked
  <2>3. request'[b] = IF b = a THEN q ELSE request[b] BY DEF TypeOfRequests
  <2> QED BY <2>2, <2>3
<1> QED BY <1>1, <1>2 DEF TypeOfRequests

\* A group that keeps its legs keeps two.
LEMMA KeepsLegs ==
    ASSUME NEW g, Two(Legs(g)), Legs(g) \subseteq Legs(g)' PROVE Two(Legs(g))'
BY DEF Two

LEMMA LegsElsewhere == ASSUME LegInv, UNCHANGED <<home, links, request>> PROVE LegInv'
<1>1. \A g : Legs(g)' = Legs(g) BY DEF Legs, Held, links
<1>2. Paired' BY <1>1 DEF LegInv, Paired, Two, links
<1>3. TypeOfGroups' /\ TypeOfRequests' BY DEF LegInv, TypeOfGroups, TypeOfRequests, links
<1> QED BY <1>2, <1>3 DEF LegInv

LEMMA Asks ==
    ASSUME LegInv, UNCHANGED <<home, links>>, NEW a \in Actor, NEW q, Asked(q, minted),
           request' = [request EXCEPT ![a] = q]
    PROVE  LegInv'
<1>1. minted' = minted /\ minted \in Nat /\ minted <= minted' /\ Asked(q, minted')
  BY DEF LegInv, TypeOfGroups, links
<1>2. TypeOfRequests' BY <1>1, OneAsks DEF LegInv
<1>3. \A g : Legs(g)' = Legs(g) BY DEF Legs, Held, links
<1>4. Paired' BY <1>3 DEF LegInv, Paired, Two, links
<1>5. TypeOfGroups' BY DEF LegInv, TypeOfGroups, links
<1> QED BY <1>2, <1>4, <1>5 DEF LegInv

\* What a row was read to be in is known.
LEMMA LinkReadLegs ==
    ASSUME LegInv, NEW a \in Actor, NEW s, NEW t, LinkRead(a, s, t), UNCHANGED <<home, links>>
    PROVE  LegInv'
<1> DEFINE q == [op |-> "link", source |-> s, target |-> t,
                 seen |-> [r \in {s, t} |-> group[r]]]
<1>1. s \in Row /\ t \in Row /\ s # t BY DEF LinkRead, Held
<1>2. q.seen[s] = group[s] /\ q.seen[t] = group[t] OBVIOUS
<1>3. Asked(q, minted) BY <1>1, <1>2 DEF Asked, LegInv, TypeOfGroups
<1>4. request' = [request EXCEPT ![a] = q] BY DEF LinkRead
<1> HIDE DEF q
<1> QED BY <1>3, <1>4, Asks

LEMMA UnlinkReadLegs ==
    ASSUME LegInv, NEW p \in Person, NEW s \in Row, UnlinkRead(p, s) PROVE LegInv'
<1> DEFINE q == [op |-> "unlink", source |-> s, from |-> group[s],
                 others |-> Legs(group[s]) \ {s}]
<1>1. IsFiniteSet(Legs(group[s]) \ {s})
  BY RowAssumption, FS_Subset DEF Legs, Held
<1>2. Asked(q, minted) BY <1>1 DEF Asked
<1>3. request' = [request EXCEPT ![p] = q] /\ UNCHANGED <<home, links>>
  BY DEF UnlinkRead, bank
<1>4. p \in Actor BY DEF Actor
<1> HIDE DEF q
<1> QED BY <1>2, <1>3, <1>4, Asks

LEMMA BulkReadLegs ==
    ASSUME LegInv, NEW p \in Person, NEW rows \in Batches, BulkRead(p, rows) PROVE LegInv'
<1> DEFINE q == [op |-> "bulk", rows |-> rows, seen |-> [r \in rows |-> group[r]]]
<1>1. rows \subseteq Row /\ IsFiniteSet(rows) BY RowAssumption, FS_Subset
<1>2. Two(rows) BY <1>1, TwoOrMore DEF BulkRead
<1>3. \A r \in rows : q.seen[r] = group[r] OBVIOUS
<1>4. Asked(q, minted) BY <1>1, <1>2, <1>3 DEF Asked, LegInv, TypeOfGroups
<1>5. request' = [request EXCEPT ![p] = q] /\ UNCHANGED <<home, links>>
  BY DEF BulkRead, bank
<1>6. p \in Actor BY DEF Actor
<1> HIDE DEF q
<1> QED BY <1>4, <1>5, <1>6, Asks

\* A sync holds more rows and lets none go.
LEMMA SyncRowLegs ==
    ASSUME CountInv, LegInv, NEW r \in Row, SyncRow(r) PROVE LegInv'
<1>1. UNCHANGED <<links, request>> /\ Held \subseteq Held'
  BY AccountAssumption, ZenonT(40) DEF SyncRow, Held, CountInv, TypeOfHome
<1>2. \A g : Legs(g) \subseteq Legs(g)' BY <1>1 DEF Legs, links
<1>3. Paired' BY <1>1, <1>2, KeepsLegs DEF LegInv, Paired, links
<1>4. TypeOfGroups' /\ TypeOfRequests'
  BY <1>1 DEF LegInv, TypeOfGroups, TypeOfRequests, links
<1> QED BY <1>3, <1>4 DEF LegInv

\* A write from an old read: a group it makes gets the two rows it was made for,
\* one it adds to keeps its legs, and what it takes rows from, not having seen
\* them there, is torn.
LEMMA MovesLegs ==
    ASSUME TypeOfGroups, Paired, NEW moved \in SUBSET Row, NEW whole, NEW g \in 1..(minted + 1),
           NEW seen, Moves(moved, whole, g, seen), UNCHANGED home, g \notin whole,
           \A r \in moved : seen[r] = None,
           g = minted + 1 => Two(moved),
           minted' = IF g > minted THEN g ELSE minted
    PROVE  TypeOfGroups' /\ Paired'
<1> DEFINE now == moved \cap Held
           all == now \cup {r \in Held : group[r] \in whole}
<1> USE DEF TypeOfGroups
<1>1. /\ group' = [r \in Row |-> IF r \in all THEN g ELSE group[r]]
      /\ groups' = (groups \cup ({g} \ 1..minted)) \ whole
      /\ torn' = groups' \cap
                   (torn \cup {group[r] : r \in {m \in now : group[m] \notin {seen[m], None, g}}}
                         \cup (IF moved \subseteq Held THEN {} ELSE {g}))
  BY DEF Moves
<1>2. now \subseteq Row /\ Held' = Held /\ Held \subseteq Row BY DEF Held
<1> HIDE DEF all
<1>3. minted' \in Nat /\ minted <= minted' /\ g <= minted' OBVIOUS
<1>4. TypeOfGroups'
  <2>1. \A h \in groups' : h \in groups \/ h = g BY <1>1
  <2>2. groups \subseteq 1..minted' /\ g \in 1..minted'
    <3>1. minted' = g \/ (minted' = minted /\ g <= minted) OBVIOUS
    <3> QED BY <1>3, <3>1
  <2>3. Known(minted) \subseteq Known(minted') /\ g \in Known(minted') BY <1>3 DEF Known
  <2>4. group' \in [Row -> Known(minted')] BY <1>1, <2>3
  <2> QED BY <1>3, <2>1, <2>2, <2>4
<1>5. ASSUME NEW h \in groups', h \notin torn' PROVE Two(Legs(h))'
  <2>1. h \in Nat /\ h # None /\ h \notin whole BY RowAssumption, <1>1, <1>5
  <2>2. CASE h = g /\ g = minted + 1
    <3>1. moved \subseteq Held BY <1>1, <1>5, <2>2
    <3>2. PICK x, y \in moved : x # y BY <2>2 DEF Two
    <3>3. x \in all /\ y \in all BY <3>1, <3>2 DEF all
    <3>4. x \in Legs(h)' /\ y \in Legs(h)' BY <1>1, <1>2, <2>2, <3>1, <3>2, <3>3 DEF Legs
    <3> QED BY <3>2, <3>4 DEF Two
  <2>3. CASE ~(h = g /\ g = minted + 1)
    <3>1. h \in groups /\ h \notin torn BY <1>1, <1>5, <2>3
    <3>2. Two(Legs(h)) BY <3>1 DEF Paired
    <3>3. ASSUME NEW x \in Legs(h) PROVE x \in Legs(h)'
      <4>1. x \in Held /\ x \in Row /\ group[x] = h BY <1>2 DEF Legs
      <4>2. x \in now => h = g
        <5>1. SUFFICES ASSUME x \in now, h # g PROVE FALSE OBVIOUS
        <5>2. seen[x] = None BY <5>1
        <5>3. group[x] \notin {seen[x], None, g} BY <2>1, <4>1, <5>1, <5>2
        <5> QED BY <1>1, <1>5, <4>1, <5>1, <5>3
      <4>3. x \in all => h = g BY <2>1, <4>1, <4>2 DEF all
      <4>4. group'[x] = h BY <1>1, <4>1, <4>3
      <4> QED BY <1>2, <4>1, <4>4 DEF Legs
    <3> QED BY <3>2, <3>3, KeepsLegs
  <2> QED BY <2>2, <2>3
<1> QED BY <1>4, <1>5 DEF Paired

\* A group is made only for rows none of which was in one.
LEMMA ChosenKnown ==
    ASSUME minted \in Nat, NEW b \in Known(minted), NEW c \in Known(minted)
    PROVE  /\ Chosen(b, c) \in 1..(minted + 1)
           /\ Chosen(b, c) = minted + 1 => b = None /\ c = None
BY DEF Known, Chosen

LEMMA LinkWriteLegs == ASSUME LegInv, NEW a \in Actor, LinkWrite(a) PROVE LegInv'
<1> DEFINE q == request[a]
           s == q.source
           t == q.target
           g == Chosen(q.seen[s], q.seen[t])
           folded == {q.seen[t]} \ {None, g}
           moved == {r \in {s, t} : q.seen[r] = None}
<1>1. /\ q.op = "link" /\ minted' = IF g > minted THEN g ELSE minted
      /\ Moves(moved, folded, g, q.seen)
      /\ request' = [request EXCEPT ![a] = Idle] /\ UNCHANGED home
  BY DEF LinkWrite, bank
<1>2. /\ s \in Row /\ t \in Row /\ s # t
      /\ q.seen[s] \in Known(minted) /\ q.seen[t] \in Known(minted)
  BY <1>1 DEF LegInv, TypeOfRequests, Asked
<1>3. TypeOfGroups /\ Paired /\ TypeOfRequests /\ minted \in Nat BY DEF LegInv, TypeOfGroups
<1>4. g \in 1..(minted + 1) BY <1>2, <1>3, ChosenKnown
<1>5. g = minted + 1 => q.seen[s] = None /\ q.seen[t] = None BY <1>2, <1>3, ChosenKnown
<1>6. g = minted + 1 => Two(moved) BY <1>2, <1>5 DEF Two
<1>7. moved \in SUBSET Row /\ g \notin folded /\ \A r \in moved : q.seen[r] = None BY <1>2
<1> DEFINE seen == q.seen
<1>8. Moves(moved, folded, g, seen) /\ \A r \in moved : seen[r] = None BY <1>1, <1>7
<1>9. minted' \in Nat /\ minted <= minted' BY <1>1, <1>3, <1>4
<1> HIDE DEF g, folded, moved, seen
<1>10. TypeOfGroups' /\ Paired' BY <1>1, <1>3, <1>4, <1>6, <1>7, <1>8, MovesLegs
<1>11. TypeOfRequests' BY <1>1, <1>3, <1>9, IdleAsked, OneAsks
<1> QED BY <1>10, <1>11 DEF LegInv

LEMMA BulkWriteLegs == ASSUME LegInv, NEW p \in Person, BulkWrite(p) PROVE LegInv'
<1> DEFINE q == request[p]
           seen == q.seen
           anchor == Oldest(q.rows)
           loose == {r \in q.rows : q.seen[r] = None}
           met == {q.seen[r] : r \in q.rows \ loose}
           first == Oldest(q.rows \ loose)
           other == IF met = {} THEN None ELSE q.seen[first]
           g == Chosen(q.seen[anchor], other)
<1>1. /\ q.op = "bulk" /\ minted' = IF g > minted THEN g ELSE minted
      /\ Moves(loose, met \ {g}, g, seen)
      /\ request' = [request EXCEPT ![p] = Idle] /\ UNCHANGED home
  BY DEF BulkWrite, bank
<1>2. p \in Actor BY DEF Actor
<1>3. q.rows \subseteq Row /\ Two(q.rows) /\ \A r \in q.rows : q.seen[r] \in Known(minted)
  BY <1>1, <1>2 DEF LegInv, TypeOfRequests, Asked
<1>4. TypeOfGroups /\ Paired /\ TypeOfRequests /\ minted \in Nat BY DEF LegInv, TypeOfGroups
<1>5. anchor \in q.rows BY <1>3, OldestIsThere DEF Two
<1>6. ASSUME met # {} PROVE first \in q.rows /\ q.seen[first] # None
  <2>1. q.rows \ loose # {} /\ q.rows \ loose \in SUBSET Row BY <1>3, <1>6
  <2>2. first \in q.rows \ loose BY <2>1, OldestIsThere
  <2> QED BY <2>2
<1>7. q.seen[anchor] \in Known(minted) /\ other \in Known(minted) /\ (other = None => met = {})
  BY <1>3, <1>5, <1>6 DEF Known
<1> DEFINE chosen == q.seen[anchor]
<1>8. /\ g \in 1..(minted + 1)
      /\ g = minted + 1 => Two(loose)
  <2> HIDE DEF other, met, chosen
  <2>1. g \in 1..(minted + 1) /\ (g = minted + 1 => chosen = None /\ other = None)
    BY <1>4, <1>7, ChosenKnown DEF chosen
  <2>2. g = minted + 1 => loose = q.rows BY <1>7, <2>1 DEF met
  <2> QED BY <1>3, <2>1, <2>2
<1>9. loose \in SUBSET Row /\ g \notin met \ {g} /\ \A r \in loose : seen[r] = None BY <1>3
<1> HIDE DEF g, met, loose, seen
<1>10. minted' \in Nat /\ minted <= minted' BY <1>1, <1>4, <1>8
<1>11. TypeOfGroups' /\ Paired' BY <1>1, <1>4, <1>8, <1>9, MovesLegs
<1>12. TypeOfRequests' BY <1>1, <1>2, <1>4, <1>10, IdleAsked, OneAsks
<1> QED BY <1>11, <1>12 DEF LegInv

\* An unlinking that releases the group leaves no short one; one that does not
\* leaves two legs if it read what is still there.
LEMMA UnlinkWriteLegs == ASSUME LegInv, NEW p \in Person, UnlinkWrite(p) PROVE LegInv'
<1> DEFINE q == request[p]
           releases == Releases(q.others)
           freed == {q.source} \cup (IF releases THEN Legs(q.from) ELSE {})
           left == group[q.source]
<1>1. /\ q.op = "unlink" /\ q.source \in Held
      /\ group' = [r \in Row |-> IF r \in freed THEN None ELSE group[r]]
      /\ groups' = IF releases THEN groups \ {q.from} ELSE groups
      /\ torn' = (IF releases THEN torn \ {q.from} ELSE torn)
                 \cup {g \in {left} \ {None} :
                         \/ g # q.from
                         \/ ~releases /\ Legs(g) # q.others \cup {q.source}}
      /\ request' = [request EXCEPT ![p] = Idle] /\ UNCHANGED <<home, minted>>
  BY DEF UnlinkWrite, bank
<1>2. p \in Actor BY DEF Actor
<1>3. IsFiniteSet(q.others) /\ q.source \notin q.others
  BY <1>1, <1>2 DEF LegInv, TypeOfRequests, Asked
<1>4. TypeOfGroups /\ Paired /\ TypeOfRequests /\ minted \in Nat BY DEF LegInv, TypeOfGroups
<1>5. Held' = Held /\ Held \subseteq Row BY <1>1 DEF Held
<1>6. ~releases => Two(q.others)
  <2>1. Cardinality(q.others) \in Nat BY <1>3, FS_CardinalityType
  <2> QED BY <1>3, <2>1, TwoOrMore DEF Releases
<1> HIDE DEF releases
<1>7. TypeOfGroups'
  <2>1. group' \in [Row -> Known(minted)] BY <1>1, <1>4 DEF TypeOfGroups, Known
  <2>2. groups' \subseteq 1..minted BY <1>1, <1>4 DEF TypeOfGroups
  <2> QED BY <1>1, <1>4, <2>1, <2>2 DEF TypeOfGroups
<1>8. ASSUME NEW h \in groups', h \notin torn' PROVE Two(Legs(h))'
  <2>1. h \in groups /\ h # None /\ (releases => h # q.from)
    BY RowAssumption, <1>1, <1>4, <1>8 DEF TypeOfGroups
  <2>2. h \notin torn BY <1>1, <1>8, <2>1
  <2>3. Two(Legs(h)) BY <1>4, <2>1, <2>2 DEF Paired
  <2>4. CASE h = left
    <3>1. ~releases /\ h = q.from /\ Legs(h) = q.others \cup {q.source}
      BY <1>1, <1>8, <2>1, <2>4
    <3>2. ASSUME NEW x \in q.others PROVE x \in Legs(h)'
      <4>1. x \in Held /\ group[x] = h BY <3>1 DEF Legs
      <4>2. x \notin freed BY <1>3, <3>1
      <4>3. group'[x] = h BY <1>1, <1>5, <4>1, <4>2
      <4> QED BY <1>5, <4>1, <4>3 DEF Legs
    <3> QED BY <1>6, <3>1, <3>2 DEF Two
  <2>5. CASE h # left
    <3>1. ASSUME NEW x \in Legs(h) PROVE x \in Legs(h)'
      <4>1. x \in Held /\ group[x] = h BY DEF Legs
      <4>2. x \notin freed BY <2>1, <2>5, <4>1 DEF Legs
      <4>3. group'[x] = h BY <1>1, <1>5, <4>1, <4>2
      <4> QED BY <1>5, <4>1, <4>3 DEF Legs
    <3> QED BY <2>3, <3>1, KeepsLegs
  <2> QED BY <2>4, <2>5
<1>9. minted' \in Nat /\ minted <= minted' BY <1>1, <1>4
<1>10. TypeOfRequests' BY <1>1, <1>2, <1>4, <1>9, IdleAsked, OneAsks
<1> QED BY <1>7, <1>8, <1>10 DEF LegInv, Paired

\* Whatever loses a leg to a merge is torn until the sweep.
LEMMA CommitLegs == ASSUME CountInv, LegInv, Commit PROVE LegInv'
<1> DEFINE pairs == merge.pairs
           gone == {p.old : p \in pairs}
           pairOf(r) == CHOOSE p \in pairs : p.next = r
           relinked == {p.next : p \in {q \in pairs : q.link # None}}
           grp == [r \in Row |-> IF r \in gone THEN None
                                 ELSE IF r \in relinked THEN pairOf(r).link
                                 ELSE group[r]]
<1>1. /\ merge.op = "gathered" /\ ~Refused
      /\ home' = [r \in Row |-> IF r \in gone THEN None
                                ELSE IF r \in merge.moves \cap Held THEN merge.new ELSE home[r]]
      /\ group' = grp
      /\ torn' = torn \cup {g \in groups : \E r \in Held : group[r] = g /\ grp[r] # g}
      /\ UNCHANGED <<groups, minted, request>>
  BY DEF Commit
<1>2. merge.new # None BY <1>1, AccountAssumption DEF CountInv, TypeOfMerge, Underway
<1>3. TypeOfGroups /\ Paired /\ TypeOfRequests /\ minted \in Nat BY DEF LegInv, TypeOfGroups
<1>4. ASSUME NEW r \in Row PROVE grp[r] \in Known(minted)
  <2>1. CASE r \in relinked /\ r \notin gone
    <3>1. pairOf(r) \in pairs BY <2>1
    <3>2. pairOf(r).link \in groups \cup {None} BY <1>1, <3>1 DEF Refused
    <3>3. grp[r] = pairOf(r).link BY <2>1
    <3> HIDE DEF grp, pairOf
    <3> QED BY <1>3, <3>2, <3>3 DEF TypeOfGroups, Known
  <2>2. CASE r \in gone BY <2>2 DEF Known
  <2>3. CASE r \notin gone /\ r \notin relinked BY <1>3, <2>3 DEF TypeOfGroups
  <2> QED BY <2>1, <2>2, <2>3
<1>5. grp = [r \in Row |-> grp[r]] /\ \A r \in gone \cap Row : grp[r] = None OBVIOUS
<1> HIDE DEF grp, gone
<1>6. TypeOfGroups'
  <2>1. group' \in [Row -> Known(minted)] BY <1>1, <1>4, <1>5
  <2> QED BY <1>1, <1>3, <2>1 DEF TypeOfGroups
<1>7. ASSUME NEW h \in groups', h \notin torn' PROVE Two(Legs(h))'
  <2>1. h \in groups /\ h \notin torn /\ h # None
    BY RowAssumption, <1>1, <1>3, <1>7 DEF TypeOfGroups
  <2>2. ASSUME NEW x \in Legs(h) PROVE x \in Legs(h)'
    <3>1. x \in Held /\ x \in Row /\ home[x] # None /\ group[x] = h BY DEF Legs, Held
    <3>2. grp[x] = h BY <1>1, <1>7, <2>1, <3>1
    <3>3. x \notin gone BY <1>5, <2>1, <3>1, <3>2
    <3>4. home'[x] # None BY <1>1, <1>2, <3>1, <3>3
    <3> QED BY <1>1, <3>1, <3>2, <3>4 DEF Legs, Held
  <2> QED BY <1>3, <2>1, <2>2, KeepsLegs DEF Paired
<1>8. TypeOfRequests' BY <1>1, <1>3 DEF TypeOfRequests
<1> QED BY <1>6, <1>7, <1>8 DEF LegInv, Paired

LEMMA PruneLegs == ASSUME LegInv, Prune PROVE LegInv'
<1>1. /\ groups' = groups \ merge.single /\ torn' = torn \ merge.single
      /\ group' = [r \in Row |-> IF group[r] \in merge.single THEN None ELSE group[r]]
      /\ UNCHANGED <<minted, home, request>>
  BY DEF Prune, bank
<1>2. TypeOfGroups' BY <1>1 DEF LegInv, TypeOfGroups, Known
<1>3. ASSUME NEW h \in groups', h \notin torn' PROVE Two(Legs(h))'
  <2>1. h \in groups /\ h \notin torn /\ h \notin merge.single BY <1>1, <1>3
  <2>2. Legs(h) \subseteq Legs(h)' BY <1>1, <2>1 DEF Legs, Held
  <2> QED BY <2>1, <2>2, KeepsLegs DEF LegInv, Paired
<1>4. TypeOfRequests' BY <1>1 DEF LegInv, TypeOfRequests
<1> QED BY <1>2, <1>3, <1>4 DEF LegInv, Paired

-----------------------------------------------------------------------------
LEMMA SyncLegs == ASSUME CountInv, LegInv, Sync PROVE LegInv'
<1>1. CASE SyncBegins \/ SyncEnds
  BY <1>1, LegsElsewhere DEF SyncBegins, SyncEnds, bank
<1> QED BY <1>1, SyncRowLegs DEF Sync

LEMMA PeopleLegs == ASSUME LegInv, People PROVE LegInv'
<1>1. ASSUME NEW p \in Person, NEW pick \in Picks, PersonLinks(p, pick[1], pick[2])
      PROVE  LegInv'
  <2>1. p \in Actor BY DEF Actor
  <2>2. LinkRead(p, pick[1], pick[2]) /\ UNCHANGED <<home, links>>
    BY <1>1 DEF PersonLinks, bank
  <2> QED BY <2>1, <2>2, LinkReadLegs
<1> QED BY <1>1, UnlinkReadLegs, BulkReadLegs, UnlinkWriteLegs, BulkWriteLegs DEF People

LEMMA RulesPassLegs == ASSUME LegInv, RulesPass PROVE LegInv'
<1>1. ASSUME NEW r \in Row, AutoLink(r) PROVE LegInv'
  <2>1. PICK t \in Row : LinkRead(Rules, r, t) BY <1>1 DEF AutoLink
  <2>2. Rules \in Actor /\ UNCHANGED <<home, links>> BY <1>1 DEF AutoLink, Actor, bank
  <2> QED BY <2>1, <2>2, LinkReadLegs
<1>2. ASSUME NEW r \in Edited, RuleSets(r) PROVE LegInv'
  BY <1>2, LegsElsewhere DEF RuleSets
<1>3. ASSUME PassBegins PROVE LegInv' BY <1>3, LegsElsewhere DEF PassBegins, bank
<1>4. ASSUME NEW logged, PassEnds(logged) PROVE LegInv'
  BY <1>4, LegsElsewhere DEF PassEnds, bank
<1> QED BY <1>1, <1>2, <1>3, <1>4 DEF RulesPass

LEMMA EditingLegs == ASSUME LegInv, Editing PROVE LegInv'
BY LegsElsewhere DEF Editing, SetCategory, Annotate, Erase

LEMMA MergeLegs == ASSUME CountInv, LegInv, Merge PROVE LegInv'
<1>1. ASSUME NEW p \in Proposed \cup Pairs, NEW fallback, Plan(p[1], p[2], fallback)
      PROVE  LegInv'
  <2>1. UNCHANGED <<home, links, request>> BY <1>1 DEF Plan, bank
  <2> QED BY <2>1, LegsElsewhere
<1>2. CASE Gather \/ FindSingles \/ MergeStops
  BY <1>2, LegsElsewhere DEF Gather, FindSingles, MergeStops, bank
<1>3. ASSUME NEW a \in Account, Undo(a) PROVE LegInv' BY <1>3, LegsElsewhere DEF Undo
<1> QED BY <1>1, <1>2, <1>3, CommitLegs, PruneLegs DEF Merge

LEMMA WritesLegs == ASSUME LegInv, NEW a \in Actor, LinkWrite(a) \/ LinkFails(a) PROVE LegInv'
<1>1. CASE LinkFails(a)
  <2>1. request' = [request EXCEPT ![a] = Idle] /\ UNCHANGED <<home, links>>
    BY <1>1 DEF LinkFails, bank
  <2> QED BY <2>1, IdleAsked, Asks
<1> QED BY <1>1, LinkWriteLegs

\* The strengthened invariant holds throughout.
THEOREM LegInvariant == Spec => []LegInv
<1>1. ASSUME CountInv, LegInv, [Next]_vars PROVE LegInv'
  <2>1. CASE Next
    BY <1>1, <2>1, SyncLegs, PeopleLegs, RulesPassLegs, EditingLegs, MergeLegs, WritesLegs DEF Next
  <2>2. CASE UNCHANGED vars BY <1>1, <2>2, LegsElsewhere DEF vars, bank
  <2> QED BY <1>1, <2>1, <2>2
<1> QED BY <1>1, LegsHold, CountInvariant, PTL DEF Spec

\* A transfer has two legs unless a write that trusted an older read, or a merge
\* that has not swept yet, took one: for any rows, people, links and merges
\* (matching/transfers.ts, actions/transfer.ts, actions/bulk.ts, supersede.ts).
THEOREM Whole == Spec => []GroupsWhole
<1>1. LegInv => GroupsWhole
  <2>1. \A g : IsFiniteSet(Legs(g)) BY RowAssumption, FS_Subset DEF Legs, Held
  <2> QED BY <2>1, TwoOrMore DEF LegInv, Paired, GroupsWhole
<1> QED BY <1>1, LegInvariant, PTL

-----------------------------------------------------------------------------
(* What people set is carried over.                                          *)

\* Rows are rows, and nothing is remembered of one that is not held.
TypeOfRows ==
    /\ owner \in [Row -> Source] /\ author \in [Row -> Source]
    /\ extras \in [Row -> SUBSET {"year", "label"}]
    /\ facts \subseteq Held \X {"category", "year", "label"}

\* The rows of a plan are held, no row has two predecessors or a predecessor
\* that is a successor, and what it carries was read off them.
Fair(p) ==
    /\ p.old \in Held /\ p.next \in Held
    /\ p.category \in Source \cup {None}
    /\ p.by \in Source /\ p.rival \in Source
    /\ p.link = IF /\ p.was[1] \notin {None, p.was[2]}
                   /\ p.was[2] = None \/ Rank(p.by) > Rank(p.rival)
                THEN p.was[1] ELSE None
Matched(pairs) == \A p, q \in pairs : p.old # q.next /\ (p.next = q.next => p = q)
TypeOfPlan == Underway => Matched(merge.pairs) /\ \A p \in merge.pairs : Fair(p)

\* What people had set when the plan was made is in the plan, or where it was.
Foreseen(p) ==
    /\ <<p.next, "category">> \in facts => p.category \in {None, "user"}
    /\ <<p.old, "category">> \in facts =>
           p.category = "user" \/ (p.category = None /\ owner[p.next] = "user")
    /\ <<p.old, "year">> \in facts => p.year \/ "year" \in extras[p.next]
    /\ merge.op = "gathered" /\ <<p.old, "label">> \in facts => p \in merge.labelled
PlanForesees == Underway => \A p \in merge.pairs : Foreseen(p)

ChoiceInv == TypeOfRows /\ TypeOfPlan /\ ChoicesSurvive /\ PlanForesees

LEMMA ChoicesHold == Init => ChoiceInv
BY DEF Init, ChoiceInv, TypeOfRows, TypeOfPlan, ChoicesSurvive, PlanForesees, Underway, Idle,
    Source

\* A row may be held again, and a link be logged: neither is about a choice.
LEMMA RowsElsewhere ==
    ASSUME TypeOfRows, Held \subseteq Held', author' \in [Row -> Source],
           UNCHANGED <<owner, extras, facts>>
    PROVE  TypeOfRows'
BY DEF TypeOfRows

LEMMA PlanElsewhere ==
    ASSUME TypeOfPlan, Held \subseteq Held', UNCHANGED merge PROVE TypeOfPlan'
<1>1. Underway' = Underway /\ merge' = merge BY DEF Underway
<1>2. \A p : Fair(p) => Fair(p)' BY DEF Fair
<1>3. \A p : Matched(p) = Matched(p)' BY DEF Matched
<1> QED BY <1>1, <1>2, <1>3 DEF TypeOfPlan

LEMMA ChoiceElsewhere ==
    ASSUME ChoiceInv, Held \subseteq Held', author' \in [Row -> Source],
           UNCHANGED <<owner, extras, facts, merge>>
    PROVE  ChoiceInv'
<1>1. TypeOfRows' /\ TypeOfPlan' BY RowsElsewhere, PlanElsewhere DEF ChoiceInv
<1>2. ChoicesSurvive' BY DEF ChoiceInv, ChoicesSurvive
<1>3. PlanForesees' BY DEF ChoiceInv, PlanForesees, Underway, Foreseen
<1> QED BY <1>1, <1>2, <1>3 DEF ChoiceInv

\* So is a merge that is dropped, or is past its commit.
LEMMA ChoiceOver ==
    ASSUME ChoiceInv, UNCHANGED <<home, owner, author, extras, facts>>, ~Underway'
    PROVE  ChoiceInv'
<1>1. TypeOfRows' BY DEF ChoiceInv, TypeOfRows, Held
<1>2. TypeOfPlan' /\ PlanForesees' BY DEF TypeOfPlan, PlanForesees
<1>3. ChoicesSurvive' BY DEF ChoiceInv, ChoicesSurvive
<1> QED BY <1>1, <1>2, <1>3 DEF ChoiceInv

\* A category set once the plan is made is not remembered on a row it names.
LEMMA SetCategoryKeeps == ASSUME ChoiceInv, NEW r \in Row, SetCategory(r) PROVE ChoiceInv'
<1>1. /\ owner' = [owner EXCEPT ![r] = "user"] /\ r \in Held
      /\ UNCHANGED <<home, extras, author, merge>>
      /\ facts' = IF ReadAlready(r, "category") THEN facts \ {<<r, "category">>}
                                                ELSE facts \cup {<<r, "category">>}
  BY DEF SetCategory, runs
<1>2. Held' = Held /\ "user" \in Source BY <1>1 DEF Held, Source
<1>3. TypeOfRows' BY <1>1, <1>2 DEF ChoiceInv, TypeOfRows
<1>4. TypeOfPlan' BY <1>1, <1>2, PlanElsewhere DEF ChoiceInv
<1>5. ChoicesSurvive' BY <1>1, <1>2 DEF ChoiceInv, ChoicesSurvive, TypeOfRows, Held
<1>6. ASSUME Underway', NEW p \in merge'.pairs PROVE Foreseen(p)'
  <2>1. Underway /\ p \in merge.pairs /\ merge.pairs = Planned
    BY <1>1, <1>6 DEF Underway, Planned
  <2>2. Foreseen(p) BY <2>1 DEF ChoiceInv, PlanForesees
  <2>3. r \in {p.old, p.next} => ReadAlready(r, "category") BY <2>1 DEF ReadAlready
  <2>4. \A x : x \in {p.old, p.next} /\ <<x, "category">> \in facts'
                 => <<x, "category">> \in facts /\ x # r
    BY <1>1, <2>3
  <2>5. \A x, f : f # "category" => (<<x, f>> \in facts' <=> <<x, f>> \in facts) BY <1>1
  <2>6. owner[p.next] = "user" => owner'[p.next] = "user" BY <1>1 DEF ChoiceInv, TypeOfRows
  <2> QED BY <1>1, <2>2, <2>4, <2>5, <2>6 DEF Foreseen
<1>7. PlanForesees' BY <1>6 DEF PlanForesees
<1> QED BY <1>3, <1>4, <1>5, <1>7 DEF ChoiceInv

\* The pass leaves a person's category alone.
LEMMA RuleSetsKeeps == ASSUME ChoiceInv, NEW r \in Row, RuleSets(r) PROVE ChoiceInv'
<1>1. /\ owner[r] = "akahu" /\ owner' = [owner EXCEPT ![r] = "rule"]
      /\ UNCHANGED <<home, extras, author, merge, facts>>
  BY DEF RuleSets, runs, told
<1>2. Held' = Held /\ "rule" \in Source BY <1>1 DEF Held, Source
<1>3. TypeOfRows' BY <1>1, <1>2 DEF ChoiceInv, TypeOfRows
<1>4. TypeOfPlan' BY <1>1, <1>2, PlanElsewhere DEF ChoiceInv
<1>5. \A x : owner[x] = "user" => owner'[x] = "user"
  <2>1. \A x : x # r => owner'[x] = owner[x] BY <1>1 DEF ChoiceInv, TypeOfRows
  <2> QED BY <1>1, <2>1
<1>6. ChoicesSurvive' BY <1>1, <1>5 DEF ChoiceInv, ChoicesSurvive
<1>7. PlanForesees' BY <1>1, <1>5 DEF ChoiceInv, PlanForesees, Foreseen, Underway
<1> QED BY <1>3, <1>4, <1>6, <1>7 DEF ChoiceInv

\* A year or a label is remembered where the merge has not read yet.
LEMMA AnnotateKeeps ==
    ASSUME ChoiceInv, NEW r \in Row, NEW f \in {"year", "label"}, Annotate(r, f)
    PROVE  ChoiceInv'
<1>1. /\ r \in Held /\ extras' = [extras EXCEPT ![r] = @ \cup {f}]
      /\ UNCHANGED <<home, owner, author, merge>>
      /\ facts' = IF ReadAlready(r, f) THEN facts ELSE facts \cup {<<r, f>>}
  BY DEF Annotate, runs
<1>2. Held' = Held BY <1>1 DEF Held
<1>3. TypeOfRows' BY <1>1, <1>2 DEF ChoiceInv, TypeOfRows
<1>4. TypeOfPlan' BY <1>1, <1>2, PlanElsewhere DEF ChoiceInv
<1>5. \A x \in Row : extras[x] \subseteq extras'[x] BY <1>1 DEF ChoiceInv, TypeOfRows
<1>6. f \in extras'[r] BY <1>1 DEF ChoiceInv, TypeOfRows
<1>7. ChoicesSurvive'
  BY <1>1, <1>5, <1>6 DEF ChoiceInv, ChoicesSurvive, TypeOfRows, Held
<1>8. ASSUME Underway', NEW p \in merge'.pairs PROVE Foreseen(p)'
  <2>1. Underway /\ p \in merge.pairs /\ merge.pairs = Planned
    BY <1>1, <1>8 DEF Underway, Planned
  <2>2. Foreseen(p) /\ Fair(p) BY <2>1 DEF ChoiceInv, PlanForesees, TypeOfPlan
  <2>3. r = p.old /\ (f = "label" => merge.op # "planned") => ReadAlready(r, f)
    BY <2>1 DEF ReadAlready
  <2>4. p.next \in Row BY <2>2 DEF Fair, Held
  <2>5. \A x : <<x, "category">> \in facts' <=> <<x, "category">> \in facts BY <1>1
  <2>6. <<p.old, "year">> \in facts' => <<p.old, "year">> \in facts BY <1>1, <2>3
  <2>7. merge.op = "gathered" /\ <<p.old, "label">> \in facts' => <<p.old, "label">> \in facts
    BY <1>1, <2>3
  <2> QED BY <1>1, <1>5, <2>2, <2>4, <2>5, <2>6, <2>7 DEF Foreseen
<1>9. PlanForesees' BY <1>8 DEF PlanForesees
<1> QED BY <1>3, <1>4, <1>7, <1>9 DEF ChoiceInv

LEMMA EraseKeeps ==
    ASSUME ChoiceInv, NEW r \in Row, NEW f \in {"year", "label"}, Erase(r, f)
    PROVE  ChoiceInv'
<1>1. /\ r \in Held /\ extras' = [extras EXCEPT ![r] = @ \ {f}]
      /\ UNCHANGED <<home, owner, author, merge>>
      /\ facts' = facts \ {<<x, f>> : x \in {r} \cup LeftOut(r, f)}
  BY DEF Erase, runs
<1>2. Held' = Held BY <1>1 DEF Held
<1>3. TypeOfRows' BY <1>1, <1>2 DEF ChoiceInv, TypeOfRows
<1>4. TypeOfPlan' BY <1>1, <1>2, PlanElsewhere DEF ChoiceInv
<1>5. \A x \in Row : \A k : k \in extras[x] /\ k \notin extras'[x] => x = r /\ k = f
  BY <1>1 DEF ChoiceInv, TypeOfRows
<1>6. <<r, f>> \notin facts' /\ facts' \subseteq facts BY <1>1
<1>7. ASSUME NEW c \in facts'
      PROVE  IF c[2] = "category" THEN owner'[c[1]] = "user" ELSE c[2] \in extras'[c[1]]
  <2>1. c \in facts /\ c = <<c[1], c[2]>> /\ c[1] \in Row
    BY <1>6, <1>7 DEF ChoiceInv, TypeOfRows, Held
  <2>2. c # <<r, f>> BY <1>6, <1>7
  <2> QED BY <1>1, <1>5, <2>1, <2>2 DEF ChoiceInv, ChoicesSurvive
<1>8. ASSUME Underway', NEW p \in merge'.pairs PROVE Foreseen(p)'
  <2>1. Underway /\ p \in merge.pairs /\ merge.pairs = Planned
    BY <1>1, <1>8 DEF Underway, Planned
  <2>2. Foreseen(p) /\ Fair(p) BY <2>1 DEF ChoiceInv, PlanForesees, TypeOfPlan
  <2>3. p.next \in Row BY <2>2 DEF Fair, Held
  <2>4. r = p.next /\ f = "year" => <<p.old, "year">> \notin facts'
    <3>1. r = p.next /\ f = "year" => p.old \in LeftOut(r, f) BY <2>1 DEF LeftOut
    <3> QED BY <1>1, <3>1
  <2>5. <<p.old, "year">> \in facts' => p.year \/ "year" \in extras'[p.next]
    BY <1>5, <1>6, <2>2, <2>3, <2>4 DEF Foreseen
  <2> QED BY <1>1, <1>6, <2>2, <2>5 DEF Foreseen
<1>9. PlanForesees' BY <1>8 DEF PlanForesees
<1>10. ChoicesSurvive' BY <1>7 DEF ChoicesSurvive
<1> QED BY <1>3, <1>4, <1>9, <1>10 DEF ChoiceInv

\* The plan reads the two rows of a pair: it takes what outranks, and years the
\* successor lacks.
LEMMA CarriesOver ==
    ASSUME TypeOfRows, ChoicesSurvive, NEW o \in Held, NEW n \in Held,
           NEW p, p = CarryOver(o, n)
    PROVE  /\ Fair(p) /\ p.old = o /\ p.next = n /\ p.was = <<group[o], group[n]>>
           /\ <<n, "category">> \in facts => p.category = None
           /\ <<o, "category">> \in facts =>
                  p.category = "user" \/ (p.category = None /\ owner[n] = "user")
           /\ <<o, "year">> \in facts => p.year \/ "year" \in extras[n]
<1>1. o \in Row /\ n \in Row BY DEF Held
<1>2. owner[o] \in Source /\ owner[n] \in Source /\ author[o] \in Source /\ author[n] \in Source
  BY <1>1 DEF TypeOfRows
<1>3. \A s \in Source : Rank(s) \in 0..2 /\ (Rank(s) = 2 <=> s = "user")
  BY DEF Rank, Source
<1>4. Fair(p) BY <1>2 DEF CarryOver, Fair, Outranks
<1>5. <<n, "category">> \in facts => p.category = None
  <2>1. <<n, "category">> \in facts => owner[n] = "user" BY DEF ChoicesSurvive
  <2> QED BY <1>2, <1>3, <2>1 DEF CarryOver
<1>6. <<o, "category">> \in facts =>
          p.category = "user" \/ (p.category = None /\ owner[n] = "user")
  <2>1. <<o, "category">> \in facts => owner[o] = "user" BY DEF ChoicesSurvive
  <2> QED BY <1>2, <1>3, <2>1 DEF CarryOver
<1>7. <<o, "year">> \in facts => p.year \/ "year" \in extras[n]
  BY DEF ChoicesSurvive, CarryOver
<1> QED BY <1>4, <1>5, <1>6, <1>7 DEF CarryOver

LEMMA PlanKeeps ==
    ASSUME CountInv, ChoiceInv, NEW old \in Account, NEW new \in Account, NEW fallback,
           Plan(old, new, fallback)
    PROVE  ChoiceInv'
<1>1. UNCHANGED <<home, owner, author, extras, facts>> BY DEF Plan, bank, told
<1>2. PICK ps, moves :
        /\ ps \subseteq On(old) \X On(new) /\ NoneTwice(ps)
        /\ merge' = [op |-> "planned", old |-> old, new |-> new,
                     pairs |-> {CarryOver(p[1], p[2]) : p \in ps}, moves |-> moves]
  BY PlanPairs
<1>3. merge'.op = "planned" /\ merge'.pairs = {CarryOver(p[1], p[2]) : p \in ps} BY <1>2
<1>4. old # new BY PlanPairs
<1>5. \A p \in ps : /\ p[1] \in Held /\ p[2] \in Held
                    /\ home[p[1]] = old /\ home[p[2]] = new
  BY <1>2, AccountAssumption DEF On, Held
<1>6. Held' = Held BY <1>1 DEF Held
<1>7. ASSUME NEW c \in merge'.pairs
      PROVE  /\ Fair(c) /\ Foreseen(c)'
             /\ \E p \in ps : c.old = p[1] /\ c.next = p[2] /\ c = CarryOver(p[1], p[2])
  <2>1. PICK p \in ps : c = CarryOver(p[1], p[2]) BY <1>3, <1>7
  <2>2. PICK o \in Held, n \in Held : o = p[1] /\ n = p[2] BY <1>5
  <2>3. TypeOfRows /\ ChoicesSurvive /\ c = CarryOver(o, n) BY <2>1, <2>2 DEF ChoiceInv
  <2>4. /\ Fair(c) /\ c.old = o /\ c.next = n
        /\ <<n, "category">> \in facts => c.category = None
        /\ <<o, "category">> \in facts =>
               c.category = "user" \/ (c.category = None /\ owner[n] = "user")
        /\ <<o, "year">> \in facts => c.year \/ "year" \in extras[n]
    BY <2>3, CarriesOver
  <2>5. Foreseen(c)' BY <1>1, <1>3, <2>4 DEF Foreseen
  <2> QED BY <2>1, <2>2, <2>4, <2>5
<1>8. \A c : Fair(c) => Fair(c)' BY <1>6 DEF Fair
<1>9. ASSUME NEW c \in merge'.pairs, NEW d \in merge'.pairs
      PROVE  c.old # d.next /\ (c.next = d.next => c = d)
  <2>1. PICK p \in ps : c.old = p[1] /\ c.next = p[2] /\ c = CarryOver(p[1], p[2]) BY <1>7
  <2>2. PICK q \in ps : d.old = q[1] /\ d.next = q[2] /\ d = CarryOver(q[1], q[2]) BY <1>7
  <2>3. c.old # d.next BY <1>4, <1>5, <2>1, <2>2
  <2>4. c.next = d.next => p = q BY <1>2, <2>1, <2>2 DEF NoneTwice
  <2> QED BY <2>1, <2>2, <2>3, <2>4
<1>10. Matched(merge'.pairs) BY <1>9 DEF Matched
<1>11. Matched(merge'.pairs) = Matched(merge.pairs)' BY DEF Matched
<1>12. TypeOfPlan' BY <1>7, <1>8, <1>10, <1>11 DEF TypeOfPlan
<1>13. PlanForesees' BY <1>7 DEF PlanForesees
<1>14. TypeOfRows' /\ ChoicesSurvive' BY <1>1, <1>6 DEF ChoiceInv, TypeOfRows, ChoicesSurvive
<1> QED BY <1>12, <1>13, <1>14 DEF ChoiceInv

LEMMA GatherKeeps == ASSUME ChoiceInv, Gather PROVE ChoiceInv'
<1>1. /\ merge.op = "planned" /\ merge'.op = "gathered" /\ merge'.pairs = merge.pairs
      /\ merge'.labelled = {p \in merge.pairs : "label" \in extras[p.old]}
      /\ UNCHANGED <<home, owner, author, extras, facts>>
  BY DEF Gather, bank, told
<1>2. Held' = Held /\ Underway BY <1>1 DEF Held, Underway
<1>3. \A p : Fair(p) => Fair(p)' BY <1>2 DEF Fair
<1>4. Matched(merge.pairs)' = Matched(merge.pairs) BY <1>1 DEF Matched
<1>5. TypeOfPlan' BY <1>1, <1>2, <1>3, <1>4 DEF ChoiceInv, TypeOfPlan
<1>6. ASSUME NEW p \in merge.pairs PROVE Foreseen(p)'
  <2>1. Foreseen(p) BY <1>2 DEF ChoiceInv, PlanForesees
  <2>2. <<p.old, "label">> \in facts => "label" \in extras[p.old]
    BY DEF ChoiceInv, ChoicesSurvive
  <2> QED BY <1>1, <2>1, <2>2 DEF Foreseen
<1>7. PlanForesees' BY <1>1, <1>6 DEF PlanForesees
<1>8. TypeOfRows' /\ ChoicesSurvive'
  BY <1>1, <1>2 DEF ChoiceInv, TypeOfRows, ChoicesSurvive
<1> QED BY <1>5, <1>7, <1>8 DEF ChoiceInv

\* Who stands for a row once its account is merged.
LEMMA Stands ==
    ASSUME NEW pairs, NEW r
    PROVE  \/ (\A p \in pairs : p.old # r) /\ Successor(pairs, r) = r
           \/ \E p \in pairs : p.old = r /\ Successor(pairs, r) = p.next
<1>1. CASE \E p \in pairs : p.old = r
  <2> DEFINE c == CHOOSE p \in pairs : p.old = r
  <2>1. c \in pairs /\ c.old = r BY <1>1
  <2>2. Successor(pairs, r) = c.next BY <1>1 DEF Successor
  <2> HIDE DEF c
  <2> QED BY <2>1, <2>2
<1> QED BY <1>1 DEF Successor

LEMMA CommitKeeps == ASSUME CountInv, ChoiceInv, Commit PROVE ChoiceInv'
<1> DEFINE pairs == merge.pairs
           gone == {p.old : p \in pairs}
           pairOf(r) == CHOOSE p \in pairs : p.next = r
           heirs == {p.next : p \in pairs}
<1>1. /\ merge.op = "gathered" /\ merge' = [op |-> "merged"]
      /\ home' = [r \in Row |-> IF r \in gone THEN None
                                ELSE IF r \in merge.moves \cap Held THEN merge.new ELSE home[r]]
      /\ owner' = [r \in Row |->
            IF r \in gone THEN "akahu"
            ELSE IF r \in heirs /\ pairOf(r).category # None THEN pairOf(r).category
            ELSE owner[r]]
      /\ extras' = [r \in Row |->
            IF r \in gone THEN {}
            ELSE extras[r] \cup {x \in {"year", "label"} : \E p \in pairs :
                    p.next = r /\ IF x = "year" THEN p.year ELSE p \in merge.labelled}]
      /\ author' \in [Row -> Source]
      /\ facts' = {f \in {<<Successor(pairs, f[1]), f[2]>> : f \in facts} : f[1] \in Held}
  BY DEF Commit
<1>2. /\ Matched(pairs) /\ merge.new # None
      /\ \A p \in pairs : Fair(p) /\ Foreseen(p)
  BY <1>1, AccountAssumption DEF CountInv, TypeOfMerge, ChoiceInv, TypeOfPlan, PlanForesees, Underway
<1>3. TypeOfRows /\ ChoicesSurvive BY DEF ChoiceInv
<1>4. ASSUME NEW p \in pairs
      PROVE  p.old \in Row /\ p.next \in Row /\ p.next \notin gone /\ pairOf(p.next) = p
  <2>1. p.old \in Row /\ p.next \in Row BY <1>2 DEF Fair, Held
  <2>2. p.next \notin gone BY <1>2 DEF Matched
  <2>3. pairOf(p.next) = p BY <1>2 DEF Matched
  <2> QED BY <2>1, <2>2, <2>3
<1>5. \A r \in heirs : pairOf(r) \in pairs /\ pairOf(r).next = r OBVIOUS
<1>6. \A r \in Held \ gone : r \in Held' BY <1>1, <1>2 DEF Held
<1>7. "akahu" \in Source /\ None # "user" BY RowAssumption DEF Source
<1> HIDE DEF pairs, gone, heirs, pairOf
<1>8. owner' \in [Row -> Source]
  <2>1. \A r \in heirs : pairOf(r).category \in Source \cup {None} BY <1>2, <1>5 DEF Fair
  <2> QED BY <1>1, <1>3, <1>7, <2>1 DEF TypeOfRows
<1>9. extras' \in [Row -> SUBSET {"year", "label"}] BY <1>1, <1>3 DEF TypeOfRows
<1>10. ASSUME NEW f \in facts'
       PROVE  /\ f \in Held' \X {"category", "year", "label"}
              /\ IF f[2] = "category" THEN owner'[f[1]] = "user" ELSE f[2] \in extras'[f[1]]
  <2>1. PICK g \in facts : f = <<Successor(pairs, g[1]), g[2]>> /\ f[1] \in Held BY <1>1
  <2>2. /\ g = <<g[1], g[2]>> /\ g[1] \in Held /\ g[1] \in Row
        /\ g[2] \in {"category", "year", "label"}
    BY <1>3 DEF TypeOfRows, Held
  <2>3. IF g[2] = "category" THEN owner[g[1]] = "user" ELSE g[2] \in extras[g[1]]
    BY <1>3 DEF ChoicesSurvive
  <2>4. ASSUME NEW p \in pairs, p.old = g[1], Successor(pairs, g[1]) = p.next
        PROVE  /\ p.next \in Held'
               /\ IF g[2] = "category" THEN owner'[p.next] = "user"
                                       ELSE g[2] \in extras'[p.next]
    <3>1. p.next \in Row /\ p.next \notin gone /\ pairOf(p.next) = p /\ p.next \in Held
      BY <1>2, <1>4 DEF Fair
    <3>2. p.next \in heirs BY DEF heirs
    <3>3. Foreseen(p) /\ <<p.old, g[2]>> \in facts BY <1>2, <2>2, <2>4
    <3>4. p.next \in Held' BY <1>6, <3>1
    <3>5. owner'[p.next] = IF p.category # None THEN p.category ELSE owner[p.next]
      BY <1>1, <3>1, <3>2
    <3>6. g[2] = "category" => owner'[p.next] = "user" BY <1>7, <3>3, <3>5 DEF Foreseen
    <3>7. g[2] = "year" => "year" \in extras'[p.next] BY <1>1, <3>1, <3>3 DEF Foreseen
    <3>8. g[2] = "label" => "label" \in extras'[p.next] BY <1>1, <3>1, <3>3 DEF Foreseen
    <3> QED BY <2>2, <3>4, <3>6, <3>7, <3>8
  <2>5. ASSUME \A p \in pairs : p.old # g[1]
        PROVE  /\ g[1] \in Held'
               /\ IF g[2] = "category" THEN owner'[g[1]] = "user" ELSE g[2] \in extras'[g[1]]
    <3>1. g[1] \notin gone BY <2>5 DEF gone
    <3>2. g[1] \in heirs => /\ pairOf(g[1]) \in pairs /\ pairOf(g[1]).next = g[1]
                            /\ Foreseen(pairOf(g[1]))
      BY <1>2, <1>5
    <3>3. owner'[g[1]] = IF g[1] \in heirs /\ pairOf(g[1]).category # None
                         THEN pairOf(g[1]).category ELSE owner[g[1]]
      BY <1>1, <2>2, <3>1
    <3>4. g[2] = "category" => owner'[g[1]] = "user"
      <4>1. g[2] = "category" => <<g[1], "category">> \in facts BY <2>2
      <4> QED BY <2>3, <3>2, <3>3, <4>1 DEF Foreseen
    <3>5. extras[g[1]] \subseteq extras'[g[1]] BY <1>1, <2>2, <3>1
    <3> QED BY <1>6, <2>2, <2>3, <3>1, <3>4, <3>5
  <2>6. f[1] = Successor(pairs, g[1]) /\ f[2] = g[2] BY <2>1
  <2>7. CASE \E p \in pairs : p.old = g[1] /\ Successor(pairs, g[1]) = p.next
    <3>1. PICK p \in pairs : p.old = g[1] /\ Successor(pairs, g[1]) = p.next BY <2>7
    <3> QED BY <2>1, <2>2, <2>4, <2>6, <3>1
  <2>8. CASE (\A p \in pairs : p.old # g[1]) /\ Successor(pairs, g[1]) = g[1]
    BY <2>1, <2>2, <2>5, <2>6, <2>8
  <2> QED BY <2>7, <2>8, Stands
<1>11. TypeOfRows' BY <1>1, <1>8, <1>9, <1>10 DEF TypeOfRows
<1>12. ChoicesSurvive' BY <1>10 DEF ChoicesSurvive
<1>13. TypeOfPlan' /\ PlanForesees' BY <1>1 DEF TypeOfPlan, PlanForesees, Underway
<1> QED BY <1>11, <1>12, <1>13 DEF ChoiceInv

-----------------------------------------------------------------------------
\* Linking logs who linked, and touches no choice.
LEMMA LinkingKeeps ==
    ASSUME ChoiceInv, Sync \/ People \/ (\E a \in Actor : LinkWrite(a) \/ LinkFails(a)), CountInv
    PROVE  ChoiceInv'
<1>1. author \in [Row -> Source] /\ "user" \in Source BY DEF ChoiceInv, TypeOfRows, Source
<1>2. \A rows : Logs(rows, "user") => author' \in [Row -> Source] BY <1>1 DEF Logs
<1>3. UNCHANGED home => Held' = Held BY DEF Held
<1>4. CASE Sync
  <2>1. Held \subseteq Held'
    BY <1>4, AccountAssumption DEF Sync, SyncBegins, SyncEnds, SyncRow, bank, Held, CountInv,
       TypeOfHome
  <2>2. UNCHANGED <<owner, extras, facts, merge, author>>
    BY <1>4 DEF Sync, SyncBegins, SyncEnds, SyncRow, bank, told, runs
  <2> QED BY <1>1, <2>1, <2>2, ChoiceElsewhere
<1>5. CASE People
  <2>1. UNCHANGED <<home, owner, extras, facts, merge>>
    BY <1>5 DEF People, PersonLinks, UnlinkRead, BulkRead, UnlinkWrite, BulkWrite, bank, told, runs
  <2>2. author' = author \/ \E rows : Logs(rows, "user")
    BY <1>5 DEF People, PersonLinks, UnlinkRead, BulkRead, UnlinkWrite, BulkWrite
  <2> QED BY <1>1, <1>2, <1>3, <2>1, <2>2, ChoiceElsewhere
<1>6. ASSUME NEW a \in Actor, LinkWrite(a) \/ LinkFails(a) PROVE ChoiceInv'
  <2>1. UNCHANGED <<home, owner, extras, facts, merge>>
    BY <1>6 DEF LinkWrite, LinkFails, bank, told, runs
  <2>2. author' = author \/ \E rows : Logs(rows, "user")
    BY <1>6 DEF LinkWrite, LinkFails
  <2> QED BY <1>1, <1>2, <1>3, <2>1, <2>2, ChoiceElsewhere
<1> QED BY <1>4, <1>5, <1>6

LEMMA RulesPassKeeps == ASSUME ChoiceInv, RulesPass PROVE ChoiceInv'
<1>1. author \in [Row -> Source] /\ "rule" \in Source BY DEF ChoiceInv, TypeOfRows, Source
<1>2. UNCHANGED home => Held' = Held BY DEF Held
<1>3. CASE PassBegins \/ \E r \in Row : AutoLink(r)
  <2>1. UNCHANGED <<home, owner, extras, facts, merge, author>>
    BY <1>3 DEF PassBegins, AutoLink, bank, told, runs
  <2> QED BY <1>1, <1>2, <2>1, ChoiceElsewhere
<1>4. ASSUME NEW logged, PassEnds(logged) PROVE ChoiceInv'
  <2>1. UNCHANGED <<home, owner, extras, facts, merge>> BY <1>4 DEF PassEnds, bank, told
  <2>2. author' \in [Row -> Source] BY <1>1, <1>4 DEF PassEnds, Logs
  <2> QED BY <1>2, <2>1, <2>2, ChoiceElsewhere
<1>5. ASSUME NEW r \in Edited, RuleSets(r) PROVE ChoiceInv'
  <2>1. r \in Row BY <1>5 DEF RuleSets, Held
  <2> QED BY <1>5, <2>1, RuleSetsKeeps
<1> QED BY <1>3, <1>4, <1>5 DEF RulesPass

LEMMA EditingKeeps == ASSUME ChoiceInv, Editing PROVE ChoiceInv'
<1>1. PICK r \in Edited : \/ SetCategory(r)
                          \/ \E f \in {"year", "label"} : Annotate(r, f) \/ Erase(r, f)
  BY DEF Editing
<1>2. r \in Row BY <1>1 DEF SetCategory, Annotate, Erase, Held
<1> QED BY <1>1, <1>2, SetCategoryKeeps, AnnotateKeeps, EraseKeeps

LEMMA MergeKeeps == ASSUME CountInv, ChoiceInv, Merge PROVE ChoiceInv'
<1>1. ASSUME NEW p \in Proposed \cup Pairs, NEW fallback, Plan(p[1], p[2], fallback)
      PROVE  ChoiceInv'
  <2>1. p[1] \in Account /\ p[2] \in Account BY AccountAssumption DEF Proposed
  <2> QED BY <1>1, <2>1, PlanKeeps
<1>2. CASE FindSingles \/ Prune \/ MergeStops
  <2>1. UNCHANGED <<home, owner, author, extras, facts>> /\ ~Underway'
    BY <1>2 DEF FindSingles, Prune, MergeStops, bank, told, Underway, Idle
  <2> QED BY <2>1, ChoiceOver
<1>3. ASSUME NEW a \in Account, Undo(a) PROVE ChoiceInv'
  <2>1. author \in [Row -> Source] BY DEF ChoiceInv, TypeOfRows
  <2>2. UNCHANGED <<home, owner, extras, facts, merge, author>> BY <1>3 DEF Undo, runs
  <2>3. Held' = Held BY <2>2 DEF Held
  <2> QED BY <2>1, <2>2, <2>3, ChoiceElsewhere
<1> QED BY <1>1, <1>2, <1>3, GatherKeeps, CommitKeeps DEF Merge

\* The strengthened invariant holds throughout.
THEOREM ChoiceInvariant == Spec => []ChoiceInv
<1>1. ASSUME CountInv, ChoiceInv, [Next]_vars PROVE ChoiceInv'
  <2>1. CASE Next
    BY <1>1, <2>1, LinkingKeeps, RulesPassKeeps, EditingKeeps, MergeKeeps DEF Next
  <2>2. CASE UNCHANGED vars
    <3>1. UNCHANGED <<home, owner, extras, facts, merge, author>>
      BY <2>2 DEF vars, bank, told, runs
    <3>2. Held' = Held /\ author' \in [Row -> Source]
      BY <1>1, <3>1 DEF Held, ChoiceInv, TypeOfRows
    <3> QED BY <1>1, <3>1, <3>2, ChoiceElsewhere
  <2> QED BY <1>1, <2>1, <2>2
<1> QED BY <1>1, ChoicesHold, CountInvariant, PTL DEF Spec

\* What a person set on a row is there after any number of merges, on the row
\* that stands for it: for any rows, accounts, plans and edits in between
\* (accounts/supersede.ts).
THEOREM Survive == Spec => []ChoicesSurvive
<1>1. ChoiceInv => ChoicesSurvive BY DEF ChoiceInv
<1> QED BY <1>1, ChoiceInvariant, PTL

-----------------------------------------------------------------------------
(* What people link stays linked.                                            *)

\* No row is in a group that is gone, or is gone and still in a group.
Attached == \A r \in Row : group[r] # None => group[r] \in groups /\ r \in Held
VowsOfRows == \A v \in vows : v # {} /\ v \subseteq Row
\* A row a person has linked was in a group when the plan read it.
Vowing(p) == \A v \in vows : p.next \in v => p.was[2] # None
PlanVows == Underway => \A p \in merge.pairs : Vowing(p)

VowInv == Attached /\ VowsOfRows /\ VowsKept /\ PlanVows

LEMMA VowsBegin == Init => VowInv
BY DEF Init, VowInv, Attached, VowsOfRows, VowsKept, PlanVows, Underway, Idle

LEMMA VowElsewhere ==
    ASSUME VowInv, Held \subseteq Held', UNCHANGED links, PlanVows' PROVE VowInv'
<1>1. \A g : Legs(g) \subseteq Legs(g)' BY DEF Legs, links
<1>2. Attached' BY DEF VowInv, Attached, links
<1>3. VowsOfRows' BY DEF VowInv, VowsOfRows, links
<1>4. VowsKept' BY <1>1 DEF VowInv, VowsKept, links
<1> QED BY <1>2, <1>3, <1>4 DEF VowInv

LEMMA SamePlanVows == ASSUME PlanVows, UNCHANGED <<links, merge>> PROVE PlanVows'
BY DEF PlanVows, Underway, Vowing, links

\* A write from an old read leaves a link it did not see alone: a row it finds in
\* a group it had read loose breaks the links it was in, and a group is folded
\* whole.
LEMMA MovesVows ==
    ASSUME VowInv, TypeOfGroups, UNCHANGED <<home, merge>>,
           NEW moved \in SUBSET Row, NEW whole, NEW g \in 1..(minted + 1), NEW seen, NEW pairs,
           Moves(moved, whole, g, seen), g \notin whole, None \notin whole,
           \A r \in moved : seen[r] = None,
           \/ g \in groups \/ g = minted + 1
           \/ moved \cap Held = {} /\ \A r \in Held : group[r] \notin whole,
           vows' = (vows \ Broken(moved, seen)) \cup Vowed(pairs, g),
           \A v \in pairs : v # {} /\ v \subseteq Row
    PROVE  VowInv'
<1> DEFINE all == (moved \cap Held) \cup {r \in Held : group[r] \in whole}
<1>1. /\ group' = [r \in Row |-> IF r \in all THEN g ELSE group[r]]
      /\ groups' = (groups \cup ({g} \ 1..minted)) \ whole
  BY DEF Moves
<1>2. Held' = Held /\ Held \subseteq Row /\ g # None BY RowAssumption DEF Held, TypeOfGroups
<1>3. \A r \in all : g \in groups' BY <1>1 DEF TypeOfGroups
<1>4. \A r \in Row : /\ r \in all => r \in Held /\ group'[r] = g
                     /\ r \notin all => group'[r] = group[r]
  BY <1>1, <1>2
<1>5. \A r \in Held : r \notin all => group[r] \notin whole OBVIOUS
<1>6. \A r \in all : r \in moved \/ group[r] \in whole OBVIOUS
<1>7. \A r \in Held : group[r] \in whole => r \in all OBVIOUS
<1> HIDE DEF all
<1>8. Attached'
  <2>1. SUFFICES ASSUME NEW r \in Row, group'[r] # None PROVE group'[r] \in groups' /\ r \in Held'
    BY DEF Attached
  <2>2. CASE r \in all BY <1>2, <1>3, <1>4, <2>2
  <2>3. CASE r \notin all
    <3>1. group[r] \in groups /\ r \in Held BY <1>4, <2>1, <2>3 DEF VowInv, Attached
    <3> QED BY <1>1, <1>2, <1>4, <1>5, <2>3, <3>1
  <2> QED BY <2>2, <2>3
<1>9. ASSUME NEW v \in vows' PROVE v \in vows \ Broken(moved, seen) \/ v \in Vowed(pairs, g)
  BY <1>9
<1>10. VowsOfRows' BY <1>9 DEF VowInv, VowsOfRows, Vowed
<1>11. ASSUME NEW v \in vows' PROVE \E h \in groups' : v \subseteq Legs(h)'
  <2>1. v # {} /\ v \subseteq Row BY <1>10, <1>11 DEF VowsOfRows
  <2>2. CASE v \in vows \ Broken(moved, seen)
    <3>1. PICK h \in groups : v \subseteq Legs(h) BY <2>2 DEF VowInv, VowsKept
    <3>2. h # None BY RowAssumption DEF TypeOfGroups
    <3>3. \A r \in v : r \in Held /\ r \in Row /\ group[r] = h BY <2>1, <3>1 DEF Legs
    <3>4. \A r \in v : r \notin moved BY <2>2, <3>2, <3>3 DEF Broken
    <3>5. CASE h \in whole
      <4>1. \A r \in v : r \in all BY <1>7, <3>3, <3>5
      <4>2. v \subseteq Legs(g)' BY <1>2, <1>4, <3>3, <4>1 DEF Legs
      <4> QED BY <1>3, <2>1, <4>1, <4>2
    <3>6. CASE h \notin whole
      <4>1. \A r \in v : r \notin all BY <1>6, <3>3, <3>4, <3>6
      <4>2. v \subseteq Legs(h)' BY <1>2, <1>4, <3>3, <4>1 DEF Legs
      <4>3. h \in groups' BY <1>1, <3>6
      <4> QED BY <4>2, <4>3
    <3> QED BY <3>5, <3>6
  <2>3. CASE v \in Vowed(pairs, g)
    <3>1. \A r \in v : group'[r] = g BY <2>3 DEF Vowed
    <3>2. \A r \in v : g \in groups' /\ r \in Held' BY <1>2, <1>8, <2>1, <3>1 DEF Attached
    <3>3. v \subseteq Legs(g)' BY <3>1, <3>2 DEF Legs
    <3> QED BY <2>1, <3>2, <3>3
  <2> QED BY <1>9, <1>11, <2>2, <2>3
<1>12. VowsKept' BY <1>11 DEF VowsKept
<1>13. PlanVows'
  <2>1. SUFFICES ASSUME Underway', NEW p \in merge'.pairs, NEW v \in vows', p.next \in v
                 PROVE  p.was[2] # None
    BY DEF PlanVows, Vowing
  <2>2. Underway /\ p \in merge.pairs /\ p \in Planned BY <2>1 DEF Underway, Planned
  <2>3. v \in vows BY <1>9, <2>1, <2>2 DEF Vowed
  <2> QED BY <2>1, <2>2, <2>3 DEF VowInv, PlanVows, Vowing
<1> QED BY <1>8, <1>10, <1>12, <1>13 DEF VowInv

LEMMA LinkWriteVows == ASSUME LegInv, VowInv, NEW a \in Actor, LinkWrite(a) PROVE VowInv'
<1> DEFINE q == request[a]
           s == q.source
           t == q.target
           seen == q.seen
           g == Chosen(q.seen[s], q.seen[t])
           folded == {q.seen[t]} \ {None, g}
           moved == {r \in {s, t} : q.seen[r] = None}
           pairs == IF a = Rules THEN {} ELSE {{s, t}}
<1>1. /\ q.op = "link" /\ UNCHANGED <<home, merge>>
      /\ \/ g \in groups \/ g = minted + 1
         \/ moved \cap Held = {} /\ folded = {}
      /\ Moves(moved, folded, g, seen)
  BY DEF LinkWrite, bank
<1>2. vows' = (vows \ Broken(moved, seen)) \cup Vowed(pairs, g)
  <2>1. CASE a = Rules
    <3>1. vows' = vows \ Broken(moved, seen) BY <2>1 DEF LinkWrite
    <3>2. pairs = {} BY <2>1
    <3> HIDE DEF pairs
    <3> QED BY <3>1, <3>2 DEF Vowed
  <2>2. CASE a # Rules BY <2>2 DEF LinkWrite
  <2> QED BY <2>1, <2>2
<1>3. /\ s \in Row /\ t \in Row
      /\ q.seen[s] \in Known(minted) /\ q.seen[t] \in Known(minted)
  BY <1>1 DEF LegInv, TypeOfRequests, Asked
<1>4. TypeOfGroups /\ minted \in Nat BY DEF LegInv, TypeOfGroups
<1>5. g \in 1..(minted + 1) BY <1>3, <1>4, ChosenKnown
<1>6. moved \in SUBSET Row /\ g \notin folded /\ None \notin folded BY <1>3
<1>7. \A r \in moved : seen[r] = None OBVIOUS
<1>8. \A v \in pairs : v # {} /\ v \subseteq Row BY <1>3
<1> HIDE DEF g, folded, moved, seen, pairs
<1> QED BY <1>1, <1>2, <1>4, <1>5, <1>6, <1>7, <1>8, MovesVows

LEMMA BulkWriteVows == ASSUME LegInv, VowInv, NEW p \in Person, BulkWrite(p) PROVE VowInv'
<1> DEFINE q == request[p]
           seen == q.seen
           anchor == Oldest(q.rows)
           loose == {r \in q.rows : q.seen[r] = None}
           met == {q.seen[r] : r \in q.rows \ loose}
           joined == {r \in q.rows \ {anchor} :
                         q.seen[anchor] = None \/ q.seen[r] # q.seen[anchor]}
           first == Oldest(q.rows \ loose)
           other == IF met = {} THEN None ELSE q.seen[first]
           g == Chosen(q.seen[anchor], other)
           whole == met \ {g}
           pairs == {{anchor, r} : r \in joined}
<1>1. /\ q.op = "bulk" /\ UNCHANGED <<home, merge>>
      /\ \/ g \in groups \/ g = minted + 1
         \/ loose \cap Held = {} /\ \A r \in Held : group[r] \notin whole
      /\ Moves(loose, whole, g, seen)
      /\ vows' = (vows \ Broken(loose, seen)) \cup Vowed(pairs, g)
  BY DEF BulkWrite, bank, runs
<1>2. p \in Actor BY DEF Actor
<1>3. q.rows \subseteq Row /\ Two(q.rows) /\ \A r \in q.rows : q.seen[r] \in Known(minted)
  BY <1>1, <1>2 DEF LegInv, TypeOfRequests, Asked
<1>4. TypeOfGroups /\ minted \in Nat BY DEF LegInv, TypeOfGroups
<1>5. anchor \in q.rows BY <1>3, OldestIsThere DEF Two
<1>6. met # {} => first \in q.rows
  <2>1. SUFFICES ASSUME met # {} PROVE first \in q.rows OBVIOUS
  <2>2. q.rows \ loose # {} /\ q.rows \ loose \in SUBSET Row BY <1>3, <2>1
  <2>3. first \in q.rows \ loose BY <2>2, OldestIsThere
  <2> QED BY <2>3
<1>7. q.seen[anchor] \in Known(minted) /\ other \in Known(minted)
  BY <1>3, <1>5, <1>6 DEF Known
<1>8. g \in 1..(minted + 1)
  <2> DEFINE chosen == q.seen[anchor]
  <2>1. chosen \in Known(minted) BY <1>7
  <2> HIDE DEF chosen, other
  <2>2. Chosen(chosen, other) \in 1..(minted + 1) BY <1>4, <1>7, <2>1, ChosenKnown
  <2> QED BY <2>2 DEF chosen
<1>9. \A r \in loose : seen[r] = None OBVIOUS
<1>10. loose \in SUBSET Row /\ g \notin whole /\ None \notin whole BY <1>3
<1>11. \A v \in pairs : v # {} /\ v \subseteq Row BY <1>3, <1>5
<1> HIDE DEF g, whole, loose, seen, pairs
<1> QED BY <1>1, <1>4, <1>8, <1>9, <1>10, <1>11, MovesVows

\* What an unlinking frees is no longer vowed, and it frees a group it deletes.
LEMMA UnlinkWriteVows == ASSUME LegInv, VowInv, NEW p \in Person, UnlinkWrite(p) PROVE VowInv'
<1> DEFINE q == request[p]
           releases == Releases(q.others)
           freed == {q.source} \cup (IF releases THEN Legs(q.from) ELSE {})
<1>1. /\ group' = [r \in Row |-> IF r \in freed THEN None ELSE group[r]]
      /\ groups' = IF releases THEN groups \ {q.from} ELSE groups
      /\ vows' = {v \in vows : v \cap freed = {}}
      /\ UNCHANGED <<home, merge>>
  BY DEF UnlinkWrite, bank, runs
<1>2. Held' = Held /\ Held \subseteq Row BY <1>1 DEF Held
<1>3. \A r \in Held : releases /\ group[r] = q.from => r \in freed BY DEF Legs
<1> HIDE DEF freed, releases
<1>4. Attached' BY <1>1, <1>2, <1>3 DEF VowInv, Attached
<1>5. VowsOfRows' BY <1>1 DEF VowInv, VowsOfRows
<1>6. ASSUME NEW v \in vows' PROVE \E h \in groups' : v \subseteq Legs(h)'
  <2>1. v \in vows /\ v # {} /\ v \subseteq Row /\ v \cap freed = {}
    BY <1>1, <1>6 DEF VowInv, VowsOfRows
  <2>2. PICK h \in groups : v \subseteq Legs(h) BY <2>1 DEF VowInv, VowsKept
  <2>3. \A r \in v : r \in Held /\ group[r] = h /\ group'[r] = h
    BY <1>1, <2>1, <2>2 DEF Legs
  <2>4. h \in groups' BY <1>1, <1>3, <2>1, <2>3
  <2>5. v \subseteq Legs(h)' BY <1>2, <2>3 DEF Legs
  <2> QED BY <2>4, <2>5
<1>7. VowsKept' BY <1>6 DEF VowsKept
<1>8. PlanVows' BY <1>1 DEF VowInv, PlanVows, Underway, Vowing
<1> QED BY <1>4, <1>5, <1>7, <1>8 DEF VowInv

LEMMA PruneVows == ASSUME VowInv, Prune PROVE VowInv'
<1>1. /\ groups' = groups \ merge.single /\ merge' = Idle
      /\ group' = [r \in Row |-> IF group[r] \in merge.single THEN None ELSE group[r]]
      /\ vows' = {v \in vows : \A r \in v : group[r] \notin merge.single}
      /\ UNCHANGED home
  BY DEF Prune, bank
<1>2. Held' = Held /\ Held \subseteq Row BY <1>1 DEF Held
<1>3. Attached' BY <1>1, <1>2 DEF VowInv, Attached
<1>4. VowsOfRows' BY <1>1 DEF VowInv, VowsOfRows
<1>5. ASSUME NEW v \in vows' PROVE \E h \in groups' : v \subseteq Legs(h)'
  <2>1. /\ v \in vows /\ v # {} /\ v \subseteq Row
        /\ \A r \in v : group[r] \notin merge.single
    BY <1>1, <1>5 DEF VowInv, VowsOfRows
  <2>2. PICK h \in groups : v \subseteq Legs(h) BY <2>1 DEF VowInv, VowsKept
  <2>3. \A r \in v : r \in Held /\ group[r] = h /\ group'[r] = h
    BY <1>1, <2>1, <2>2 DEF Legs
  <2>4. h \in groups' BY <1>1, <2>1, <2>3
  <2>5. v \subseteq Legs(h)' BY <1>2, <2>3 DEF Legs
  <2> QED BY <2>4, <2>5
<1>6. VowsKept' BY <1>5 DEF VowsKept
<1>7. PlanVows' BY <1>1 DEF PlanVows, Underway, Idle
<1> QED BY <1>3, <1>4, <1>6, <1>7 DEF VowInv

LEMMA PlanVowsBegin ==
    ASSUME LegInv, VowInv, NEW old \in Account, NEW new \in Account, NEW fallback,
           Plan(old, new, fallback)
    PROVE  VowInv'
<1>1. UNCHANGED <<home, links>> BY DEF Plan, bank
<1>2. PICK ps, moves :
        merge' = [op |-> "planned", old |-> old, new |-> new,
                  pairs |-> {CarryOver(p[1], p[2]) : p \in ps}, moves |-> moves]
  BY PlanPairs
<1>3. ASSUME NEW c \in merge'.pairs, NEW v \in vows, c.next \in v PROVE c.was[2] # None
  <2>1. PICK p \in ps : c = CarryOver(p[1], p[2]) BY <1>2, <1>3
  <2>2. c.was[2] = group[c.next] BY <2>1 DEF CarryOver
  <2>3. group[c.next] \in groups BY <1>3 DEF VowInv, VowsKept, Legs
  <2>4. groups \subseteq Nat BY DEF LegInv, TypeOfGroups
  <2>5. None \notin groups BY RowAssumption, <2>4
  <2> QED BY <2>2, <2>3, <2>5
<1>4. PlanVows' BY <1>1, <1>3 DEF PlanVows, Vowing, links
<1>5. Held' = Held BY <1>1 DEF Held
<1> QED BY <1>1, <1>4, <1>5, VowElsewhere

\* The merge carries a person's link to the successor, and overrules none.
LEMMA CommitVows ==
    ASSUME CountInv, LegInv, ChoiceInv, VowInv, Commit PROVE VowInv'
<1> DEFINE pairs == merge.pairs
           gone == {p.old : p \in pairs}
           pairOf(r) == CHOOSE p \in pairs : p.next = r
           relinked == {p.next : p \in {q \in pairs : q.link # None}}
           grp == [r \in Row |-> IF r \in gone THEN None
                                 ELSE IF r \in relinked THEN pairOf(r).link
                                 ELSE group[r]]
<1>1. /\ merge.op = "gathered" /\ ~Refused /\ merge' = [op |-> "merged"]
      /\ home' = [r \in Row |-> IF r \in gone THEN None
                                ELSE IF r \in merge.moves \cap Held THEN merge.new ELSE home[r]]
      /\ group' = grp /\ UNCHANGED groups
      /\ vows' = {v \in {{Successor(pairs, r) : r \in w} : w \in {w \in vows :
                        \A p \in pairs : Survives(w, p)}} : Cardinality(v) = 2}
  BY DEF Commit
<1>2. /\ Matched(pairs) /\ merge.new # None
      /\ \A p \in pairs : Fair(p) /\ Vowing(p)
  BY <1>1, AccountAssumption
  DEF CountInv, TypeOfMerge, ChoiceInv, TypeOfPlan, VowInv, PlanVows, Underway
<1>3. \A p \in pairs : p.link # None => p.link \in groups BY <1>1 DEF Refused
<1>4. None \notin groups
  <2>1. groups \subseteq Nat BY DEF LegInv, TypeOfGroups
  <2> QED BY RowAssumption, <2>1
<1>5. ASSUME NEW p \in pairs
      PROVE  /\ p.old \in Held /\ p.next \in Held /\ p.next \in Row /\ p.next \notin gone
             /\ group'[p.next] = IF p.link # None THEN p.link ELSE group[p.next]
  <2>1. p.old \in Held /\ p.next \in Held /\ p.next \in Row BY <1>2 DEF Fair, Held
  <2>2. p.next \notin gone BY <1>2 DEF Matched
  <2>3. pairOf(p.next) = p BY <1>2 DEF Matched
  <2>4. p.next \in relinked <=> p.link # None BY <1>2 DEF Matched
  <2> HIDE DEF pairOf, relinked, gone
  <2> QED BY <1>1, <2>1, <2>2, <2>3, <2>4
<1>6. \A r \in Row : r \notin gone /\ (\A p \in pairs : p.next # r) => group'[r] = group[r]
  BY <1>1
<1>7. \A r \in Row : r \in gone => group'[r] = None BY <1>1
<1>8. \A r \in Held \ gone : r \in Held' BY <1>1, <1>2 DEF Held
<1> HIDE DEF pairs, gone, pairOf, relinked, grp
<1>9. Attached'
  <2>1. SUFFICES ASSUME NEW r \in Row, group'[r] # None PROVE group'[r] \in groups' /\ r \in Held'
    BY DEF Attached
  <2>2. r \notin gone BY <1>7, <2>1
  <2>3. CASE \E p \in pairs : p.next = r
    <3>1. PICK p \in pairs : p.next = r BY <2>3
    <3>2. r \in Held' BY <1>5, <1>8, <3>1
    <3>3. group'[r] \in groups
      <4>1. CASE p.link # None BY <1>3, <1>5, <3>1, <4>1
      <4>2. CASE p.link = None BY <1>5, <2>1, <3>1, <4>2 DEF VowInv, Attached
      <4> QED BY <4>1, <4>2
    <3> QED BY <1>1, <3>2, <3>3
  <2>4. CASE \A p \in pairs : p.next # r
    <3>1. group'[r] = group[r] BY <1>6, <2>2, <2>4
    <3>2. group[r] \in groups /\ r \in Held BY <2>1, <3>1 DEF VowInv, Attached
    <3> QED BY <1>1, <1>8, <2>2, <3>1, <3>2
  <2> QED BY <2>3, <2>4
\* What becomes of each leg of a link that goes on.
<1>10. ASSUME NEW w \in vows, \A p \in pairs : Survives(w, p), NEW h \in groups,
              w \subseteq Legs(h), NEW r \in w
       PROVE  LET x == Successor(pairs, r) IN x \in Row /\ x \in Held' /\ group'[x] = h
  <2>1. r \in Row /\ r \in Held /\ group[r] = h /\ h # None
    BY <1>4, <1>10 DEF Legs, Held
  <2>2. CASE \E p \in pairs : p.old = r /\ Successor(pairs, r) = p.next
    <3>1. PICK p \in pairs : p.old = r /\ Successor(pairs, r) = p.next BY <2>2
    <3>2. /\ p.was = <<group[p.old], group[p.next]>>
          /\ p.by = "user" /\ p.rival # "user"
      BY <1>10, <3>1 DEF Survives
    <3>3. p.was[1] = h /\ p.was[2] = group[p.next] BY <2>1, <3>1, <3>2
    <3>4. p.rival \in Source /\ Fair(p) BY <1>2 DEF Fair
    <3>5. Rank(p.by) > Rank(p.rival) BY <3>2, <3>4 DEF Rank, Source
    <3>6. p.link = IF h # group[p.next] THEN h ELSE None BY <2>1, <3>3, <3>4, <3>5 DEF Fair
    <3>7. group'[p.next] = h BY <1>5, <2>1, <3>6
    <3>8. p.next \in Row /\ p.next \in Held' BY <1>5, <1>8
    <3> QED BY <3>1, <3>7, <3>8
  <2>3. CASE (\A p \in pairs : p.old # r) /\ Successor(pairs, r) = r
    <3>1. r \notin gone BY <2>3 DEF gone
    <3>2. r \in Held' BY <1>8, <2>1, <3>1
    <3>3. CASE \E p \in pairs : p.next = r
      <4>1. PICK p \in pairs : p.next = r BY <3>3
      <4>2. p.link = None \/ p.rival = "user" BY <1>10, <4>1 DEF Survives
      <4>3. Fair(p) /\ p.was[2] # None BY <1>2, <1>10, <4>1 DEF Vowing
      <4>4. p.rival = "user" => ~(Rank(p.by) > Rank(p.rival)) BY <4>3 DEF Fair, Rank, Source
      <4>5. p.link = None BY <4>2, <4>3, <4>4 DEF Fair
      <4>6. group'[r] = h BY <1>5, <2>1, <4>1, <4>5
      <4> QED BY <2>1, <2>3, <3>2, <4>6
    <3>4. CASE \A p \in pairs : p.next # r
      BY <1>6, <2>1, <2>3, <3>1, <3>2, <3>4
    <3> QED BY <3>3, <3>4
  <2> QED BY <2>2, <2>3, Stands
<1>11. ASSUME NEW v \in vows'
       PROVE  v # {} /\ v \subseteq Row /\ \E h \in groups' : v \subseteq Legs(h)'
  <2>1. PICK w \in vows : /\ v = {Successor(pairs, r) : r \in w}
                          /\ \A p \in pairs : Survives(w, p)
    BY <1>1, <1>11
  <2>2. w # {} BY DEF VowInv, VowsOfRows
  <2>3. PICK h \in groups : w \subseteq Legs(h) BY DEF VowInv, VowsKept
  <2>4. \A x \in v : x \in Row /\ x \in Held' /\ group'[x] = h BY <1>10, <2>1, <2>3
  <2>5. v \subseteq Legs(h)' BY <2>4 DEF Legs
  <2>6. v # {} BY <2>1, <2>2
  <2> QED BY <1>1, <2>4, <2>5, <2>6
<1>12. VowsOfRows' /\ VowsKept' BY <1>11 DEF VowsOfRows, VowsKept
<1>13. PlanVows' BY <1>1 DEF PlanVows, Underway
<1> QED BY <1>9, <1>12, <1>13 DEF VowInv

-----------------------------------------------------------------------------
\* What reads, or is not about links, keeps them.
LEMMA ReadingVows ==
    ASSUME CountInv, VowInv,
           \/ Sync \/ Editing \/ RulesPass
           \/ \E p \in Person : \/ \E pick \in Picks : PersonLinks(p, pick[1], pick[2])
                                \/ \E s \in Row : UnlinkRead(p, s)
                                \/ \E rows \in Batches : BulkRead(p, rows)
           \/ \E a \in Actor : LinkFails(a)
           \/ \E a \in Account : Undo(a)
    PROVE  VowInv'
<1>1. CASE Sync
  <2>1. Held \subseteq Held'
    BY <1>1, AccountAssumption DEF Sync, SyncBegins, SyncEnds, SyncRow, bank, Held, CountInv,
       TypeOfHome
  <2>2. UNCHANGED <<links, merge>> BY <1>1 DEF Sync, SyncBegins, SyncEnds, SyncRow, runs
  <2> QED BY <2>1, <2>2, SamePlanVows, VowElsewhere DEF VowInv
<1>2. CASE Editing
  <2>1. UNCHANGED <<home, links, merge>>
    BY <1>2 DEF Editing, SetCategory, Annotate, Erase, runs
  <2>2. Held' = Held BY <2>1 DEF Held
  <2> QED BY <2>1, <2>2, SamePlanVows, VowElsewhere DEF VowInv
<1>3. CASE RulesPass
  <2>1. UNCHANGED <<home, links, merge>>
    BY <1>3 DEF RulesPass, PassBegins, RuleSets, AutoLink, PassEnds, bank, runs
  <2>2. Held' = Held BY <2>1 DEF Held
  <2> QED BY <2>1, <2>2, SamePlanVows, VowElsewhere DEF VowInv
<1>4. ASSUME UNCHANGED <<home, links, merge>> PROVE VowInv'
  <2>1. Held' = Held BY <1>4 DEF Held
  <2> QED BY <1>4, <2>1, SamePlanVows, VowElsewhere DEF VowInv
<1>5. ASSUME NEW a, LinkFails(a) \/ Undo(a) PROVE VowInv'
  BY <1>4, <1>5 DEF LinkFails, Undo, bank, runs
<1>6. ASSUME NEW p \in Person,
             \/ \E pick \in Picks : PersonLinks(p, pick[1], pick[2])
             \/ \E s \in Row : UnlinkRead(p, s)
             \/ \E rows \in Batches : BulkRead(p, rows)
      PROVE  VowInv'
  BY <1>4, <1>6 DEF PersonLinks, UnlinkRead, BulkRead, bank, runs
<1> QED BY <1>1, <1>2, <1>3, <1>5, <1>6

LEMMA MergeVows ==
    ASSUME CountInv, LegInv, ChoiceInv, VowInv, Merge, \A a \in Account : ~Undo(a)
    PROVE  VowInv'
<1>1. ASSUME NEW p \in Proposed \cup Pairs, NEW fallback, Plan(p[1], p[2], fallback)
      PROVE  VowInv'
  <2>1. p[1] \in Account /\ p[2] \in Account BY AccountAssumption DEF Proposed
  <2> QED BY <1>1, <2>1, PlanVowsBegin
<1>2. CASE Gather \/ FindSingles \/ MergeStops
  <2>1. UNCHANGED <<home, links>> BY <1>2 DEF Gather, FindSingles, MergeStops, bank
  <2>2. Held' = Held BY <2>1 DEF Held
  <2>3. ~Underway' \/ (Underway /\ merge'.pairs = merge.pairs)
    BY <1>2 DEF Gather, FindSingles, MergeStops, Underway, Idle
  <2>4. PlanVows' BY <2>1, <2>3 DEF VowInv, PlanVows, Vowing, links
  <2> QED BY <2>1, <2>2, <2>4, VowElsewhere
<1> QED BY <1>1, <1>2, CommitVows, PruneVows DEF Merge

\* The strengthened invariant holds throughout.
THEOREM VowInvariant == Spec => []VowInv
<1>1. ASSUME CountInv, LegInv, ChoiceInv, VowInv, [Next]_vars PROVE VowInv'
  <2>1. CASE Next
    <3>1. CASE People
      BY <1>1, <3>1, ReadingVows, UnlinkWriteVows, BulkWriteVows DEF People
    <3>2. CASE Merge BY <1>1, <3>2, ReadingVows, MergeVows
    <3>3. CASE \E a \in Actor : LinkWrite(a) BY <1>1, <3>3, LinkWriteVows
    <3>4. CASE Sync \/ Editing \/ RulesPass \/ \E a \in Actor : LinkFails(a)
      BY <1>1, <3>4, ReadingVows
    <3> QED BY <2>1, <3>1, <3>2, <3>3, <3>4 DEF Next
  <2>2. CASE UNCHANGED vars
    <3>1. UNCHANGED <<home, links, merge>> BY <2>2 DEF vars, bank, runs
    <3>2. Held' = Held BY <3>1 DEF Held
    <3> QED BY <1>1, <3>1, <3>2, SamePlanVows, VowElsewhere DEF VowInv
  <2> QED BY <1>1, <2>1, <2>2
<1> QED BY <1>1, VowsBegin, CountInvariant, LegInvariant, ChoiceInvariant, PTL DEF Spec

\* Two rows a person linked stay one transfer, whatever links, passes, syncs and
\* merges come after, until a person unlinks one (matching/transfers.ts,
\* actions/transfer.ts, accounts/supersede.ts).
THEOREM VowsHold == Spec => []VowsKept
<1>1. VowInv => VowsKept BY DEF VowInv
<1> QED BY <1>1, VowInvariant, PTL
=============================================================================
