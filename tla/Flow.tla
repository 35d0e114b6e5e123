-------------------------------- MODULE Flow --------------------------------
(***************************************************************************)
(* The money-flow diagram of one period: who paid, what the income was,    *)
(* the groups it went out through, what it was spent on and who received   *)
(* it (metrics/comparison/sankey.ts), and where the boxes are drawn        *)
(* (ui/dashboard/sankey.tsx).                                              *)
(*                                                                         *)
(* A node is a record of its column, label, parent and value.  Positions   *)
(* are whole units, ten to a pixel.                                        *)
(***************************************************************************)
EXTENDS Reports

IncomeMerchant == 0  IncomeKind == 1  SpendGroup == 2  SpendKind == 3  SpendMerchant == 4
Columns == 0..4
OtherSources == "Other sources"
OtherIncome == "Other Income"
OtherOfGroup == "Other {group}"
OtherExpenses == "Other expenses"
Savings == "Savings"
OtherBuckets == {OtherSources, OtherIncome, OtherExpenses}

\* Per thousand of its column, a box below which a row is not named.
IncomeThreshold == 50
IncomeMerchantThreshold == 25
PerCategoryThreshold == 50
RightColumnThreshold == 15
MiddleColumnThreshold == 18
MerchantThreshold == 25
Below(value, share, total) == 1000 * value < share * total

Node(depth, label, parent, value) ==
    [depth |-> depth, label |-> label, parent |-> parent, value |-> value]
Link(from, to, value) == [source |-> from, target |-> to, value |-> value]
Values(nodes) == MapThenSumSet(LAMBDA n : n.value, nodes)

-----------------------------------------------------------------------------
(* Columns of rows too small to name folded away.  A pair is a node and the  *)
(* (group, label) rows it stands for.                                        *)

DrawnStated(entries) == SideTotal(entries, "in")
\* The stated total of a period counts labels that net below zero too.
DrawnTotal(entries) ==
    MapThenSumSet(LAMBDA l : Most(0, IncomeTotal(entries, l)), IncomeLabels(entries))

\* In what follows `drawn' is what nets above zero and `total' what that comes to.
IncomeNodesOf(entries, drawn, small) ==
    LET Rows(L) == {<<Unset, l>> : l \in L}
        rest == MapThenSumSet(LAMBDA l : IncomeTotal(entries, l), small)
    IN  {<<Node(IncomeKind, l, IncomeGroupOf(entries, l), IncomeTotal(entries, l)), Rows({l})>> :
            l \in drawn \ small}
        \cup (IF rest > 0 THEN {<<Node(IncomeKind, OtherIncome, Unset, rest), Rows(small)>>} ELSE {})
IncomeNodesDrawn(entries, drawn, total) ==
    IncomeNodesOf(entries, drawn,
                  {l \in drawn : Below(IncomeTotal(entries, l), IncomeThreshold, total)})
IncomeNodes(entries) ==
    IncomeNodesDrawn(entries, {l \in IncomeLabels(entries) : IncomeTotal(entries, l) > 0},
                     DrawnTotal(entries))

GroupsTotal(entries, groups) == MapThenSumSet(LAMBDA g : GroupTotal(entries, g), groups)
SpendGroupNodesOf(entries, drawn, small, rest) ==
    {Node(SpendGroup, g, Unset, GroupTotal(entries, g)) : g \in drawn \ small}
    \cup (IF rest > 0 THEN {Node(SpendGroup, OtherExpenses, Unset, rest)} ELSE {})
SpendGroupNodesDrawn(entries, drawn, small) ==
    SpendGroupNodesOf(entries, drawn, small, GroupsTotal(entries, small))
SpendGroupNodes(entries) ==
    LET Drawn(g) == GroupTotal(entries, g) > 0
        Small(g, total) == Below(GroupTotal(entries, g), MiddleColumnThreshold, total)
        Split(drawn, total) == SpendGroupNodesDrawn(entries, drawn, {g \in drawn : Small(g, total)})
        From(drawn) == Split(drawn, GroupsTotal(entries, drawn))
    IN  From({g \in GroupsIn(entries) : Drawn(g)})

SpendKindNodesOf(entries, groups, drawn, total) ==
    LET V(k) == SpendTotal(entries, k[1], k[2])
        Small(k) == \/ Below(V(k), PerCategoryThreshold, GroupTotal(entries, k[1]))
                    \/ Below(V(k), RightColumnThreshold, total)
        Rest(g) == {k \in drawn : k[1] = g.label /\ Small(k)}
    IN  {<<Node(SpendKind, k[2], k[1], V(k)), {k}>> : k \in {x \in drawn : ~Small(x)}}
        \cup {<<Node(SpendKind, OtherOfGroup, g.label, MapThenSumSet(V, Rest(g))), Rest(g)>> :
                 g \in {h \in groups : Rest(h) # {}}}
SpendKindNodes(entries, groups) ==
    LET Kinds == UNION {{<<g.label, l>> : l \in LabelsUnder(entries, g.label)} : g \in groups}
        V(k) == SpendTotal(entries, k[1], k[2])
        From(drawn) == SpendKindNodesOf(entries, groups, drawn, MapThenSumSet(V, drawn))
    IN  From({k \in Kinds : V(k) > 0})

\* What a node's rows were paid by, or paid to; a merchant that nets below zero in
\* a row is left out of it.
Traded(entries, side, rows, m) ==
    MapThenSumSet(LAMBDA k : Most(0, MerchantTotal(entries, side, k[1], k[2], m)), rows)

\* A merchant column: those worth naming, and on the income side a bucket of the rest.
MerchantLinksTo(entries, side, pairs, depth, bucket, named, others) ==
    LET Total(m) == MapThenSumSet(LAMBDA p : Traded(entries, side, p[2], m), pairs)
        Rest(p) == MapThenSumSet(LAMBDA m : Traded(entries, side, p[2], m), others)
        Join(p, n, v) == IF side = "in" THEN Link(n, p[1], v) ELSE Link(p[1], n, v)
        Met == {x \in pairs \X named : Traded(entries, side, x[1][2], x[2]) > 0}
    IN  {Join(x[1], Node(depth, x[2], Unset, Total(x[2])), Traded(entries, side, x[1][2], x[2])) :
            x \in Met}
        \cup {Join(p, Node(depth, bucket, Unset, MapThenSumSet(Rest, pairs)), Rest(p)) :
                 p \in {q \in pairs : bucket # Unset /\ Rest(q) > 0}}
MerchantLinks(entries, side, pairs, depth, share, bucket) ==
    LET Known == {e.merchant : e \in {x \in entries : x.side = side}}
        Total(m) == MapThenSumSet(LAMBDA p : Traded(entries, side, p[2], m), pairs)
        Worthy(known, column) == {m \in known \ {Unknown} : ~Below(Total(m), share, column)}
        To(known, named) ==
            MerchantLinksTo(entries, side, pairs, depth, bucket, named, known \ named)
        From(known) == To(known, Worthy(known, MapThenSumSet(Total, known)))
    IN  From(Known)

-----------------------------------------------------------------------------
(* The whole diagram.                                                        *)

CompareIncome(a, b) ==
    LET Rank(n) == CASE n.label = Savings -> 3
                     [] n.parent = PeriodicIncome -> 0
                     [] n.parent = OtherIncomeGroup -> 1
                     [] OTHER -> 2
    IN  Rank(a) < Rank(b) \/ (Rank(a) = Rank(b) /\ a.value > b.value)
CompareSpendGroup(a, b) ==
    LET Rank(n) == IF n.label = OtherExpenses THEN 2 ELSE IF n.label \in EssentialGroups THEN 0 ELSE 1
    IN  Rank(a) < Rank(b) \/ (Rank(a) = Rank(b) /\ a.value > b.value)

\* Each source in turn fills the targets in turn: where two stacks overlap.
Upto2(s, i) == MapThenSumSet(LAMBDA j : s[j].value, 1..i)
Allocated(sources, targets) ==
    LET Shared(i, j) == Least(Upto2(sources, i), Upto2(targets, j))
                        - Most(Upto2(sources, i - 1), Upto2(targets, j - 1))
    IN  {Link(sources[x[1]], targets[x[2]], Shared(x[1], x[2])) :
            x \in {y \in (DOMAIN sources) \X (DOMAIN targets) : Shared(y[1], y[2]) > 0}}

\* Savings funds a deficit from the left and takes a surplus on the right.
Fund(net) == IF net < 0 THEN {Node(IncomeKind, Savings, Unset, 0 - net)} ELSE {}
Surplus(sources, across, net) ==
    LET Unspent(n) == n.value - MapThenSumSet(LAMBDA k : k.value, {k \in across : k.source = n})
    IN  {Link(n, Node(SpendKind, Savings, Unset, net), Unspent(n)) :
            n \in {m \in Range(sources) : net > 0 /\ Unspent(m) > 0}}
GroupLinks(entries, kinds) ==
    {Link(Node(SpendGroup, p[1].parent, Unset, GroupTotal(entries, p[1].parent)), p[1], p[1].value) :
        p \in kinds}
FlowLinks(entries, income, kinds, sources, across, net) ==
    across
    \cup MerchantLinks(entries, "in", income, IncomeMerchant, IncomeMerchantThreshold, OtherSources)
    \cup Surplus(sources, across, net)
    \cup GroupLinks(entries, kinds)
    \cup MerchantLinks(entries, "out", kinds, SpendMerchant, MerchantThreshold, Unset)
FlowOf(own, links) ==
    [nodes |-> own \cup {k.source : k \in links} \cup {k.target : k \in links}, links |-> links]
FlowBetween(entries, income, groups, kinds, sources, net) ==
    FlowOf({p[1] : p \in income \cup kinds} \cup groups \cup Fund(net),
           FlowLinks(entries, income, kinds, sources,
                     Allocated(sources, SortSeq(Listed(groups), CompareSpendGroup)), net))
FlowAcross(entries, income, groups, kinds, net) ==
    FlowBetween(entries, income, groups, kinds,
                SortSeq(Listed({p[1] : p \in income} \cup Fund(net)), CompareIncome), net)
FlowSankey(entries) ==
    LET Kept(groups) == {g \in groups : g.label # OtherExpenses}
        Over(income, groups) == FlowAcross(entries, income, groups, SpendKindNodes(entries, Kept(groups)),
                                           DrawnTotal(entries) - Values(groups))
    IN  Over(IncomeNodes(entries), SpendGroupNodes(entries))

-----------------------------------------------------------------------------
(* Where it is drawn.                                                        *)

NodeGap == 180
SavingsMargin == 240
PlotHeight == 3000
Top == 120
SpaceAbove(n) == IF n.label = Savings THEN SavingsMargin ELSE 0

BucketRank(n) == IF n.label = Savings THEN 2 ELSE IF n.label \in OtherBuckets THEN 1 ELSE 0
\* A column in the lane of its neighbour: by the weighted place of what it trades with.
OrderByBarycenter(column, neighbour, links, near, far) ==
    LET Joined(n) == {k \in links : k[near] = n /\ k[far] \in Range(neighbour)}
        Weight(n) == MapThenSumSet(LAMBDA k : k.value, Joined(n))
        PlaceOf(n) == CHOOSE i \in DOMAIN neighbour : neighbour[i] = n
        Place(n) == IF Joined(n) = {} THEN 1000000
                    ELSE (1000 * MapThenSumSet(LAMBDA k : PlaceOf(k[far]) * k.value, Joined(n)))
                         \div Weight(n)
        Before(a, b) == \/ BucketRank(a) < BucketRank(b)
                        \/ BucketRank(a) = BucketRank(b) /\ Place(a) < Place(b)
                        \/ BucketRank(a) = BucketRank(b) /\ Place(a) = Place(b) /\ a.value > b.value
    IN  SortSeq(Listed(column), Before)

Ordered5(flow) ==
    LET In(d) == {n \in flow.nodes : n.depth = d}
        kind == SortSeq(Listed(In(IncomeKind)), CompareIncome)
        group == SortSeq(Listed(In(SpendGroup)), CompareSpendGroup)
        spent == OrderByBarycenter(In(SpendKind), group, flow.links, "target", "source")
    IN  [d \in Columns |->
            CASE d = IncomeMerchant -> OrderByBarycenter(In(d), kind, flow.links, "source", "target")
              [] d = IncomeKind -> kind
              [] d = SpendGroup -> group
              [] d = SpendKind -> spent
              [] d = SpendMerchant -> OrderByBarycenter(In(d), spent, flow.links, "target", "source")]

\* Heights, and the room the fullest column needs.
Height(n, tallest) == Most(20, (n.value * PlotHeight) \div Most(1, tallest))
Natural(col, tallest) ==
    MapThenSumSet(LAMBDA i : Height(col[i], tallest) + SpaceAbove(col[i]), DOMAIN col)
        + NodeGap * Most(0, Len(col) - 1)

\* A sequence built in order, each element from those before it.
Built(n, V(_, _)) == FoldLeft(LAMBDA s, i : Append(s, V(s, i)), <<>>, [i \in 1..n |-> i])

\* Down from the ceiling, then back up off the floor.
SeparateDown(col, ys, tallest) ==
    LET Lowest(done, i) == IF i = 1 THEN Top ELSE done[i - 1] + Height(col[i - 1], tallest) + NodeGap
    IN  Built(Len(col), LAMBDA done, i : Most(ys[i], Lowest(done, i) + SpaceAbove(col[i])))
Separate(col, ys, tallest, floor) ==
    LET down == SeparateDown(col, ys, tallest)
        n == Len(col)
        Bottom(done, i) == IF i = n THEN floor
                           ELSE done[n - i] - NodeGap - SpaceAbove(col[i + 1])
        up == Built(n, LAMBDA done, j : Least(down[n + 1 - j],
                                              Bottom(done, n + 1 - j) - Height(col[n + 1 - j], tallest)))
    IN  Reverse(up)

\* A node is drawn to the weighted centre of what it links to on one side.
Align(columns, ys, d, links, near, far, tallest, floor) ==
    LET Centre(n) == LET i == CHOOSE j \in DOMAIN columns[n.depth] : columns[n.depth][j] = n
                     IN  ys[n.depth][i] + (Height(n, tallest) \div 2)
        Wanted(n, y) == LET joined == {k \in links : k[near] = n}
                            weight == MapThenSumSet(LAMBDA k : k.value, joined)
                        IN  IF joined = {} THEN y
                            ELSE (MapThenSumSet(LAMBDA k : Centre(k[far]) * k.value, joined) \div weight)
                                 - (Height(n, tallest) \div 2)
        wishes == Built(Len(columns[d]), LAMBDA done, i : Wanted(columns[d][i], ys[d][i]))
    IN  [ys EXCEPT ![d] = Separate(columns[d], wishes, tallest, floor)]

Passes == 6
Settled(columns, links, tallest, floor, deepest) ==
    LET Right(ys, d) == Align(columns, ys, d, links, "target", "source", tallest, floor)
        Left(ys, d) == Align(columns, ys, d, links, "source", "target", tallest, floor)
        Sweep(ys, pass) == FoldLeft(Left, FoldLeft(Right, ys, [d \in 1..deepest |-> d]),
                                    [d \in 1..deepest |-> deepest - d])
        Seed(d) == SeparateDown(columns[d], [i \in DOMAIN columns[d] |-> Top], tallest)
    IN  FoldLeft(Sweep, [d \in Columns |-> Seed(d)], [pass \in 1..Passes |-> pass])
LayoutWithin(columns, flow, tallest, floor) ==
    [columns |-> columns, tallest |-> tallest, floor |-> floor,
     ys |-> Settled(columns, flow.links, tallest, floor, Max({n.depth : n \in flow.nodes}))]
LayoutScaled(columns, flow, tallest) ==
    LayoutWithin(columns, flow, tallest, Top + Max({Natural(columns[d], tallest) : d \in Columns}))
LayoutOf(columns, flow) ==
    LayoutScaled(columns, flow, Max({Values(Range(columns[d])) : d \in Columns}))
SankeyLayout(flow) == LayoutOf(Ordered5(flow), flow)
=============================================================================
