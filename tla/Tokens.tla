--------------------------- MODULE Tokens ---------------------------
(* What the program reads in a bank description, and which descriptions it
   takes to be alike (lib/server/matching/tokens, rules/learning/match).

   A description is the set of words in it and a word is its length, longer
   words being rarer: no two words here are of the same length, and none is
   part of another.                                                          *)
EXTENDS Integers, Sequences, FiniteSets

CONSTANTS Words,        \* every word a description may hold
          Volatile,     \* those with a run of four digits: references, batch ids
          Boilerplate,  \* those that say how money moved: stop words, mostly digits
          MaxTokens     \* words a derived rule is keyed on at most

ASSUME WordAssumption ==
  /\ IsFiniteSet(Words) /\ Words \subseteq Nat
  /\ Volatile \subseteq Words /\ Boilerplate \subseteq Words
  /\ MaxTokens \in Nat \ {0}

\* descriptionTokens
DescriptionTokens(description) == description \ Volatile

Above(n, S) == {m \in S : m > n}

\* The n longest of some words, and those in order, longest first.
Longest(n, tokens) == {w \in tokens : Cardinality(Above(w, tokens)) < n}
LongestFirst(tokens) ==
  [i \in 1 .. Cardinality(tokens) |->
     CHOOSE w \in tokens : Cardinality(Above(w, tokens)) = i - 1]

\* What a filter leaves of a sequence: the items at some places, in order.
Filter(s, places) ==
  [k \in 1 .. Cardinality(places) |->
     s[CHOOSE i \in places : Cardinality(Above(i, places)) = Cardinality(places) - k]]

\* distinctiveTokens
IsDistinctive(w) == w \notin Boilerplate
DistinctiveTokens(description) ==
  LongestFirst(Longest(MaxTokens, {w \in DescriptionTokens(description) : IsDistinctive(w)}))

\* tokenOverlap(a, b) >= SIMILAR_THRESHOLD: half of the union is shared.
Overlaps(a, b) == a # {} /\ b # {} /\ 2 * Cardinality(a \cap b) >= Cardinality(a \cup b)

\* prefilterTokens: more than half of the words, the longest.
PrefilterUnderHalf(tokens) == Longest(Cardinality(tokens) \div 2, tokens)
PrefilterTokens(tokens) == Longest(Cardinality(tokens) \div 2 + 1, tokens)

=============================================================================
