----------------------------- MODULE LongestFirst ------------------------------
(***************************************************************************)
(* The order both rule tables of the program are put in: sort.SliceStable  *)
(* with "longer first" (sortRulesLongestFirst, parseProxyRules).           *)
(***************************************************************************)
EXTENDS Naturals, Sequences

\* p lists the positions of a table by descending length, equal ones as they
\* were.  lens are the lengths of the table's suffixes or prefixes.
LongestFirst(p, lens) ==
  \A i, j \in DOMAIN lens : i < j =>
    \/ lens[p[i]] > lens[p[j]]
    \/ lens[p[i]] = lens[p[j]] /\ p[i] < p[j]

\* The table in that order: there is exactly one such permutation.
Reordered(table, p) == [i \in DOMAIN table |-> table[p[i]]]
=============================================================================
