--------------------------- MODULE LongestFirstProofs --------------------------
(***************************************************************************)
(* What the order of the two rule tables is good for, for any table.       *)
(***************************************************************************)
EXTENDS LongestFirst, FiniteSetTheorems, TLAPS

\* A stable sort loses no rule: what lists every position once reaches all.
LEMMA SortReachesAll ==
  ASSUME NEW len \in Nat, NEW lens \in [1..len -> Nat], NEW p \in [1..len -> 1..len],
         LongestFirst(p, lens)
  PROVE  \A j \in 1..len : \E i \in 1..len : p[i] = j
<1>1. \A i, j \in 1..len : p[i] = p[j] => i = j
  <2>1. \A i, j \in 1..len : i < j => p[i] # p[j]
    <3> SUFFICES ASSUME NEW i \in 1..len, NEW j \in 1..len, i < j, p[i] = p[j] PROVE FALSE
      OBVIOUS
    <3>1. DOMAIN lens = 1..len
      OBVIOUS
    <3>2. lens[p[i]] > lens[p[j]] \/ p[i] < p[j]
      BY <3>1, Zenon DEF LongestFirst
    <3>3. PICK q \in 1..len : q = p[i]
      OBVIOUS
    <3>4. PICK l \in Nat : l = lens[q]
      OBVIOUS
    <3>5. l > l \/ q < q
      BY <3>2, <3>3, <3>4, Zenon
    <3> QED
      BY <3>5
  <2> QED
    BY <2>1
<1> SUFFICES ASSUME NEW j \in 1..len, \A i \in 1..len : p[i] # j PROVE FALSE
  OBVIOUS
<1> DEFINE S == 1..len
           T == (1..len) \ {j}
<1>2. IsFiniteSet(S)
  BY FS_Interval
<1>3. IsFiniteSet(T) /\ Cardinality(T) = Cardinality(S) - 1
  BY <1>2, FS_RemoveElement
<1>4. Cardinality(S) \in Nat
  BY <1>2, FS_CardinalityType
<1>5. Cardinality(T) < Cardinality(S)
  BY <1>3, <1>4
<1>6. p \in [S -> T]
  OBVIOUS
<1> HIDE DEF S, T
<1>7. \E x, y \in S : x # y /\ p[x] = p[y]
  BY <1>2, <1>3, <1>5, <1>6, FS_PigeonHole
<1> QED
  BY <1>1, <1>7 DEF S

\* Nothing longer comes later.
LEMMA SortDescends ==
  ASSUME NEW len \in Nat, NEW lens \in [1..len -> Nat], NEW p \in [1..len -> 1..len],
         LongestFirst(p, lens)
  PROVE  \A i, j \in 1..len : i < j => lens[p[i]] >= lens[p[j]]
<1> SUFFICES ASSUME NEW i \in 1..len, NEW j \in 1..len, i < j PROVE lens[p[i]] >= lens[p[j]]
  OBVIOUS
<1>1. DOMAIN lens = 1..len
  OBVIOUS
<1>2. lens[p[i]] > lens[p[j]] \/ lens[p[i]] = lens[p[j]]
  BY <1>1, Zenon DEF LongestFirst
<1>3. lens[p[i]] \in Nat /\ lens[p[j]] \in Nat
  OBVIOUS
<1> QED
  BY <1>2, <1>3
=============================================================================
