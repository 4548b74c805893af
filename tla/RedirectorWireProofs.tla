-------------------------- MODULE RedirectorWireProofs -------------------------
(***************************************************************************)
(* handle against the wire form of a question: what parseQuestion and       *)
(* lookup accept is exactly what Redirector's AQuestion and Wins describe.  *)
(* On top of RedirectorInv.                                                *)
(***************************************************************************)
EXTENDS RedirectorProofs

\* Reading labels at offset p with the name n so far: what is before p is
\* labels and n is theirs; and if the datagram is a question at all, p is at one
\* of its labels or at its root.
LabelAt(p, n) ==
  /\ \E S \in SUBSET (0..(p - 1)) : Labels(S, p) /\ n = NameOf(S, p)
  /\ \A root \in 0..Len(msg.q) : \A S \in SUBSET (0..(root - 1)) :
       AQuestion(S, root) => p \in S \cup {root} /\ n = NameOf(S, p)

\* Behind the root, which is at offset r.
RootAt(r, n) ==
  /\ r < Len(msg.q) /\ ByteAt(r) = 0
  /\ \E S \in SUBSET (0..(r - 1)) : Labels(S, r) /\ n = NameOf(S, r)
  /\ \A root \in 0..Len(msg.q) : \A S \in SUBSET (0..(root - 1)) :
       AQuestion(S, root) => root = r /\ n = NameOf(S, root)

QuestionInv ==
  /\ pc \in StartPcs \cup {"header"} => pos = 0 /\ name = <<>> /\ first
  /\ pc \in {"label", "type", "lookup", "ip", "skip", "end"} => msg.header /\ msg.qd >= 1
  /\ pc = "label" => (first <=> pos = 0) /\ \A p \in {pos} : \A n \in {name} : LabelAt(p, n)
  /\ pc \in {"type", "lookup", "ip", "skip", "end"} =>
       pos > 0 /\ \A r \in {pos - 1} : \A n \in {name} : RootAt(r, n)
  /\ pc \in {"lookup", "ip", "skip", "end"} => ByteAt(pos) = 0 /\ ByteAt(pos + 1) = 1

WireInv == QuestionInv /\ RedirectedExactly

-----------------------------------------------------------------------------
(* One rule wins.                                                          *)

LEMMA SuffixBytes ==
  ASSUME NEW u \in Seq(Byte), NEW n \in Seq(Byte), IsSuffix(u, n)
  PROVE  /\ Len(u) <= Len(n)
         /\ \A i \in 1..Len(u) : u[i] = n[Len(n) - Len(u) + i]
<1> DEFINE ru == Reverse(u)
           rn == Reverse(n)
<1>1. /\ ru = [i \in 1..Len(u) |-> u[(Len(u) - i) + 1]]
      /\ rn = [i \in 1..Len(n) |-> n[(Len(n) - i) + 1]]
  BY DEF Reverse
<1>2. \A i \in 1..Len(u) : u[(Len(u) - i) + 1] \in Byte
  OBVIOUS
<1>3. \A i \in 1..Len(n) : n[(Len(n) - i) + 1] \in Byte
  OBVIOUS
<1>4. /\ ru \in Seq(Byte) /\ Len(ru) = Len(u)
      /\ rn \in Seq(Byte) /\ Len(rn) = Len(n)
  BY <1>1, <1>2, <1>3
<1>5. IsPrefix(ru, rn)
  BY DEF IsSuffix
<1> HIDE DEF ru, rn
<1>6. Len(u) <= Len(n) /\ SubSeq(ru, 1, Len(ru)) = SubSeq(rn, 1, Len(ru))
  BY <1>4, <1>5 DEF IsPrefix
<1>7. \A j \in 1..Len(u) : ru[j] = rn[j]
  <2> SUFFICES ASSUME NEW j \in 1..Len(u) PROVE ru[j] = rn[j]
    OBVIOUS
  <2>1. SubSeq(ru, 1, Len(ru))[j] = ru[j] /\ SubSeq(rn, 1, Len(ru))[j] = rn[j]
    BY <1>4, <1>6
  <2> QED
    BY <2>1, <1>6
<1>8. ASSUME NEW i \in 1..Len(u) PROVE u[i] = n[Len(n) - Len(u) + i]
  <2>0. Len(u) \in Nat /\ Len(u) - i + 1 \in 1..Len(u)
    OBVIOUS
  <2>1. PICK j \in 1..Len(u) : j = Len(u) - i + 1
    BY <2>0, Zenon
  <2>2. j \in 1..Len(n) /\ (Len(u) - j) + 1 = i /\ (Len(n) - j) + 1 = Len(n) - Len(u) + i
    BY <2>1, <1>6
  <2>3. ru[j] = u[i] /\ rn[j] = n[Len(n) - Len(u) + i]
    BY <1>1, <2>1, <2>2
  <2> QED
    BY <2>3, <1>7
<1> QED
  BY <1>6, <1>8

\* Two suffixes of one length that match a name are the same.
LEMMA SuffixIsUnique ==
  ASSUME NEW n \in Text, NEW s \in Text, NEW t \in Text,
         Matches(n, s), Matches(n, t), Len(s) = Len(t)
  PROVE  s = t
<1>1. n \in Seq(Byte) /\ s \in Seq(Byte) /\ t \in Seq(Byte) /\ Dot \in Byte
  BY DEF Text, Dot, Byte
<1>2. ASSUME NEW x \in Seq(Byte), IsSuffix(<<Dot>> \o x, n)
      PROVE  /\ Len(x) < Len(n)
             /\ \A i \in 1..Len(x) : x[i] = n[Len(n) - Len(x) + i]
  <2> DEFINE u == <<Dot>> \o x
  <2>1. u \in Seq(Byte) /\ Len(u) = Len(x) + 1 /\ \A i \in 1..Len(x) : u[i + 1] = x[i]
    BY <1>1
  <2> HIDE DEF u
  <2>2. Len(u) <= Len(n) /\ \A i \in 1..Len(u) : u[i] = n[Len(n) - Len(u) + i]
    BY <1>1, <1>2, <2>1, SuffixBytes DEF u
  <2>3. Len(x) < Len(n)
    BY <1>1, <2>1, <2>2
  <2>4. ASSUME NEW i \in 1..Len(x) PROVE x[i] = n[Len(n) - Len(x) + i]
    <3>1. i + 1 \in 1..Len(u) /\ Len(n) - Len(u) + (i + 1) = Len(n) - Len(x) + i
      BY <1>1, <2>1
    <3> QED
      BY <3>1, <2>1, <2>2
  <2> QED
    BY <2>3, <2>4
<1>3. CASE n = s /\ n = t
  BY <1>3
<1>4. CASE IsSuffix(<<Dot>> \o s, n) /\ IsSuffix(<<Dot>> \o t, n)
  <2>1. \A i \in 1..Len(s) : s[i] = t[i]
    BY <1>1, <1>2, <1>4
  <2> QED
    BY <1>1, <2>1
<1>5. CASE n = s /\ IsSuffix(<<Dot>> \o t, n)
  BY <1>1, <1>2, <1>5
<1>6. CASE n = t /\ IsSuffix(<<Dot>> \o s, n)
  BY <1>1, <1>2, <1>6
<1> QED
  BY <1>3, <1>4, <1>5, <1>6 DEF Matches

LEMMA WinnerIsUnique ==
  ASSUME TypeOK, NEW n \in Text, NEW i \in DOMAIN given, NEW j \in DOMAIN given,
         Wins(n, i), Wins(n, j)
  PROVE  i = j
<1>1. normalizeName(n) \in Text
  BY NormalizedIsText
<1>2. given[i] \in Rule /\ given[j] \in Rule /\ i \in Nat /\ j \in Nat
  BY DEF TypeOK
<1>3. given[i].suffix \in Text /\ given[j].suffix \in Text
  BY <1>2 DEF Rule
<1>4. Len(given[i].suffix) \in Nat /\ Len(given[j].suffix) \in Nat
  BY <1>3 DEF Text
<1>5. ~Beats(i, j) /\ ~Beats(j, i) /\ Covers(n, i) /\ Covers(n, j)
  BY DEF Wins
<1>6. Len(given[i].suffix) = Len(given[j].suffix)
  BY <1>4, <1>5 DEF Beats
<1>7. given[i].suffix = given[j].suffix
  BY <1>1, <1>3, <1>5, <1>6, SuffixIsUnique DEF Covers
<1> QED
  BY <1>2, <1>5, <1>7 DEF Beats

-----------------------------------------------------------------------------
(* Questions.                                                              *)

\* A datagram whose root was found asks for what its name asks.
LEMMA AsksForName ==
  ASSUME NEW r \in Nat, RootAt(r, name), NEW ip, AsksFor(ip)
  PROVE  /\ \E i \in DOMAIN given : Wins(name, i) /\ given[i].ip = ip
         /\ r + 5 <= Len(msg.q) /\ ByteAt(r + 1) = 0 /\ ByteAt(r + 2) = 1
<1>1. PICK root \in 0..Len(msg.q) : \E S \in SUBSET (0..(root - 1)) :
        /\ AQuestion(S, root)
        /\ \E i \in DOMAIN given : Wins(NameOf(S, root), i) /\ given[i].ip = ip
  BY DEF AsksFor
<1>2. PICK S \in SUBSET (0..(root - 1)) :
        /\ AQuestion(S, root)
        /\ \E i \in DOMAIN given : Wins(NameOf(S, root), i) /\ given[i].ip = ip
  BY <1>1
<1>3. root = r /\ name = NameOf(S, root)
  BY <1>2 DEF RootAt
<1> QED
  BY <1>2, <1>3 DEF AQuestion

\* The converse.
LEMMA NameAsksFor ==
  ASSUME TypeOK, msg.header, msg.qd >= 1, NEW r \in Nat, RootAt(r, name),
         r + 5 <= Len(msg.q), ByteAt(r + 1) = 0, ByteAt(r + 2) = 1,
         NEW i \in DOMAIN given, Wins(name, i)
  PROVE  AsksFor(given[i].ip)
<1>1. r \in 0..Len(msg.q) /\ ByteAt(r) = 0
  BY MessageBytes DEF RootAt
<1>2. PICK S \in SUBSET (0..(r - 1)) : Labels(S, r) /\ name = NameOf(S, r)
  BY DEF RootAt
<1>3. AQuestion(S, r)
  BY <1>1, <1>2 DEF AQuestion
<1> QED
  BY <1>1, <1>2, <1>3 DEF AsksFor

\* What a datagram asks for does not change while it is handled.
LEMMA QuestionStays ==
  ASSUME msg' = msg, given' = given
  PROVE  /\ \A S, e : Labels(S, e)' <=> Labels(S, e)
         /\ \A S, e : AQuestion(S, e)' <=> AQuestion(S, e)
         /\ \A S, e : NameOf(S, e)' = NameOf(S, e)
         /\ \A p : ByteAt(p)' = ByteAt(p)
         /\ \A ip : AsksFor(ip)' <=> AsksFor(ip)
         /\ \A p, n : LabelAt(p, n)' <=> LabelAt(p, n)
         /\ \A r, n : RootAt(r, n)' <=> RootAt(r, n)
<1>1. \A p : ByteAt(p)' = ByteAt(p)
  BY DEF ByteAt
<1>2. \A S, e : Labels(S, e)' <=> Labels(S, e)
  BY DEF Labels, Skipped, ByteAt
<1>3. \A S, e : AQuestion(S, e)' <=> AQuestion(S, e)
  BY <1>1, <1>2 DEF AQuestion
<1>4. \A S, e : NameOf(S, e)' = NameOf(S, e)
  BY DEF NameOf, ByteAt
<1>5. \A n, i : Wins(n, i)' <=> Wins(n, i)
  BY DEF Wins, Covers, Beats
<1>6. ASSUME NEW ip PROVE AsksFor(ip)' <=> AsksFor(ip)
  BY <1>3, <1>4, <1>5 DEF AsksFor
<1>7. \A p, n : LabelAt(p, n)' <=> LabelAt(p, n)
  BY <1>2, <1>3, <1>4 DEF LabelAt
<1>8. \A r, n : RootAt(r, n)' <=> RootAt(r, n)
  BY <1>1, <1>2, <1>3, <1>4 DEF RootAt
<1> QED
  BY <1>1, <1>2, <1>3, <1>4, <1>6, <1>7, <1>8

LEMMA SliceBytes ==
  ASSUME NEW q \in Seq(Byte), NEW a \in Nat, NEW b \in Nat, a <= b, b <= Len(q)
  PROVE  /\ SubSeq(q, a + 1, b) \in Seq(Byte) /\ Len(SubSeq(q, a + 1, b)) = b - a
         /\ \A i \in 1..(b - a) : SubSeq(q, a + 1, b)[i] = q[a + i]
<1>1. \A i \in (a + 1)..b : q[i] \in Byte
  OBVIOUS
<1>2. SubSeq(q, a + 1, b) \in Seq(Byte)
  BY <1>1
<1>3. Len(SubSeq(q, a + 1, b)) = b - a
  OBVIOUS
<1>4. ASSUME NEW i \in 1..(b - a) PROVE SubSeq(q, a + 1, b)[i] = q[a + i]
  OBVIOUS
<1> QED
  BY <1>2, <1>3, <1>4

LEMMA SameBytes ==
  ASSUME NEW c \in Seq(Byte), NEW d \in Seq(Byte), Len(c) = Len(d), \A i \in 1..Len(c) : c[i] = d[i]
  PROVE  c = d
OBVIOUS

LEMMA JoinBytes ==
  ASSUME NEW c \in Seq(Byte), NEW d \in Seq(Byte)
  PROVE  /\ c \o d \in Seq(Byte) /\ Len(c \o d) = Len(c) + Len(d)
         /\ \A i \in 1..Len(c) : (c \o d)[i] = c[i]
         /\ \A i \in 1..Len(d) : (c \o d)[Len(c) + i] = d[i]
OBVIOUS

\* The name grows by the label at p.
LEMMA NameGrows ==
  ASSUME TypeOK, NEW T \in SUBSET Nat, NEW p \in Nat, NEW l \in 1..63, p \in T,
         p + 1 + l <= Len(msg.q), \A r \in T : r <= p \/ r >= p + 1 + l,
         name = NameOf(T, p)
  PROVE  NameOf(T, p + 1 + l) =
           IF p = 0 THEN SubSeq(msg.q, p + 2, p + 1 + l)
           ELSE name \o <<Dot>> \o SubSeq(msg.q, p + 2, p + 1 + l)
<1> DEFINE n == IF p = 0 THEN SubSeq(msg.q, p + 2, p + 1 + l)
                ELSE name \o <<Dot>> \o SubSeq(msg.q, p + 2, p + 1 + l)
<1> SUFFICES n = NameOf(T, p + 1 + l)
  OBVIOUS
<1> HIDE DEF n
<1> DEFINE label == SubSeq(msg.q, p + 2, p + 1 + l)
           m == NameOf(T, p + 1 + l)
<1>1. msg.q \in Seq(Byte) /\ Len(msg.q) \in Nat /\ name \in Seq(Byte) /\ Dot \in Byte
  BY MessageBytes DEF TypeOK, Text, Dot, Byte
<1>2. p + 1 \in Nat /\ p + 1 + l \in Nat /\ (p + 1) + 1 = p + 2 /\ (p + 1 + l) - (p + 1) = l
  OBVIOUS
<1>3. /\ label \in Seq(Byte) /\ Len(label) = l
      /\ \A i \in 1..l : label[i] = msg.q[(p + 1) + i]
  <2>1. p + 1 <= p + 1 + l
    OBVIOUS
  <2>2. label = SubSeq(msg.q, (p + 1) + 1, p + 1 + l)
    BY <1>2
  <2> HIDE DEF label
  <2> QED
    BY <1>1, <1>2, <2>1, <2>2, SliceBytes
<1>4. m = [i \in 1..(p + l) |-> IF i \in T THEN Dot ELSE msg.q[i + 1]]
  <2>1. (p + 1 + l) - 1 = p + l
    OBVIOUS
  <2> QED
    BY <2>1 DEF NameOf, ByteAt
<1>5. m \in Seq(Byte) /\ Len(m) = p + l
  <2>1. \A i \in 1..(p + l) : msg.q[i + 1] \in Byte
    <3>1. \A i \in 1..(p + l) : i + 1 \in 1..Len(msg.q)
      BY <1>1
    <3> QED
      BY <1>1, <3>1
  <2> DEFINE f(i) == IF i \in T THEN Dot ELSE msg.q[i + 1]
  <2>2. \A i \in 1..(p + l) : f(i) \in Byte
    BY <1>1, <2>1
  <2>3. m = [i \in 1..(p + l) |-> f(i)] /\ p + l \in Nat
    BY <1>4
  <2> HIDE DEF f, m
  <2> QED
    BY <2>2, <2>3
<1> HIDE DEF label, m
<1>6. CASE p = 0
  <2>1. n = label
    BY <1>6 DEF label, n
  <2>2. \A i \in 1..l : label[i] = m[i]
    BY <1>3, <1>4, <1>6
  <2> QED
    BY <2>1, <2>2, <1>3, <1>5, <1>6 DEF m
<1>7. CASE p > 0
  <2> DEFINE d == <<Dot>>
             c == name \o d
  <2>1. n = c \o label
    BY <1>7 DEF label, n
  <2>2. name = [i \in 1..(p - 1) |-> IF i \in T THEN Dot ELSE msg.q[i + 1]]
    BY DEF NameOf, ByteAt
  <2>3. Len(name) = p - 1
    BY <1>1, <1>7, <2>2
  <2>4. c \in Seq(Byte) /\ Len(c) = p /\ c[p] = Dot /\ \A i \in 1..(p - 1) : c[i] = name[i]
    BY <1>1, <1>7, <2>3
  <2> HIDE DEF c, d
  <2>5. /\ n \in Seq(Byte) /\ Len(n) = p + l
        /\ \A i \in 1..p : n[i] = c[i]
        /\ \A i \in 1..l : n[p + i] = label[i]
    <3>1. /\ c \o label \in Seq(Byte) /\ Len(c \o label) = Len(c) + Len(label)
          /\ \A i \in 1..Len(c) : (c \o label)[i] = c[i]
          /\ \A i \in 1..Len(label) : (c \o label)[Len(c) + i] = label[i]
      BY <1>3, <2>4, JoinBytes
    <3> QED
      BY <3>1, <2>1, <2>4, <1>3, Zenon
  <2>6. ASSUME NEW i \in 1..(p + l) PROVE n[i] = m[i]
    <3>1. CASE i \in 1..(p - 1)
      BY <3>1, <2>2, <2>4, <2>5, <1>4
    <3>2. CASE i = p
      <4>1. p \in 1..p /\ p \in 1..(p + l)
        BY <1>7
      <4>2. n[p] = Dot /\ m[p] = Dot
        BY <4>1, <2>4, <2>5, <1>4
      <4> QED
        BY <4>2, <3>2
    <3>3. CASE i \in (p + 1)..(p + l)
      <4>1. i \notin T
        BY <3>3
      <4>2. m[i] = msg.q[i + 1]
        BY <4>1, <1>4
      <4>3. PICK j \in 1..l : i = p + j /\ (p + 1) + j = i + 1
        <5>1. i - p \in 1..l /\ i = p + (i - p) /\ (p + 1) + (i - p) = i + 1
          BY <3>3
        <5> QED
          BY <5>1
      <4>4. n[i] = label[j]
        BY <4>3, <2>5
      <4> QED
        BY <4>2, <4>3, <4>4, <1>3
    <3>4. i \in 1..(p - 1) \/ i = p \/ i \in (p + 1)..(p + l)
      OBVIOUS
    <3> QED
      BY <3>1, <3>2, <3>3, <3>4
  <2>7. \A i \in 1..Len(n) : n[i] = m[i]
    BY <2>5, <2>6
  <2>8. n = m
    <3>1. Len(n) = Len(m)
      BY <2>5, <1>5
    <3> QED
      BY <3>1, <2>5, <2>7, <1>5, SameBytes
  <2> QED
    BY <2>8 DEF m
<1> QED
  BY <1>6, <1>7

\* No name before the first label.
LEMMA EmptyName == \A S : NameOf(S, 0) = <<>>
<1> SUFFICES ASSUME NEW S PROVE NameOf(S, 0) = <<>>
  OBVIOUS
<1> DEFINE f(i) == IF i \in S THEN Dot ELSE ByteAt(i)
<1>1. NameOf(S, 0) = [i \in {} |-> f(i)]
  <2>1. 1..(0 - 1) = {}
    OBVIOUS
  <2> QED
    BY <2>1 DEF NameOf
<1> QED
  BY <1>1

-----------------------------------------------------------------------------
(* The walk over the question.                                             *)

LEMMA LabelStart ==
  ASSUME TypeOK
  PROVE  LabelAt(0, <<>>)
<1>1. Labels({}, 0) /\ {} \in SUBSET (0..(0 - 1)) /\ <<>> = NameOf({}, 0)
  BY EmptyName DEF Labels
<1>2. ASSUME NEW root \in 0..Len(msg.q), NEW S \in SUBSET (0..(root - 1)), AQuestion(S, root)
      PROVE  0 \in S \cup {root} /\ <<>> = NameOf(S, 0)
  BY <1>2, EmptyName DEF AQuestion, Labels
<1> QED
  BY <1>1, <1>2 DEF LabelAt

\* One label.
LEMMA LabelStep ==
  ASSUME TypeOK, NEW p \in Nat, NEW l \in 1..63, ByteAt(p) = l, p + 1 + l <= Len(msg.q),
         LabelAt(p, name), NEW n,
         n = IF p = 0 THEN SubSeq(msg.q, p + 2, p + 1 + l)
             ELSE name \o <<Dot>> \o SubSeq(msg.q, p + 2, p + 1 + l)
  PROVE  LabelAt(p + 1 + l, n)
<1> DEFINE e == p + 1 + l
<1>1. e \in Nat /\ e > p /\ Skipped(p) = e /\ e \in 1..Len(msg.q)
  BY MessageBytes DEF Skipped
<1>2. ASSUME NEW T \in SUBSET Nat, p \in T, \A r \in T : r <= p \/ r >= e, name = NameOf(T, p)
      PROVE  n = NameOf(T, e)
  <2>1. \A r \in T : r <= p \/ r >= p + 1 + l
    BY <1>2
  <2>2. n = NameOf(T, p + 1 + l)
    BY <1>2, <2>1, NameGrows
  <2> QED
    BY <2>2
<1> HIDE DEF e
<1>3. PICK S \in SUBSET (0..(p - 1)) : Labels(S, p) /\ name = NameOf(S, p)
  BY DEF LabelAt
<1> DEFINE T == S \cup {p}
<1>4. T \in SUBSET (0..(e - 1)) /\ T \in SUBSET Nat
  BY <1>1, <1>3
<1>5. Labels(T, e)
  <2>1. 0 \in T \cup {e}
    BY <1>3 DEF Labels
  <2>2. ASSUME NEW t \in T
        PROVE  /\ ByteAt(t) \in 1..63 /\ Skipped(t) \in T \cup {e}
               /\ \A r \in T : r > t => r >= Skipped(t)
    <3>1. CASE t = p
      <4>1. \A r \in T : ~(r > t)
        BY <3>1, <1>3
      <4> QED
        BY <3>1, <4>1, <1>1
    <3>2. CASE t \in S
      <4>1. ByteAt(t) \in 1..63 /\ Skipped(t) \in S \cup {p} /\ \A r \in S : r > t => r >= Skipped(t)
        BY <3>2, <1>3 DEF Labels
      <4>2. p >= Skipped(t)
        <5>1. \A r \in S \cup {p} : p >= r
          BY <1>3
        <5> QED
          BY <4>1, <5>1
      <4> QED
        BY <4>1, <4>2
    <3> QED
      BY <3>1, <3>2
  <2> QED
    BY <2>1, <2>2, <1>4 DEF Labels
<1>6. n = NameOf(T, e)
  <2>1. \A i \in 1..(p - 1) : i \in T <=> i \in S
    OBVIOUS
  <2>2. NameOf(T, p) = NameOf(S, p)
    BY <2>1 DEF NameOf
  <2>3. \A r \in T : r <= p \/ r >= e
    BY <1>3
  <2> HIDE DEF T
  <2>4. p \in T
    BY DEF T
  <2> QED
    BY <2>2, <2>3, <2>4, <1>2, <1>3, <1>4
<1>7. ASSUME NEW root \in 0..Len(msg.q), NEW R \in SUBSET (0..(root - 1)), AQuestion(R, root)
      PROVE  e \in R \cup {root} /\ n = NameOf(R, e)
  <2>1. p \in R \cup {root} /\ name = NameOf(R, p)
    BY <1>7 DEF LabelAt
  <2>2. ByteAt(root) = 0 /\ Labels(R, root)
    BY <1>7 DEF AQuestion
  <2>3. p \in R
    BY <2>1, <2>2
  <2>4. e \in R \cup {root} /\ \A r \in R : r > p => r >= e
    BY <2>2, <2>3, <1>1 DEF Labels
  <2>5. R \in SUBSET Nat /\ \A r \in R : r <= p \/ r >= e
    BY <2>4
  <2>6. n = NameOf(R, e)
    BY <2>1, <2>3, <2>5, <1>2
  <2> QED
    BY <2>4, <2>6
<1>8. LabelAt(e, n)
  BY <1>4, <1>5, <1>6, <1>7 DEF LabelAt
<1> QED
  BY <1>8 DEF e

\* The root.
LEMMA RootStep ==
  ASSUME TypeOK, NEW p \in Nat, p < Len(msg.q), ByteAt(p) = 0, NEW n, LabelAt(p, n)
  PROVE  RootAt(p, n)
<1>1. ASSUME NEW root \in 0..Len(msg.q), NEW S \in SUBSET (0..(root - 1)), AQuestion(S, root)
      PROVE  root = p /\ n = NameOf(S, root)
  <2>1. p \in S \cup {root} /\ n = NameOf(S, p)
    BY <1>1 DEF LabelAt
  <2>2. p \notin S
    <3>1. \A t \in S : ByteAt(t) \in 1..63
      BY <1>1 DEF AQuestion, Labels
    <3>2. 0 \notin 1..63
      OBVIOUS
    <3> QED
      BY <3>1, <3>2, Zenon
  <2> QED
    BY <2>1, <2>2
<1> QED
  BY <1>1 DEF LabelAt, RootAt

-----------------------------------------------------------------------------
(* Each step.                                                              *)

LEMMA WireInit == Init => WireInv
BY DEF Init, WireInv, QuestionInv, RedirectedExactly, StartPcs

\* Start-up has read no datagram.
LEMMA WireStart ==
  ASSUME WireInv, Stays, pc \in StartPcs, pc' \in StartPcs
  PROVE  WireInv'
<1>1. pos = 0 /\ name = <<>> /\ first
  BY DEF WireInv, QuestionInv
<1>2. pos' = 0 /\ name' = <<>> /\ first'
  BY <1>1 DEF Stays, question
<1>3. pc' \in {"config", "suffixes", "dedupe", "sort", "serve", "fatal"}
  BY DEF StartPcs
<1> QED
  BY <1>2, <1>3 DEF WireInv, QuestionInv, RedirectedExactly

\* A datagram that is no question for an address of ours may be forwarded.
LEMMA WireForward ==
  ASSUME pc' = "forwarded", msg' = msg, given' = given, \A ip \in IPv4s : ~AsksFor(ip)
  PROVE  WireInv'
<1>1. \A ip \in IPv4s : ~AsksFor(ip)'
  BY QuestionStays
<1>2. QuestionInv'
  BY DEF QuestionInv, StartPcs
<1> QED
  BY <1>1, <1>2 DEF WireInv, RedirectedExactly

\* Steps behind the question keep it.
LEMMA WireCarry ==
  ASSUME WireInv, pc \in {"type", "lookup", "ip", "skip", "end"}, pc' \in {"lookup", "ip", "skip", "end"},
         msg' = msg, given' = given, UNCHANGED question, ByteAt(pos) = 0, ByteAt(pos + 1) = 1
  PROVE  WireInv'
<1>1. msg.header /\ msg.qd >= 1 /\ pos > 0 /\ RootAt(pos - 1, name)
  BY DEF WireInv, QuestionInv
<1>2. pos' = pos /\ name' = name
  BY DEF question
<1>3. \A r \in {pos' - 1} : \A n \in {name'} : RootAt(r, n)'
  BY <1>1, <1>2, QuestionStays
<1>4. ByteAt(pos)' = 0 /\ ByteAt(pos + 1)' = 1
  BY <1>2 DEF ByteAt
<1>5. pc' \notin StartPcs /\ pc' \notin {"header", "label", "answered", "forwarded"}
  BY DEF StartPcs
<1> QED
  BY <1>1, <1>2, <1>3, <1>4, <1>5 DEF WireInv, QuestionInv, RedirectedExactly

LEMMA WireReceive ==
  ASSUME WireInv, NEW d \in Datagrams, Receive(d)
  PROVE  WireInv'
<1>1. pc = "serve" /\ pc' = "header" /\ UNCHANGED question
  BY DEF Receive, Go
<1>2. pos = 0 /\ name = <<>> /\ first
  BY <1>1 DEF WireInv, QuestionInv, StartPcs
<1>3. pos' = 0 /\ name' = <<>> /\ first'
  BY <1>1, <1>2 DEF question
<1> QED
  BY <1>1, <1>3 DEF WireInv, QuestionInv, RedirectedExactly

LEMMA WireParseHeader ==
  ASSUME RedirectorInv, WireInv, ParseHeader
  PROVE  WireInv'
<1>1. pc = "header" /\ msg' = msg /\ given' = given /\ UNCHANGED question /\ TypeOK
  BY DEF ParseHeader, Handling, RedirectorInv
<1>2. CASE msg.header /\ msg.qd >= 1
  <2>1. pc' = "label"
    BY <1>2 DEF ParseHeader, Go
  <2>2. pos' = 0 /\ name' = <<>> /\ first'
    BY <1>1 DEF WireInv, QuestionInv, question
  <2>3. LabelAt(0, <<>>)'
    BY <1>1, LabelStart, QuestionStays
  <2>4. \A p \in {pos'} : \A n \in {name'} : LabelAt(p, n)'
    BY <2>2, <2>3
  <2> QED
    BY <1>1, <1>2, <2>1, <2>2, <2>4 DEF WireInv, QuestionInv, RedirectedExactly, StartPcs
<1>3. CASE ~(msg.header /\ msg.qd >= 1)
  <2>1. pc' = "forwarded"
    BY <1>3 DEF ParseHeader, Forward, Go
  <2>2. \A ip : ~AsksFor(ip)
    BY <1>3 DEF AsksFor, AQuestion
  <2> QED
    BY <1>1, <2>1, <2>2, WireForward
<1> QED
  BY <1>2, <1>3

\* What parseQuestion gives up on is no question.
LEMMA WireRefuseLabel ==
  ASSUME RedirectorInv, WireInv, RefuseLabel
  PROVE  WireInv'
<1>1. pc = "label" /\ msg' = msg /\ given' = given /\ pc' = "forwarded" /\ TypeOK /\ pos \in Nat
  BY DEF RefuseLabel, Handling, Forward, Go, RedirectorInv, TypeOK
<1>2. LabelAt(pos, name)
  BY <1>1 DEF WireInv, QuestionInv
<1>3. Len(msg.q) \in Nat /\ \A q \in Nat : q < Len(msg.q) => ByteAt(q) \in 0..255
  BY <1>1, MessageBytes
<1>4. ASSUME NEW root \in 0..Len(msg.q), NEW S \in SUBSET (0..(root - 1)), AQuestion(S, root)
      PROVE  FALSE
  <2>1. pos \in S \cup {root} /\ Labels(S, root) /\ root + 5 <= Len(msg.q) /\ ByteAt(root) = 0
    BY <1>2, <1>4 DEF LabelAt, AQuestion
  <2>2. CASE pos = root
    BY <2>1, <2>2, <1>3 DEF RefuseLabel, AtEnd
  <2>3. CASE pos \in S
    <3>1. ByteAt(pos) \in 1..63 /\ pos + 1 + ByteAt(pos) \in S \cup {root}
      BY <2>1, <2>3 DEF Labels, Skipped
    <3>2. \A q \in S \cup {root} : q <= root
      OBVIOUS
    <3>3. pos + 1 + ByteAt(pos) <= root /\ pos <= root
      BY <2>3, <3>1, <3>2
    <3>4. ~AtEnd(pos) /\ ~(ByteAt(pos) >= 64) /\ ~(pos + 1 + ByteAt(pos) > Len(msg.q))
      <4>1. PICK b \in 1..63 : b = ByteAt(pos)
        BY <3>1
      <4>2. pos + 1 + b <= root
        BY <4>1, <3>3, Zenon
      <4>3. ~(pos >= Len(msg.q)) /\ ~(b >= 64) /\ ~(pos + 1 + b > Len(msg.q))
        BY <4>2, <2>1, <3>3, <1>1, <1>3
      <4> QED
        BY <4>1, <4>3, Zenon DEF AtEnd
    <3> QED
      BY <3>4 DEF RefuseLabel
  <2> QED
    BY <2>1, <2>2, <2>3
<1>5. \A ip \in IPv4s : ~AsksFor(ip)
  BY <1>4 DEF AsksFor
<1> QED
  BY <1>1, <1>5, WireForward

LEMMA WireParseLabel ==
  ASSUME RedirectorInv, WireInv, ParseLabel
  PROVE  WireInv'
<1>1. pc = "label" /\ msg' = msg /\ given' = given /\ TypeOK /\ pos \in Nat /\ pos < Len(msg.q)
  BY MessageBytes DEF ParseLabel, AtEnd, Handling, RedirectorInv, TypeOK
<1>2. LabelAt(pos, name) /\ (first <=> pos = 0) /\ msg.header /\ msg.qd >= 1
  BY <1>1 DEF WireInv, QuestionInv
<1>3. PICK l \in 0..255 : l = ByteAt(pos)
  BY <1>1, MessageBytes
<1>4. TakeLabel(l)
  BY <1>3 DEF ParseLabel
<1>5. CASE l = 0
  <2>1. pc' = "type" /\ pos' = pos + 1 /\ name' = name
    BY <1>1, <1>4, <1>5 DEF TakeLabel, Go
  <2>2. RootAt(pos, name)
    BY <1>1, <1>2, <1>3, <1>5, RootStep
  <2>3. pos' - 1 = pos /\ pos' > 0
    BY <1>1, <2>1
  <2>4. \A r \in {pos' - 1} : \A n \in {name'} : RootAt(r, n)'
    BY <1>1, <2>1, <2>2, <2>3, QuestionStays
  <2> QED
    BY <1>1, <1>2, <2>1, <2>3, <2>4 DEF WireInv, QuestionInv, RedirectedExactly, StartPcs
<1>6. CASE l \in 1..63
  <2>1. /\ pc' = "label" /\ pos' = pos + 1 + l /\ ~first' /\ pos + 1 + l <= Len(msg.q)
        /\ name' = IF first THEN SubSeq(msg.q, pos + 2, pos + 1 + l)
                   ELSE name \o <<Dot>> \o SubSeq(msg.q, pos + 2, pos + 1 + l)
    <3>1. l # 0 /\ l > 0
      BY <1>6
    <3> QED
      BY <1>1, <1>4, <3>1 DEF TakeLabel
  <2>2. LabelAt(pos + 1 + l, name')
    <3>1. PICK p \in Nat : p = pos
      BY <1>1
    <3>2. PICK n : n = IF p = 0 THEN SubSeq(msg.q, p + 2, p + 1 + l)
                       ELSE name \o <<Dot>> \o SubSeq(msg.q, p + 2, p + 1 + l)
      OBVIOUS
    <3>3. LabelAt(p + 1 + l, n)
      BY <1>1, <1>2, <1>3, <1>6, <2>1, <3>1, <3>2, LabelStep
    <3>4. n = name'
      BY <1>2, <2>1, <3>1, <3>2
    <3> QED
      BY <3>1, <3>3, <3>4
  <2>3. \A p \in {pos'} : \A n \in {name'} : LabelAt(p, n)'
    BY <1>1, <2>1, <2>2, QuestionStays
  <2>4. first' <=> pos' = 0
    BY <1>1, <1>6, <2>1
  <2> QED
    BY <1>1, <1>2, <2>1, <2>3, <2>4 DEF WireInv, QuestionInv, RedirectedExactly, StartPcs
<1>7. l = 0 \/ l \in 1..63
  BY <1>4 DEF TakeLabel
<1> QED
  BY <1>5, <1>6, <1>7

\* Where the steps behind the root stand.
LEMMA BehindRoot ==
  ASSUME RedirectorInv, WireInv, pc \in {"type", "lookup", "ip", "skip", "end"}
  PROVE  \E r \in Nat : /\ pos = r + 1 /\ pos + 1 = r + 2 /\ pos + 4 = r + 5
                        /\ RootAt(r, name) /\ msg.header /\ msg.qd >= 1
<1>1. pos \in Nat /\ pos > 0
  BY DEF RedirectorInv, TypeOK, WireInv, QuestionInv
<1>2. RootAt(pos - 1, name) /\ msg.header /\ msg.qd >= 1
  BY DEF WireInv, QuestionInv
<1>3. PICK r \in Nat : r = pos - 1
  BY <1>1
<1>4. pos = r + 1 /\ pos + 1 = r + 2 /\ pos + 4 = r + 5
  BY <1>1, <1>3
<1> QED
  BY <1>2, <1>3, <1>4

\* The question behind the root is ours only if its name has a winning rule.
LEMMA AsksWins ==
  ASSUME RedirectorInv, WireInv, pc \in {"type", "lookup", "ip", "skip", "end"}, NEW ip, AsksFor(ip)
  PROVE  /\ \E i \in DOMAIN given : Wins(name, i) /\ given[i].ip = ip
         /\ pos + 4 <= Len(msg.q) /\ ByteAt(pos) = 0 /\ ByteAt(pos + 1) = 1
<1>1. PICK r \in Nat : pos = r + 1 /\ pos + 1 = r + 2 /\ pos + 4 = r + 5 /\ RootAt(r, name)
  BY BehindRoot
<1>2. /\ \E i \in DOMAIN given : Wins(name, i) /\ given[i].ip = ip
      /\ r + 5 <= Len(msg.q) /\ ByteAt(r + 1) = 0 /\ ByteAt(r + 2) = 1
  BY <1>1, AsksForName
<1> QED
  BY <1>1, <1>2

LEMMA WireParseType ==
  ASSUME RedirectorInv, WireInv, ParseType
  PROVE  WireInv'
<1>1. pc = "type" /\ msg' = msg /\ given' = given /\ UNCHANGED question
  BY DEF ParseType, Handling
<1>2. CASE pos + 4 <= Len(msg.q) /\ ByteAt(pos) = 0 /\ ByteAt(pos + 1) = 1
  <2>1. pc' = "lookup"
    BY <1>2 DEF ParseType, Go
  <2> QED
    BY <1>1, <1>2, <2>1, WireCarry
<1>3. CASE ~(pos + 4 <= Len(msg.q) /\ ByteAt(pos) = 0 /\ ByteAt(pos + 1) = 1)
  <2>1. pc' = "forwarded"
    BY <1>3 DEF ParseType, Forward, Go
  <2>2. \A ip \in IPv4s : ~AsksFor(ip)
    BY <1>1, <1>3, AsksWins
  <2> QED
    BY <1>1, <2>1, <2>2, WireForward
<1> QED
  BY <1>2, <1>3

LEMMA WireLookupRule ==
  ASSUME RedirectorInv, WireInv, LookupRule
  PROVE  WireInv'
<1>1. /\ pc = "lookup" /\ msg' = msg /\ given' = given /\ UNCHANGED question
      /\ ByteAt(pos) = 0 /\ ByteAt(pos + 1) = 1
  BY DEF LookupRule, WireInv, QuestionInv
<1>2. CASE pc' = "forwarded" /\ k > Len(rules)
  <2>1. \A j \in DOMAIN given : ~Covers(name, j)
    BY <1>1, <1>2, NoneCovers
  <2>2. \A ip \in IPv4s : ~AsksFor(ip)
    BY <1>1, <2>1, AsksWins DEF Wins
  <2> QED
    BY <1>1, <1>2, <2>2, WireForward
<1>3. CASE pc' \in {"lookup", "ip"}
  BY <1>1, <1>3, WireCarry
<1> QED
  BY <1>1, <1>2, <1>3 DEF LookupRule, Forward, Go

\* An IPv6 rule wins over every IPv4 rule it beats: the name goes upstream.
LEMMA WireCheckIP ==
  ASSUME RedirectorInv, WireInv, CheckIP
  PROVE  WireInv'
<1>1. /\ pc = "ip" /\ msg' = msg /\ given' = given /\ UNCHANGED question
      /\ ByteAt(pos) = 0 /\ ByteAt(pos + 1) = 1
  BY DEF CheckIP, Handling, WireInv, QuestionInv
<1>2. CASE found.ip \in IPv4s
  <2>1. pc' = "skip"
    BY <1>2 DEF CheckIP, Go
  <2> QED
    BY <1>1, <2>1, WireCarry
<1>3. CASE found.ip \notin IPv4s
  <2>1. pc' = "forwarded"
    BY <1>3 DEF CheckIP, Forward, Go
  <2>2. PICK i \in DOMAIN given : found = given[i] /\ Wins(name, i)
    BY <1>1, FoundWins
  <2>3. name \in Text /\ TypeOK
    BY DEF RedirectorInv, TypeOK
  <2>4. ASSUME NEW ip \in IPv4s, AsksFor(ip) PROVE FALSE
    <3>1. PICK j \in DOMAIN given : Wins(name, j) /\ given[j].ip = ip
      BY <1>1, <2>4, AsksWins
    <3>2. i = j
      BY <2>2, <2>3, <3>1, WinnerIsUnique
    <3> QED
      BY <1>3, <2>2, <3>1, <3>2
  <2> QED
    BY <1>1, <2>1, <2>4, WireForward
<1> QED
  BY <1>2, <1>3

\* The second walk never leaves the question, so it gives up on none.
LEMMA WireSkipLabel ==
  ASSUME RedirectorInv, WireInv, SkipLabel
  PROVE  WireInv'
<1>1. /\ pc = "skip" /\ msg' = msg /\ given' = given /\ UNCHANGED question
      /\ ByteAt(pos) = 0 /\ ByteAt(pos + 1) = 1
  BY DEF SkipLabel, Handling, WireInv, QuestionInv
<1>2. ~AtEnd(qEnd)
  <2>1. PICK w : WholeWalk(w) /\ \E i \in 1..Len(w) : qEnd = w[i]
    BY <1>1 DEF RedirectorInv, WalkInv
  <2>2. PICK i \in 1..Len(w) : qEnd = w[i]
    BY <2>1
  <2>3. w \in Seq(Nat) /\ Len(w) \in Nat /\ Len(msg.q) \in Nat /\ qEnd \in Nat
    BY <2>1, MessageBytes DEF WholeWalk, Walk, RedirectorInv, TypeOK
  <2>4. CASE i = Len(w)
    BY <2>1, <2>2, <2>3, <2>4 DEF WholeWalk, AtEnd
  <2>5. CASE i \in 1..(Len(w) - 1)
    BY <2>1, <2>2, <2>3, <2>5 DEF WholeWalk, Walk, AtEnd
  <2> QED
    BY <2>3, <2>4, <2>5
<1>3. pc' \in {"skip", "end"}
  BY <1>2 DEF SkipLabel, Go
<1> QED
  BY <1>1, <1>3, WireCarry

LEMMA WireBuildAnswer ==
  ASSUME RedirectorInv, WireInv, BuildAnswer
  PROVE  WireInv'
<1>1. /\ pc = "end" /\ msg' = msg /\ given' = given
      /\ ByteAt(pos) = 0 /\ ByteAt(pos + 1) = 1
  BY DEF BuildAnswer, Handling, WireInv, QuestionInv
<1>2. qEnd = pos /\ pos + 4 <= Len(msg.q) /\ found.ip \in IPv4s
  BY <1>1 DEF RedirectorInv, WalkInv, FoundInv
<1>3. pos \in Nat /\ Len(msg.q) \in Nat /\ TypeOK /\ name \in Text
  BY MessageBytes DEF RedirectorInv, TypeOK
<1>4. pc' = "answered" /\ reply'.ip = found.ip
  BY <1>2, <1>3 DEF BuildAnswer, QuestionLen, Go
<1>5. PICK i \in DOMAIN given : found = given[i] /\ Wins(name, i)
  BY <1>1, FoundWins
<1>6. AsksFor(found.ip)
  <2>1. PICK r \in Nat : /\ pos = r + 1 /\ pos + 1 = r + 2 /\ pos + 4 = r + 5
                         /\ RootAt(r, name) /\ msg.header /\ msg.qd >= 1
    BY <1>1, BehindRoot
  <2>2. r + 5 <= Len(msg.q) /\ ByteAt(r + 1) = 0 /\ ByteAt(r + 2) = 1
    BY <1>1, <1>2, <2>1
  <2> QED
    BY <1>3, <1>5, <2>1, <2>2, NameAsksFor
<1>7. ASSUME NEW ip \in IPv4s PROVE reply'.ip = ip <=> AsksFor(ip)
  <2>1. ASSUME AsksFor(ip) PROVE ip = found.ip
    <3>1. PICK j \in DOMAIN given : Wins(name, j) /\ given[j].ip = ip
      BY <1>1, <2>1, AsksWins
    <3>2. i = j
      BY <1>3, <1>5, <3>1, WinnerIsUnique
    <3> QED
      BY <1>5, <3>1, <3>2
  <2> QED
    BY <1>4, <1>6, <2>1
<1>8. \A ip \in IPv4s : reply'.ip = ip <=> AsksFor(ip)'
  BY <1>1, <1>7, QuestionStays
<1>9. QuestionInv'
  BY <1>4 DEF QuestionInv, StartPcs
<1> QED
  BY <1>4, <1>8, <1>9 DEF WireInv, RedirectedExactly

LEMMA WireStutter ==
  ASSUME WireInv, UNCHANGED vars
  PROVE  WireInv'
<1>1. /\ pc' = pc /\ msg' = msg /\ given' = given /\ reply' = reply
      /\ pos' = pos /\ name' = name /\ first' = first
  BY DEF vars, question
<1>2. RedirectedExactly'
  BY <1>1, QuestionStays DEF WireInv, RedirectedExactly
<1>3. ByteAt(pos)' = ByteAt(pos) /\ ByteAt(pos + 1)' = ByteAt(pos + 1)
  BY <1>1 DEF ByteAt
<1>4. QuestionInv'
  BY <1>1, <1>3, QuestionStays DEF WireInv, QuestionInv
<1> QED
  BY <1>2, <1>4 DEF WireInv

LEMMA WireStep == RedirectorInv /\ WireInv /\ [Next]_vars => WireInv'
<1> SUFFICES ASSUME RedirectorInv, WireInv, [Next]_vars PROVE WireInv'
  OBVIOUS
<1>1. CASE StartUp \/ ReadFails
  <2>1. Stays /\ pc \in {"config", "suffixes", "dedupe", "sort"}
    BY <1>1 DEF StartUp, ReadFails, ReadLine, ConfigRead, AddSuffix, SuffixesAdded, Dedupe, Deduped, SortRules
  <2>2. pc' \in {"config", "fatal", "suffixes", "dedupe", "sort", "serve"}
    BY <1>1, <2>1 DEF StartUp, ReadFails, ReadLine, ConfigRead, AddSuffix, SuffixesAdded, Dedupe, Deduped, SortRules
  <2> QED
    BY <2>1, <2>2, WireStart DEF StartPcs
<1>2. CASE Handle
  BY <1>2, WireParseHeader, WireRefuseLabel, WireParseLabel, WireParseType, WireLookupRule,
     WireCheckIP, WireSkipLabel, WireBuildAnswer
  DEF Handle
<1>3. CASE \E d \in Datagrams : Receive(d)
  BY <1>3, WireReceive
<1>4. CASE UNCHANGED vars
  BY <1>4, WireStutter
<1> QED
  BY <1>1, <1>2, <1>3, <1>4 DEF Next

-----------------------------------------------------------------------------
(* The result.                                                             *)

\* handle answers exactly the whole A questions for names whose most specific
\* rule has an IPv4 address, with that address, for every table and datagram:
\* parseQuestion, lookup and buildAResponse together miss none and add none.
THEOREM HandleRedirectsExactly == Spec => []RedirectedExactly
<1>1. Spec => [](RedirectorInv /\ WireInv)
  <2>1. Init => WireInv
    BY WireInit
  <2>2. RedirectorInv /\ WireInv /\ [Next]_vars => WireInv'
    BY WireStep
  <2> QED
    BY <2>1, <2>2, RedirectorInvariant, PTL DEF Spec
<1>2. WireInv => RedirectedExactly
  BY DEF WireInv
<1> QED
  BY <1>1, <1>2, PTL
=============================================================================
