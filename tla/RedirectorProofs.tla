---------------------------- MODULE RedirectorProofs ---------------------------
(***************************************************************************)
(* Proofs about Redirector, for any configuration file, suffixes,          *)
(* addresses and datagrams.                                                *)
(***************************************************************************)
EXTENDS Redirector, LongestFirstProofs

Serving == {"serve"} \cup HandlePcs

\* The first n lines of dns.config were well formed and have their rules.
Understood(n) ==
  \A i \in 1..n :
    /\ ~Malformed(config[i])
    /\ config[i].rule => \E j \in DOMAIN given : given[j].suffix = normalizeName(config[i].name)
ConfigInv ==
  /\ pc = "config" => k \in 1..(Len(config) + 1) /\ Understood(k - 1)
  /\ pc \notin {"config", "fatal"} => Understood(Len(config)) /\ (explicit => present)

\* The table has, of the first n rules given, the first for each suffix.
Earliest(r, n) == \E i \in 1..n : r = given[i] /\ \A j \in 1..(i - 1) : given[j].suffix # r.suffix
TableOf(n) ==
  /\ \A q \in DOMAIN rules : Earliest(rules[q], n)
  /\ \A i \in 1..n : \E q \in DOMAIN rules : rules[q].suffix = given[i].suffix
TableInv ==
  /\ pc \in {"config", "suffixes"} => rules = <<>> /\ k \in Nat \ {0}
  /\ pc = "dedupe" => k \in 1..(Len(given) + 1) /\ TableOf(k - 1)
  /\ pc \in {"sort"} \cup Serving => TableOf(Len(given))
  /\ pc \in Serving => \A i, j \in DOMAIN rules : i < j => Len(rules[i].suffix) >= Len(rules[j].suffix)

\* Where lookup stands, and what it has found.
NoneBefore(n) == \A i \in DOMAIN rules : i < n => ~Matches(normalizeName(name), rules[i].suffix)
FoundInv ==
  /\ pc \in {"header", "label", "type"} => k = 1
  /\ pc = "lookup" => k \in 1..(Len(rules) + 1) /\ NoneBefore(k)
  /\ pc \in {"ip", "skip", "end", "answered"} \/ found # None =>
       /\ k \in DOMAIN rules /\ found = rules[k]
       /\ Matches(normalizeName(name), found.suffix) /\ NoneBefore(k)
  /\ found # None => pc \in {"ip", "skip", "end", "answered", "forwarded"}
  /\ pc \in {"skip", "end", "answered"} => found.ip \in IPv4s

\* w are the offsets of the labels from the start of the question on; a whole
\* walk ends at the root, just before pos.
Walk(w) ==
  /\ w \in Seq(Nat) /\ w # <<>> /\ w[1] = 0
  /\ \A i \in 1..(Len(w) - 1) : w[i] < Len(msg.q) /\ ByteAt(w[i]) > 0 /\ w[i + 1] = w[i] + 1 + ByteAt(w[i])
WholeWalk(w) ==
  Walk(w) /\ w[Len(w)] < Len(msg.q) /\ ByteAt(w[Len(w)]) = 0 /\ pos = w[Len(w)] + 1
WalkInv ==
  /\ pc \in StartPcs \cup {"header"} => pos = 0 /\ qEnd = 0
  /\ pc = "label" => qEnd = 0 /\ \E w : Walk(w) /\ w[Len(w)] = pos
  /\ pc \in {"type", "lookup", "ip"} => qEnd = 0 /\ \E w : WholeWalk(w)
  /\ pc \in {"lookup", "ip", "skip", "end"} => pos + 4 <= Len(msg.q)
  /\ pc = "skip" => \E w : WholeWalk(w) /\ \E i \in 1..Len(w) : qEnd = w[i]
  /\ pc = "end" => qEnd = pos
  /\ reply # None => pc = "answered"

RedirectorInv ==
  TypeOK /\ ConfigInv /\ TableInv /\ FoundInv /\ WalkInv /\ AnswerEchoesQuestion

-----------------------------------------------------------------------------
(* Names and bytes.                                                        *)

LEMMA NormalizedIsText ==
  ASSUME NEW t \in Text
  PROVE  normalizeName(t) \in Text
<1> DEFINE u == TrimDot(t)
<1>1. u \in Seq(Byte)
  <2>1. t \in Seq(Byte) /\ Len(t) \in Nat
    BY DEF Text
  <2>2. \A i \in 1..(Len(t) - 1) : t[i] \in Byte
    BY <2>1
  <2>3. SubSeq(t, 1, Len(t) - 1) \in Seq(Byte)
    BY <2>1, <2>2
  <2> QED
    BY <2>1, <2>3 DEF TrimDot
<1> HIDE DEF u
<1>2. \A i \in DOMAIN u : Lower(u[i]) \in Byte
  <2>1. \A b \in Byte : Lower(b) \in Byte
    BY DEF Lower, Byte
  <2>2. \A i \in DOMAIN u : u[i] \in Byte
    BY <1>1
  <2> QED
    BY <2>1, <2>2
<1>3. [i \in DOMAIN u |-> Lower(u[i])] \in Seq(Byte)
  BY <1>1, <1>2
<1> QED
  BY <1>3 DEF normalizeName, Text, u

\* The bytes of the datagram at hand.
LEMMA MessageBytes ==
  ASSUME TypeOK
  PROVE  /\ msg.q \in Seq(Byte) /\ Len(msg.q) \in Nat
         /\ \A p \in Nat : p < Len(msg.q) => ByteAt(p) \in 0..255
<1>1. msg.q \in Seq(Byte)
  BY DEF TypeOK, Datagram
<1>2. \A i \in 1..Len(msg.q) : msg.q[i] \in 0..255
  <2>1. \A i \in 1..Len(msg.q) : msg.q[i] \in Byte
    BY <1>1
  <2> QED
    BY <2>1 DEF Byte
<1>3. \A p \in Nat : p < Len(msg.q) => p + 1 \in 1..Len(msg.q)
  BY <1>1
<1> QED
  BY <1>1, <1>2, <1>3 DEF ByteAt

LEMMA RuleOfLine ==
  ASSUME TypeOK, NEW l \in Lines, l.rule, ~Malformed(l)
  PROVE  RuleOf(l) \in Rule /\ RuleOf(l).suffix = normalizeName(l.name)
<1>1. l \in Line
  BY InputsAssumption
<1>2. l.name \in Text /\ l.ip \in IPs \cup {None, BadIP}
  BY <1>1 DEF Line
<1>3. normalizeName(l.name) \in Text
  BY <1>2, NormalizedIsText
<1>4. l.ip # BadIP
  BY DEF Malformed
<1> QED
  BY <1>2, <1>3, <1>4 DEF RuleOf, Rule, TypeOK

-----------------------------------------------------------------------------

LEMMA InitEstablishes == Init => RedirectorInv
<1> SUFFICES ASSUME Init PROVE RedirectorInv
  OBVIOUS
<1>1. TypeOK
  <2>1. config \in Seq(Lines) /\ suffixes \in Seq(SuffixArgs)
    BY ValuesAssumption DEF Init, BoundedSeq, SeqOf
  <2>2. msg \in Datagram
    BY DEF Init, NoMsg, Datagram
  <2>3. given \in Seq(Rule) /\ rules \in Seq(Rule) /\ name \in Text
    BY DEF Init, Text
  <2>4. pc \in StartPcs \cup HandlePcs /\ k \in Nat /\ pos \in Nat /\ qEnd \in Nat
    BY DEF Init, StartPcs
  <2>5. present \in BOOLEAN /\ explicit \in BOOLEAN /\ first \in BOOLEAN /\ defaultIP \in IPs
    BY DEF Init
  <2> QED
    BY <2>1, <2>2, <2>3, <2>4, <2>5 DEF Init, TypeOK
<1>2. ConfigInv
  BY <1>1 DEF Init, ConfigInv, Understood, TypeOK
<1>3. TableInv
  BY DEF Init, TableInv, Serving, HandlePcs
<1>4. FoundInv /\ WalkInv /\ AnswerEchoesQuestion
  BY DEF Init, FoundInv, WalkInv, AnswerEchoesQuestion
<1> QED
  BY <1>1, <1>2, <1>3, <1>4 DEF RedirectorInv
-----------------------------------------------------------------------------
(* What one half of the program leaves alone of the other.                 *)

\* Start-up touches no datagram.
LEMMA StartFrame ==
  ASSUME RedirectorInv, Stays, pc \in StartPcs, pc' \in StartPcs
  PROVE  FoundInv' /\ WalkInv' /\ AnswerEchoesQuestion'
<1>1. found = None /\ reply = None /\ pos = 0 /\ qEnd = 0
  BY DEF RedirectorInv, FoundInv, WalkInv, StartPcs
<1>2. found' = None /\ reply' = None /\ pos' = 0 /\ qEnd' = 0
  BY <1>1 DEF Stays, question
<1>3. pc' \in {"config", "suffixes", "dedupe", "sort", "serve", "fatal"}
  BY DEF StartPcs
<1>4. FoundInv' /\ AnswerEchoesQuestion'
  BY <1>2, <1>3 DEF FoundInv, AnswerEchoesQuestion
<1>5. WalkInv'
  BY <1>2, <1>3 DEF WalkInv
<1> QED
  BY <1>4, <1>5

\* A handler changes neither the configuration nor the table.
LEMMA HandleFrame ==
  ASSUME RedirectorInv, pc \in Serving, pc' \in HandlePcs, UNCHANGED <<flags, given, rules>>
  PROVE  ConfigInv' /\ TableInv'
<1>1. /\ config' = config /\ explicit' = explicit /\ present' = present /\ defaultIP' = defaultIP
      /\ given' = given /\ rules' = rules
  BY DEF flags
<1>2. pc \notin {"config", "fatal", "suffixes", "dedupe"} /\ pc' \notin {"config", "fatal", "suffixes", "dedupe"}
  BY DEF Serving, HandlePcs
<1>3. pc' \in Serving /\ pc' # "sort"
  BY DEF Serving, HandlePcs
<1>4. ConfigInv'
  BY <1>1, <1>2 DEF RedirectorInv, ConfigInv, Understood, Malformed
<1>5. TableInv'
  BY <1>1, <1>2, <1>3 DEF RedirectorInv, TableInv, TableOf, Earliest
<1> QED
  BY <1>4, <1>5

-----------------------------------------------------------------------------
(* Start-up.                                                               *)

LEMMA ReadLineKeeps == RedirectorInv /\ ReadLine => RedirectorInv'
<1> SUFFICES ASSUME RedirectorInv, ReadLine PROVE RedirectorInv'
  OBVIOUS
<1>1. /\ TypeOK /\ pc = "config" /\ k \in 1..Len(config) /\ Understood(k - 1) /\ rules = <<>>
      /\ config' = config /\ explicit' = explicit /\ present' = present /\ defaultIP' = defaultIP
      /\ rules' = rules /\ suffixes' = suffixes
  BY DEF RedirectorInv, ReadLine, Stays, flags, ConfigInv, TableInv, TypeOK
<1>2. config \in Seq(Lines) /\ config[k] \in Lines /\ given \in Seq(Rule) /\ Len(config) \in Nat
  BY <1>1 DEF TypeOK
<1>3. CASE Malformed(config[k]) /\ pc' = "fatal" /\ UNCHANGED <<k, given>>
  <2>1. TypeOK'
    BY <1>1, <1>3 DEF TypeOK, StartPcs, Stays, ReadLine, question
  <2>2. ConfigInv' /\ TableInv'
    BY <1>3 DEF ConfigInv, TableInv, Serving, HandlePcs
  <2>3. FoundInv' /\ WalkInv' /\ AnswerEchoesQuestion'
    BY <1>1, <1>3, StartFrame DEF StartPcs, ReadLine
  <2> QED
    BY <2>1, <2>2, <2>3 DEF RedirectorInv
<1>4. CASE /\ k' = k + 1 /\ pc' = pc
           /\ ~Malformed(config[k])
           /\ given' = IF config[k].rule THEN Append(given, RuleOf(config[k])) ELSE given
  <2>1. config[k].rule => RuleOf(config[k]) \in Rule /\ RuleOf(config[k]).suffix = normalizeName(config[k].name)
    BY <1>1, <1>2, <1>4, RuleOfLine
  <2>2. given' \in Seq(Rule)
    BY <1>2, <1>4, <2>1
  <2>3. TypeOK'
    BY <1>1, <1>4, <2>2 DEF TypeOK, StartPcs, Stays, ReadLine, question
  <2>4. \A j \in DOMAIN given : j \in DOMAIN given' /\ given'[j] = given[j]
    BY <1>2, <1>4, <2>1
  <2>5. config[k].rule => \E j \in DOMAIN given' : given'[j].suffix = normalizeName(config[k].name)
    <3> SUFFICES ASSUME config[k].rule
                 PROVE  \E j \in DOMAIN given' : given'[j].suffix = normalizeName(config[k].name)
      OBVIOUS
    <3>1. Len(given) + 1 \in DOMAIN given' /\ given'[Len(given) + 1] = RuleOf(config[k])
      BY <1>2, <1>4, <2>1
    <3> QED
      BY <3>1, <2>1
  <2>6. \A i \in 1..k : /\ ~Malformed(config[i])
                        /\ config[i].rule => \E j \in DOMAIN given' : given'[j].suffix = normalizeName(config[i].name)
    <3> SUFFICES ASSUME NEW i \in 1..k
                 PROVE  /\ ~Malformed(config[i])
                        /\ config[i].rule => \E j \in DOMAIN given' : given'[j].suffix = normalizeName(config[i].name)
      OBVIOUS
    <3>1. CASE i = k
      BY <3>1, <1>4, <2>5
    <3>2. CASE i \in 1..(k - 1)
      BY <3>2, <1>1, <2>4 DEF Understood
    <3> QED
      BY <3>1, <3>2, <1>1
  <2>7. k' \in 1..(Len(config') + 1) /\ k' - 1 = k
    BY <1>1, <1>2, <1>4
  <2>8. ConfigInv'
    BY <1>1, <1>4, <2>6, <2>7 DEF ConfigInv, Understood
  <2>9. TableInv'
    BY <1>1, <1>4 DEF TableInv, Serving, HandlePcs, TypeOK
  <2>10. FoundInv' /\ WalkInv' /\ AnswerEchoesQuestion'
    BY <1>1, <1>4, StartFrame DEF StartPcs, ReadLine
  <2> QED
    BY <2>3, <2>8, <2>9, <2>10 DEF RedirectorInv
<1> QED
  BY <1>3, <1>4 DEF ReadLine, Malformed

LEMMA ReadFailsKeeps == RedirectorInv /\ ReadFails => RedirectorInv'
<1> SUFFICES ASSUME RedirectorInv, ReadFails PROVE RedirectorInv'
  OBVIOUS
<1>1. TypeOK /\ pc = "config" /\ pc' = "fatal" /\ Stays /\ UNCHANGED <<k, given, rules>>
  BY DEF RedirectorInv, ReadFails
<1>2. TypeOK'
  BY <1>1 DEF TypeOK, StartPcs, Stays, question, flags
<1>3. ConfigInv' /\ TableInv'
  BY <1>1 DEF ConfigInv, TableInv, Serving, HandlePcs
<1>4. FoundInv' /\ WalkInv' /\ AnswerEchoesQuestion'
  BY <1>1, StartFrame DEF StartPcs
<1> QED
  BY <1>2, <1>3, <1>4 DEF RedirectorInv

LEMMA ConfigReadKeeps == RedirectorInv /\ ConfigRead => RedirectorInv'
<1> SUFFICES ASSUME RedirectorInv, ConfigRead PROVE RedirectorInv'
  OBVIOUS
<1>1. /\ TypeOK /\ pc = "config" /\ k = Len(config) + 1 /\ Understood(k - 1) /\ rules = <<>>
      /\ config' = config /\ explicit' = explicit /\ present' = present
      /\ rules' = rules /\ given' = given /\ k' = 1
      /\ pc' = IF ~present /\ explicit THEN "fatal" ELSE "suffixes"
  BY DEF RedirectorInv, ConfigRead, Stays, flags, ConfigInv, TableInv, TypeOK
<1>2. pc' \in {"fatal", "suffixes"}
  BY <1>1
<1>3. TypeOK'
  BY <1>1, <1>2 DEF TypeOK, StartPcs, Stays, ConfigRead, question, flags
<1>4. Understood(Len(config)) /\ Len(config) \in Nat
  BY <1>1 DEF TypeOK
<1>5. ConfigInv'
  BY <1>1, <1>2, <1>4 DEF ConfigInv, Understood
<1>6. TableInv'
  BY <1>1, <1>2 DEF TableInv, Serving, HandlePcs
<1>7. FoundInv' /\ WalkInv' /\ AnswerEchoesQuestion'
  BY <1>1, <1>2, StartFrame DEF StartPcs, ConfigRead
<1> QED
  BY <1>3, <1>5, <1>6, <1>7 DEF RedirectorInv

LEMMA AddSuffixKeeps == RedirectorInv /\ AddSuffix => RedirectorInv'
<1> SUFFICES ASSUME RedirectorInv, AddSuffix PROVE RedirectorInv'
  OBVIOUS
<1> DEFINE s == normalizeName(suffixes[k])
<1>1. /\ TypeOK /\ pc = "suffixes" /\ k \in 1..Len(suffixes) /\ Understood(Len(config)) /\ rules = <<>>
      /\ explicit => present
      /\ config' = config /\ explicit' = explicit /\ present' = present
      /\ rules' = rules /\ pc' = pc /\ k' = k + 1
  BY DEF RedirectorInv, AddSuffix, Stays, flags, ConfigInv, TableInv, TypeOK
<1>2. given' = IF s = <<>> THEN given ELSE Append(given, [suffix |-> s, ip |-> defaultIP])
  BY DEF AddSuffix
<1>3. s \in Text
  <2>1. suffixes[k] \in SuffixArgs
    BY <1>1 DEF TypeOK
  <2> QED
    BY <2>1, InputsAssumption, NormalizedIsText
<1> HIDE DEF s
<1>4. [suffix |-> s, ip |-> defaultIP] \in Rule /\ given \in Seq(Rule)
  BY <1>1, <1>3 DEF Rule, TypeOK
<1>5. /\ given' \in Seq(Rule)
      /\ \A j \in DOMAIN given : j \in DOMAIN given' /\ given'[j] = given[j]
  BY <1>2, <1>4
<1>6. TypeOK'
  BY <1>1, <1>5 DEF TypeOK, StartPcs, Stays, AddSuffix, question, flags
<1>7. ConfigInv'
  BY <1>1, <1>5 DEF ConfigInv, Understood
<1>8. TableInv'
  BY <1>1 DEF TableInv, Serving, HandlePcs, TypeOK
<1>9. FoundInv' /\ WalkInv' /\ AnswerEchoesQuestion'
  BY <1>1, StartFrame DEF StartPcs, AddSuffix
<1> QED
  BY <1>6, <1>7, <1>8, <1>9 DEF RedirectorInv

LEMMA SuffixesAddedKeeps == RedirectorInv /\ SuffixesAdded => RedirectorInv'
<1> SUFFICES ASSUME RedirectorInv, SuffixesAdded PROVE RedirectorInv'
  OBVIOUS
<1>1. /\ TypeOK /\ pc = "suffixes" /\ Understood(Len(config)) /\ rules = <<>>
      /\ explicit => present
      /\ config' = config /\ explicit' = explicit /\ present' = present
      /\ rules' = rules /\ given' = given /\ pc' = "dedupe" /\ k' = 1
  BY DEF RedirectorInv, SuffixesAdded, Stays, flags, ConfigInv, TableInv
<1>2. TypeOK'
  BY <1>1 DEF TypeOK, StartPcs, Stays, SuffixesAdded, question, flags
<1>3. ConfigInv'
  BY <1>1 DEF ConfigInv, Understood
<1>4. TableInv'
  BY <1>1, <1>2 DEF TableInv, TableOf, Earliest, Serving, HandlePcs, TypeOK
<1>5. FoundInv' /\ WalkInv' /\ AnswerEchoesQuestion'
  BY <1>1, StartFrame DEF StartPcs, SuffixesAdded
<1> QED
  BY <1>2, <1>3, <1>4, <1>5 DEF RedirectorInv

\* dedupeRules keeps the first rule of a suffix: the one it appends has none
\* of its suffix before it among those given.
LEMMA DedupeKeeps == RedirectorInv /\ Dedupe => RedirectorInv'
<1> SUFFICES ASSUME RedirectorInv, Dedupe PROVE RedirectorInv'
  OBVIOUS
<1>1. /\ TypeOK /\ pc = "dedupe" /\ k \in 1..Len(given) /\ Understood(Len(config)) /\ TableOf(k - 1)
      /\ explicit => present
      /\ config' = config /\ explicit' = explicit /\ present' = present
      /\ given' = given /\ pc' = pc /\ k' = k + 1
  BY DEF RedirectorInv, Dedupe, Stays, flags, ConfigInv, TableInv, TypeOK
<1>2. rules \in Seq(Rule) /\ given \in Seq(Rule) /\ given[k] \in Rule /\ Len(given) \in Nat
  BY <1>1 DEF TypeOK
<1>3. \A q \in DOMAIN rules : Earliest(rules[q], k - 1)
  BY <1>1 DEF TableOf
<1>4. /\ rules' \in Seq(Rule)
      /\ \A q \in DOMAIN rules : q \in DOMAIN rules' /\ rules'[q] = rules[q]
      /\ \E q \in DOMAIN rules' : rules'[q].suffix = given[k].suffix
      /\ \A q \in DOMAIN rules' : q \in DOMAIN rules \/ (rules'[q] = given[k] /\ \A p \in DOMAIN rules : rules[p].suffix # given[k].suffix)
  <2>1. CASE \E i \in DOMAIN rules : rules[i].suffix = given[k].suffix
    BY <2>1, <1>2 DEF Dedupe
  <2>2. CASE \A i \in DOMAIN rules : rules[i].suffix # given[k].suffix
    <3>1. rules' = Append(rules, given[k])
      BY <2>2 DEF Dedupe
    <3>2. Len(rules) + 1 \in DOMAIN rules' /\ rules'[Len(rules) + 1] = given[k]
      BY <3>1, <1>2
    <3> QED
      BY <3>1, <3>2, <1>2, <2>2
  <2> QED
    BY <2>1, <2>2
<1>5. \A q \in DOMAIN rules' : Earliest(rules'[q], k)
  <2> SUFFICES ASSUME NEW q \in DOMAIN rules' PROVE Earliest(rules'[q], k)
    OBVIOUS
  <2>1. CASE q \in DOMAIN rules
    <3>1. Earliest(rules[q], k - 1) /\ rules'[q] = rules[q]
      BY <2>1, <1>3, <1>4
    <3> QED
      BY <3>1, <1>1 DEF Earliest
  <2>2. CASE rules'[q] = given[k] /\ \A p \in DOMAIN rules : rules[p].suffix # given[k].suffix
    <3>1. \A j \in 1..(k - 1) : given[j].suffix # given[k].suffix
      BY <2>2, <1>1 DEF TableOf
    <3> QED
      BY <3>1, <2>2, <1>1 DEF Earliest
  <2> QED
    BY <2>1, <2>2, <1>4
<1>6. \A i \in 1..k : \E q \in DOMAIN rules' : rules'[q].suffix = given[i].suffix
  <2> SUFFICES ASSUME NEW i \in 1..k PROVE \E q \in DOMAIN rules' : rules'[q].suffix = given[i].suffix
    OBVIOUS
  <2>1. CASE i = k
    BY <2>1, <1>4
  <2>2. CASE i \in 1..(k - 1)
    BY <2>2, <1>1, <1>4 DEF TableOf
  <2> QED
    BY <2>1, <2>2, <1>1
<1>7. TypeOK'
  BY <1>1, <1>4 DEF TypeOK, StartPcs, Stays, Dedupe, question, flags
<1>8. ConfigInv'
  BY <1>1 DEF ConfigInv, Understood
<1>9. k' \in 1..(Len(given') + 1) /\ k' - 1 = k
  BY <1>1, <1>2
<1>10. TableInv'
  BY <1>1, <1>5, <1>6, <1>9 DEF TableInv, TableOf, Earliest, Serving, HandlePcs
<1>11. FoundInv' /\ WalkInv' /\ AnswerEchoesQuestion'
  BY <1>1, StartFrame DEF StartPcs, Dedupe
<1> QED
  BY <1>7, <1>8, <1>10, <1>11 DEF RedirectorInv

LEMMA DedupedKeeps == RedirectorInv /\ Deduped => RedirectorInv'
<1> SUFFICES ASSUME RedirectorInv, Deduped PROVE RedirectorInv'
  OBVIOUS
<1>1. /\ TypeOK /\ pc = "dedupe" /\ k = Len(given) + 1 /\ Understood(Len(config)) /\ TableOf(k - 1)
      /\ explicit => present
      /\ config' = config /\ explicit' = explicit /\ present' = present
      /\ rules' = rules /\ given' = given /\ pc' = "sort" /\ k' = k
  BY DEF RedirectorInv, Deduped, Stays, flags, ConfigInv, TableInv, TypeOK
<1>2. TypeOK'
  BY <1>1 DEF TypeOK, StartPcs, Stays, Deduped, question, flags
<1>3. ConfigInv'
  BY <1>1 DEF ConfigInv, Understood
<1>4. TableOf(Len(given))
  BY <1>1 DEF TypeOK
<1>5. TableInv'
  BY <1>1, <1>4 DEF TableInv, TableOf, Earliest, Serving, HandlePcs
<1>6. FoundInv' /\ WalkInv' /\ AnswerEchoesQuestion'
  BY <1>1, StartFrame DEF StartPcs, Deduped
<1> QED
  BY <1>2, <1>3, <1>5, <1>6 DEF RedirectorInv

\* The sort loses no rule and leaves none longer behind a shorter one.
LEMMA SortRulesKeeps == RedirectorInv /\ SortRules => RedirectorInv'
<1> SUFFICES ASSUME RedirectorInv, SortRules PROVE RedirectorInv'
  OBVIOUS
<1> DEFINE len == Len(rules)
           lens == [i \in DOMAIN rules |-> Len(rules[i].suffix)]
<1>1. /\ TypeOK /\ pc = "sort" /\ Understood(Len(config)) /\ TableOf(Len(given))
      /\ explicit => present
      /\ config' = config /\ explicit' = explicit /\ present' = present
      /\ given' = given /\ pc' = "serve" /\ k' = k
  BY DEF RedirectorInv, SortRules, Stays, flags, ConfigInv, TableInv
<1>2. rules \in Seq(Rule) /\ len \in Nat /\ DOMAIN rules = 1..len
  BY <1>1 DEF TypeOK
<1>3. lens \in [1..len -> Nat]
  <2>1. \A i \in 1..len : rules[i] \in Rule
    BY <1>2
  <2>2. \A r \in Rule : Len(r.suffix) \in Nat
    BY DEF Rule, Text
  <2> QED
    BY <2>1, <2>2, <1>2
<1>4. PICK p \in [1..len -> 1..len] : LongestFirst(p, lens) /\ rules' = Reordered(rules, p)
  BY <1>2 DEF SortRules
<1>5. \A j \in 1..len : \E i \in 1..len : p[i] = j
  BY <1>2, <1>3, <1>4, SortReachesAll
<1>6. \A i, j \in 1..len : i < j => lens[p[i]] >= lens[p[j]]
  BY <1>2, <1>3, <1>4, SortDescends
<1>7. /\ rules' \in Seq(Rule) /\ DOMAIN rules' = 1..len
      /\ \A i \in 1..len : rules'[i] = rules[p[i]] /\ Len(rules'[i].suffix) = lens[p[i]]
  <2>1. rules' = [i \in 1..len |-> rules[p[i]]]
    BY <1>2, <1>4 DEF Reordered
  <2>2. \A i \in 1..len : rules[p[i]] \in Rule
    BY <1>2, <1>4
  <2> QED
    BY <2>1, <2>2, <1>2, <1>4
<1>8. \A q \in DOMAIN rules' : Earliest(rules'[q], Len(given))
  BY <1>1, <1>2, <1>7 DEF TableOf
<1>9. \A i \in 1..Len(given) : \E q \in DOMAIN rules' : rules'[q].suffix = given[i].suffix
  <2> SUFFICES ASSUME NEW i \in 1..Len(given) PROVE \E q \in 1..len : rules'[q].suffix = given[i].suffix
    BY <1>7
  <2>1. PICK j \in 1..len : rules[j].suffix = given[i].suffix
    BY <1>1, <1>2 DEF TableOf
  <2>2. PICK q \in 1..len : p[q] = j
    BY <1>5
  <2> QED
    BY <2>1, <2>2, <1>7
<1>10. \A i, j \in DOMAIN rules' : i < j => Len(rules'[i].suffix) >= Len(rules'[j].suffix)
  <2> SUFFICES ASSUME NEW i \in 1..len, NEW j \in 1..len, i < j
               PROVE  Len(rules'[i].suffix) >= Len(rules'[j].suffix)
    BY <1>7, Zenon
  <2>1. lens[p[i]] >= lens[p[j]]
    BY <1>6, Zenon
  <2>2. Len(rules'[i].suffix) = lens[p[i]] /\ Len(rules'[j].suffix) = lens[p[j]]
    BY <1>7, Zenon
  <2> HIDE DEF lens
  <2> QED
    BY <2>1, <2>2, Zenon
<1>11. TypeOK'
  BY <1>1, <1>7 DEF TypeOK, StartPcs, Stays, SortRules, question, flags
<1>12. ConfigInv'
  BY <1>1 DEF ConfigInv, Understood
<1>13. TableInv'
  BY <1>1, <1>8, <1>9, <1>10 DEF TableInv, TableOf, Earliest
<1>14. FoundInv' /\ WalkInv' /\ AnswerEchoesQuestion'
  BY <1>1, StartFrame DEF StartPcs, SortRules
<1> QED
  BY <1>11, <1>12, <1>13, <1>14 DEF RedirectorInv

-----------------------------------------------------------------------------
(* One datagram.                                                           *)

LEMMA ReceiveKeeps ==
  ASSUME RedirectorInv, NEW d \in Datagrams, Receive(d)
  PROVE  RedirectorInv'
<1>1. /\ TypeOK /\ pc = "serve" /\ pc' = "header" /\ k' = 1
      /\ msg' = [d EXCEPT !.q = Clip(d.q)]
      /\ UNCHANGED <<flags, given, rules, question, found, qEnd, reply>>
  BY DEF RedirectorInv, Receive, Go
<1>2. found = None /\ reply = None /\ pos = 0 /\ qEnd = 0
  BY <1>1 DEF RedirectorInv, FoundInv, WalkInv, StartPcs
<1>3. msg' \in Datagram
  <2>1. d \in Datagram /\ d.q \in Seq(Byte)
    BY InputsAssumption DEF Datagram
  <2>2. Clip(d.q) \in Seq(Byte)
    <3> DEFINE n == IF Len(d.q) < BufLen THEN Len(d.q) ELSE BufLen
    <3>1. n \in 0..Len(d.q)
      BY <2>1, ValuesAssumption
    <3> HIDE DEF n
    <3>2. \A i \in 1..n : d.q[i] \in Byte
      BY <2>1, <3>1
    <3>3. SubSeq(d.q, 1, n) \in Seq(Byte)
      BY <2>1, <3>1, <3>2
    <3> QED
      BY <3>3 DEF Clip, n
  <2> QED
    BY <1>1, <2>1, <2>2 DEF Datagram
<1>4. TypeOK'
  BY <1>1, <1>3 DEF TypeOK, HandlePcs, flags, question
<1>5. ConfigInv' /\ TableInv'
  BY <1>1, HandleFrame DEF Serving, HandlePcs
<1>6. FoundInv' /\ WalkInv' /\ AnswerEchoesQuestion'
  BY <1>1, <1>2 DEF FoundInv, WalkInv, AnswerEchoesQuestion, question
<1> QED
  BY <1>4, <1>5, <1>6 DEF RedirectorInv

\* Giving up before a rule is found ends the handler.
LEMMA ForwardKeeps ==
  ASSUME RedirectorInv, pc \in {"header", "label", "type", "lookup"}, Forward,
         Handling, UNCHANGED <<question, found, qEnd, reply>>
  PROVE  RedirectorInv'
<1>1. found = None /\ reply = None /\ pc' = "forwarded" /\ found' = found /\ reply' = reply
  BY DEF RedirectorInv, FoundInv, WalkInv, Forward, Go
<1>2. TypeOK'
  BY <1>1 DEF RedirectorInv, TypeOK, HandlePcs, flags, question, Handling
<1>3. ConfigInv' /\ TableInv'
  BY <1>1, HandleFrame DEF Serving, HandlePcs, Handling
<1>4. FoundInv' /\ WalkInv' /\ AnswerEchoesQuestion'
  BY <1>1 DEF FoundInv, WalkInv, AnswerEchoesQuestion, StartPcs
<1> QED
  BY <1>2, <1>3, <1>4 DEF RedirectorInv

LEMMA ParseHeaderKeeps == RedirectorInv /\ ParseHeader => RedirectorInv'
<1> SUFFICES ASSUME RedirectorInv, ParseHeader PROVE RedirectorInv'
  OBVIOUS
<1>1. CASE Forward
  BY <1>1, ForwardKeeps DEF ParseHeader
<1>2. CASE pc' = "label"
  <2>1. /\ TypeOK /\ pc = "header" /\ Handling /\ UNCHANGED <<question, found, qEnd, reply>>
    BY DEF RedirectorInv, ParseHeader
  <2>2. found = None /\ reply = None /\ k = 1 /\ pos = 0 /\ qEnd = 0
    BY <2>1 DEF RedirectorInv, FoundInv, WalkInv
  <2>3. TypeOK'
    BY <2>1, <1>2 DEF TypeOK, HandlePcs, flags, question, Handling
  <2>4. ConfigInv' /\ TableInv'
    BY <2>1, <1>2, HandleFrame DEF Serving, HandlePcs, Handling
  <2>5. FoundInv' /\ AnswerEchoesQuestion'
    BY <2>1, <2>2, <1>2 DEF FoundInv, AnswerEchoesQuestion, Handling
  <2>6. \E w : Walk(w)' /\ w[Len(w)] = 0
    <3> DEFINE w == <<0>>
    <3>1. w \in Seq(Nat) /\ w # <<>> /\ Len(w) = 1 /\ w[1] = 0
      OBVIOUS
    <3> HIDE DEF w
    <3>2. Walk(w)'
      BY <3>1 DEF Walk
    <3> QED
      BY <3>1, <3>2
  <2>7. WalkInv'
    BY <2>1, <2>2, <2>6, <1>2 DEF WalkInv, StartPcs, question
  <2> QED
    BY <2>3, <2>4, <2>5, <2>7 DEF RedirectorInv
<1> QED
  BY <1>1, <1>2 DEF ParseHeader, Go

LEMMA RefuseLabelKeeps == RedirectorInv /\ RefuseLabel => RedirectorInv'
BY ForwardKeeps DEF RefuseLabel

\* A label extends the walk; the root makes it whole.
LEMMA ParseLabelKeeps == RedirectorInv /\ ParseLabel => RedirectorInv'
<1> SUFFICES ASSUME RedirectorInv, ParseLabel PROVE RedirectorInv'
  OBVIOUS
<1> DEFINE l == ByteAt(pos)
<1>1. /\ TypeOK /\ pc = "label" /\ Handling /\ UNCHANGED <<found, qEnd, reply>>
      /\ found = None /\ reply = None /\ k = 1 /\ qEnd = 0
  BY DEF RedirectorInv, ParseLabel, FoundInv, WalkInv
<1>2. pos \in Nat /\ pos < Len(msg.q) /\ l \in 0..255 /\ Len(msg.q) \in Nat /\ msg.q \in Seq(Byte)
  BY <1>1, MessageBytes DEF ParseLabel, AtEnd, TypeOK
<1>3. TakeLabel(l) /\ pos' = pos + 1 + l
  BY <1>2 DEF ParseLabel, TakeLabel
<1>4. PICK w : Walk(w) /\ w[Len(w)] = pos
  BY <1>1 DEF RedirectorInv, WalkInv
<1>5. msg' = msg
  BY <1>1 DEF Handling
<1> HIDE DEF l
<1>6. CASE l = 0 /\ pc' = "type" /\ UNCHANGED <<name, first>>
  <2>1. TypeOK'
    BY <1>1, <1>2, <1>3, <1>6 DEF TypeOK, HandlePcs, flags, Handling
  <2>2. ConfigInv' /\ TableInv'
    BY <1>1, <1>6, HandleFrame DEF Serving, HandlePcs, Handling
  <2>3. FoundInv' /\ AnswerEchoesQuestion'
    BY <1>1, <1>6 DEF FoundInv, AnswerEchoesQuestion, Handling
  <2>4. WholeWalk(w)'
    <3>1. w[Len(w)] < Len(msg.q) /\ ByteAt(w[Len(w)]) = 0 /\ pos' = w[Len(w)] + 1
      BY <1>2, <1>3, <1>4, <1>6 DEF l
    <3>2. Walk(w)' /\ ByteAt(w[Len(w)])' = ByteAt(w[Len(w)])
      BY <1>4, <1>5 DEF Walk, ByteAt
    <3> QED
      BY <3>1, <3>2, <1>5 DEF WholeWalk
  <2>5. WalkInv'
    BY <1>1, <1>6, <2>4 DEF WalkInv, StartPcs
  <2> QED
    BY <2>1, <2>2, <2>3, <2>5 DEF RedirectorInv
<1>7. CASE /\ l > 0 /\ pos + 1 + l <= Len(msg.q) /\ pc' = pc /\ first' = FALSE
           /\ name' = LET label == SubSeq(msg.q, pos + 2, pos + 1 + l)
                      IN  IF first THEN label ELSE name \o <<Dot>> \o label
  <2>1. name' \in Text
    <3> DEFINE label == SubSeq(msg.q, pos + 2, pos + 1 + l)
    <3>1. \A i \in (pos + 2)..(pos + 1 + l) : msg.q[i] \in Byte
      BY <1>2, <1>7
    <3>2. label \in Seq(Byte)
      BY <1>2, <1>7, <3>1
    <3>3. <<Dot>> \in Seq(Byte) /\ name \in Seq(Byte)
      <4>1. Dot \in Byte
        BY DEF Dot, Byte
      <4> QED
        BY <4>1, <1>1 DEF TypeOK, Text
    <3> HIDE DEF label
    <3>4. name \o <<Dot>> \o label \in Seq(Byte)
      BY <3>2, <3>3
    <3>5. name' = IF first THEN label ELSE name \o <<Dot>> \o label
      BY <1>7 DEF label
    <3> QED
      BY <3>2, <3>4, <3>5 DEF Text
  <2>2. TypeOK'
    <3>1. pos' \in Nat
      BY <1>2, <1>3
    <3>2. first' \in BOOLEAN /\ pc' = pc
      BY <1>7, Zenon
    <3> QED
      BY <1>1, <2>1, <3>1, <3>2 DEF TypeOK, flags, Handling
  <2>3. ConfigInv' /\ TableInv'
    BY <1>1, <1>7, HandleFrame DEF Serving, HandlePcs, Handling
  <2>4. FoundInv' /\ AnswerEchoesQuestion'
    BY <1>1, <1>7 DEF FoundInv, AnswerEchoesQuestion, Handling
  <2>5. PICK v : v = Append(w, pos')
    OBVIOUS
  <2>6. Walk(v)' /\ v[Len(v)] = pos'
    <3>1. w \in Seq(Nat) /\ w # <<>> /\ pos' \in Nat /\ Len(w) \in Nat \ {0}
      BY <1>2, <1>3, <1>4 DEF Walk
    <3>2. /\ v \in Seq(Nat) /\ v # <<>> /\ Len(v) = Len(w) + 1 /\ v[Len(v)] = pos'
          /\ \A i \in 1..Len(w) : v[i] = w[i]
      BY <3>1, <2>5
    <3>3. ASSUME NEW i \in 1..Len(w)
          PROVE  v[i] < Len(msg.q) /\ ByteAt(v[i]) > 0 /\ v[i + 1] = v[i] + 1 + ByteAt(v[i])
      <4>1. CASE i = Len(w)
        BY <4>1, <3>1, <3>2, <1>2, <1>3, <1>4, <1>7 DEF l
      <4>2. CASE i \in 1..(Len(w) - 1)
        <5>1. i + 1 \in 1..Len(w) /\ i \in 1..Len(w)
          BY <4>2, <3>1
        <5>2. w[i] < Len(msg.q) /\ ByteAt(w[i]) > 0 /\ w[i + 1] = w[i] + 1 + ByteAt(w[i])
          BY <1>4, <4>2 DEF Walk
        <5> QED
          BY <5>1, <5>2, <3>2
      <4> QED
        BY <4>1, <4>2, <3>1
    <3>4. v[1] = 0
      BY <3>1, <3>2, <1>4 DEF Walk
    <3>5. 1..(Len(v) - 1) = 1..Len(w)
      BY <3>1, <3>2
    <3>6. Walk(v)
      BY <3>2, <3>3, <3>4, <3>5, Zenon DEF Walk
    <3>7. Walk(v)'
      BY <3>6, <1>5, Zenon DEF Walk, ByteAt
    <3> QED
      BY <3>2, <3>7
  <2>7. WalkInv'
    BY <1>1, <1>7, <2>6 DEF WalkInv, StartPcs
  <2> QED
    BY <2>2, <2>3, <2>4, <2>7 DEF RedirectorInv
<1> QED
  BY <1>3, <1>6, <1>7 DEF TakeLabel, Go

\* A step that keeps the question keeps its walk.
LEMMA WalkStays ==
  ASSUME NEW w, WholeWalk(w), msg' = msg, pos' = pos
  PROVE  WholeWalk(w)'
BY DEF WholeWalk, Walk, ByteAt

LEMMA ParseTypeKeeps == RedirectorInv /\ ParseType => RedirectorInv'
<1> SUFFICES ASSUME RedirectorInv, ParseType PROVE RedirectorInv'
  OBVIOUS
<1>1. CASE Forward
  BY <1>1, ForwardKeeps DEF ParseType
<1>2. CASE pc' = "lookup" /\ pos + 4 <= Len(msg.q)
  <2>1. /\ TypeOK /\ pc = "type" /\ Handling /\ UNCHANGED <<question, found, qEnd, reply>>
        /\ found = None /\ reply = None /\ k = 1 /\ qEnd = 0 /\ msg' = msg /\ pos' = pos
    BY DEF RedirectorInv, ParseType, FoundInv, WalkInv, Handling, question
  <2>2. TypeOK'
    BY <2>1, <1>2 DEF TypeOK, HandlePcs, flags, question, Handling
  <2>3. ConfigInv' /\ TableInv'
    BY <2>1, <1>2, HandleFrame DEF Serving, HandlePcs, Handling
  <2>4. rules \in Seq(Rule) /\ Len(rules) \in Nat /\ DOMAIN rules = 1..Len(rules)
    BY <2>1 DEF TypeOK
  <2>5. FoundInv' /\ AnswerEchoesQuestion'
    BY <2>1, <2>4, <1>2 DEF FoundInv, NoneBefore, AnswerEchoesQuestion, Handling
  <2>6. PICK w : WholeWalk(w)
    BY <2>1 DEF RedirectorInv, WalkInv
  <2>7. WalkInv'
    BY <2>1, <2>6, <1>2, WalkStays DEF WalkInv, StartPcs
  <2> QED
    BY <2>2, <2>3, <2>5, <2>7 DEF RedirectorInv
<1> QED
  BY <1>1, <1>2 DEF ParseType, Go

LEMMA LookupRuleKeeps == RedirectorInv /\ LookupRule => RedirectorInv'
<1> SUFFICES ASSUME RedirectorInv, LookupRule PROVE RedirectorInv'
  OBVIOUS
<1>1. /\ TypeOK /\ pc = "lookup" /\ UNCHANGED <<flags, given, rules, msg, question, qEnd, reply>>
      /\ msg' = msg /\ pos' = pos /\ name' = name /\ rules' = rules
  BY DEF RedirectorInv, LookupRule, question
<1>2. /\ found = None /\ reply = None /\ k \in 1..(Len(rules) + 1) /\ NoneBefore(k)
      /\ qEnd = 0 /\ pos + 4 <= Len(msg.q)
  BY <1>1 DEF RedirectorInv, FoundInv, WalkInv
<1>3. PICK w : WholeWalk(w)
  BY <1>1 DEF RedirectorInv, WalkInv
<1>4. rules \in Seq(Rule) /\ Len(rules) \in Nat /\ DOMAIN rules = 1..Len(rules)
  BY <1>1 DEF TypeOK
<1>5. CASE k > Len(rules) /\ Forward /\ UNCHANGED <<k, found>>
  BY <1>1, <1>5, ForwardKeeps DEF Handling
<1>6. CASE /\ k <= Len(rules) /\ Matches(normalizeName(name), rules[k].suffix)
           /\ found' = rules[k] /\ pc' = "ip" /\ k' = k
  <2>1. k \in DOMAIN rules /\ rules[k] \in Rule
    BY <1>2, <1>4, <1>6
  <2>2. TypeOK'
    BY <1>1, <1>6, <2>1 DEF TypeOK, HandlePcs, flags, question
  <2>3. ConfigInv' /\ TableInv'
    BY <1>1, <1>6, HandleFrame DEF Serving, HandlePcs
  <2>4. FoundInv'
    BY <1>1, <1>2, <1>6, <2>1 DEF FoundInv, NoneBefore
  <2>5. AnswerEchoesQuestion'
    BY <1>1, <1>2, <1>6 DEF AnswerEchoesQuestion
  <2>6. WalkInv'
    BY <1>1, <1>2, <1>3, <1>6, WalkStays DEF WalkInv, StartPcs
  <2> QED
    BY <2>2, <2>3, <2>4, <2>5, <2>6 DEF RedirectorInv
<1>7. CASE /\ k <= Len(rules) /\ ~Matches(normalizeName(name), rules[k].suffix)
           /\ k' = k + 1 /\ pc' = pc /\ found' = found
  <2>1. k' \in 1..(Len(rules) + 1)
    BY <1>2, <1>4, <1>7
  <2>2. TypeOK'
    BY <1>1, <1>7, <2>1 DEF TypeOK, flags, question
  <2>3. ConfigInv' /\ TableInv'
    BY <1>1, <1>7, HandleFrame DEF Serving, HandlePcs
  <2>4. \A i \in DOMAIN rules : i < k' => ~Matches(normalizeName(name), rules[i].suffix)
    <3> SUFFICES ASSUME NEW i \in DOMAIN rules, i < k' PROVE ~Matches(normalizeName(name), rules[i].suffix)
      OBVIOUS
    <3>1. i = k \/ i < k
      BY <1>2, <1>4, <1>7
    <3> QED
      BY <3>1, <1>2, <1>7 DEF NoneBefore
  <2>5. FoundInv'
    BY <1>1, <1>2, <1>7, <2>1, <2>4 DEF FoundInv, NoneBefore
  <2>6. AnswerEchoesQuestion'
    BY <1>1, <1>2, <1>7 DEF AnswerEchoesQuestion
  <2>7. WalkInv'
    BY <1>1, <1>2, <1>3, <1>7, WalkStays DEF WalkInv, StartPcs
  <2> QED
    BY <2>2, <2>3, <2>5, <2>6, <2>7 DEF RedirectorInv
<1> QED
  BY <1>5, <1>6, <1>7 DEF LookupRule, Go

\* Steps after the lookup keep the rule that was found.
LEMMA FoundStays ==
  ASSUME RedirectorInv, pc \in {"ip", "skip", "end"}, Handling, UNCHANGED <<question, found>>,
         pc' \in {"ip", "skip", "end", "answered", "forwarded"},
         pc' \in {"skip", "end", "answered"} => found.ip \in IPv4s
  PROVE  FoundInv'
<1>1. /\ k \in DOMAIN rules /\ found = rules[k]
      /\ Matches(normalizeName(name), found.suffix) /\ NoneBefore(k)
  BY DEF RedirectorInv, FoundInv
<1>2. k' = k /\ rules' = rules /\ found' = found /\ name' = name
  BY DEF Handling, question
<1> QED
  BY <1>1, <1>2 DEF FoundInv, NoneBefore

LEMMA CheckIPKeeps == RedirectorInv /\ CheckIP => RedirectorInv'
<1> SUFFICES ASSUME RedirectorInv, CheckIP PROVE RedirectorInv'
  OBVIOUS
<1>1. /\ TypeOK /\ pc = "ip" /\ Handling /\ UNCHANGED <<question, found, qEnd, reply>>
      /\ msg' = msg /\ pos' = pos /\ found' = found
      /\ pc' = IF found.ip \in IPv4s THEN "skip" ELSE "forwarded"
  BY DEF RedirectorInv, CheckIP, question, Handling, Forward, Go
<1>2. reply = None /\ qEnd = 0 /\ pos + 4 <= Len(msg.q)
  BY <1>1 DEF RedirectorInv, WalkInv
<1>3. PICK w : WholeWalk(w)
  BY <1>1 DEF RedirectorInv, WalkInv
<1>4. pc' \in {"skip", "forwarded"}
  BY <1>1
<1>5. found.ip \in IPs
  <2>1. k \in DOMAIN rules /\ found = rules[k] /\ rules \in Seq(Rule)
    BY <1>1 DEF RedirectorInv, FoundInv, TypeOK
  <2>2. found \in Rule
    BY <2>1
  <2> QED
    BY <2>2 DEF Rule
<1>6. TypeOK'
  BY <1>1, <1>4 DEF TypeOK, HandlePcs, flags, question, Handling
<1>7. ConfigInv' /\ TableInv'
  BY <1>1, <1>4, HandleFrame DEF Serving, HandlePcs, Handling
<1>8. FoundInv'
  BY <1>1, FoundStays
<1>9. AnswerEchoesQuestion'
  BY <1>1, <1>2, <1>5 DEF AnswerEchoesQuestion, IPs
<1>10. WalkInv'
  <2>1. \E i \in 1..Len(w) : 0 = w[i]
    BY <1>3 DEF WholeWalk, Walk
  <2> QED
    BY <1>1, <1>2, <1>3, <1>4, <2>1, WalkStays DEF WalkInv, StartPcs
<1> QED
  BY <1>6, <1>7, <1>8, <1>9, <1>10 DEF RedirectorInv

\* The second walk visits the offsets of the first.
LEMMA SkipLabelKeeps == RedirectorInv /\ SkipLabel => RedirectorInv'
<1> SUFFICES ASSUME RedirectorInv, SkipLabel PROVE RedirectorInv'
  OBVIOUS
<1>1. /\ TypeOK /\ pc = "skip" /\ Handling /\ UNCHANGED <<question, found, reply>>
      /\ msg' = msg /\ pos' = pos /\ found' = found /\ reply' = reply
  BY DEF RedirectorInv, SkipLabel, question, Handling
<1>2. reply = None /\ pos + 4 <= Len(msg.q) /\ found.ip \in IPv4s
  BY <1>1 DEF RedirectorInv, WalkInv, FoundInv
<1>3. PICK w : WholeWalk(w) /\ \E i \in 1..Len(w) : qEnd = w[i]
  BY <1>1 DEF RedirectorInv, WalkInv
<1>4. PICK i \in 1..Len(w) : qEnd = w[i]
  BY <1>3
<1>5. w \in Seq(Nat) /\ Len(w) \in Nat
  BY <1>3 DEF WholeWalk, Walk
<1>6. qEnd \in Nat /\ qEnd < Len(msg.q) /\ Len(msg.q) \in Nat /\ ByteAt(qEnd) \in 0..255
  <2>1. qEnd < Len(msg.q)
    <3>1. CASE i = Len(w)
      BY <3>1, <1>3, <1>4 DEF WholeWalk
    <3>2. CASE i \in 1..(Len(w) - 1)
      BY <3>2, <1>3, <1>4 DEF WholeWalk, Walk
    <3> QED
      BY <3>1, <3>2, <1>5
  <2> QED
    BY <1>1, <2>1, MessageBytes DEF TypeOK
<1>7. /\ qEnd' = qEnd + 1 + ByteAt(qEnd)
      /\ pc' = IF ByteAt(qEnd) = 0 THEN "end" ELSE "skip"
  BY <1>6 DEF SkipLabel, AtEnd, Skipped, Go
<1>8. pc' \in {"skip", "end"} /\ qEnd' \in Nat
  <2>1. pc' \in {"skip", "end"}
    BY <1>7
  <2>2. PICK b \in 0..255 : b = ByteAt(qEnd)
    BY <1>6
  <2>3. qEnd' = qEnd + 1 + b
    BY <1>7, <2>2, Zenon
  <2>4. qEnd' \in Nat
    BY <1>6, <2>3
  <2> QED
    BY <2>1, <2>4
<1>9. TypeOK'
  BY <1>1, <1>8 DEF TypeOK, HandlePcs, flags, question, Handling
<1>10. ConfigInv' /\ TableInv'
  BY <1>1, <1>8, HandleFrame DEF Serving, HandlePcs, Handling
<1>11. FoundInv'
  BY <1>1, <1>2, <1>8, FoundStays
<1>12. AnswerEchoesQuestion'
  BY <1>1, <1>2, <1>8 DEF AnswerEchoesQuestion
<1>13. WalkInv'
  <2>1. CASE i = Len(w)
    <3>1. ByteAt(qEnd) = 0 /\ pos = qEnd + 1
      BY <2>1, <1>3, <1>4 DEF WholeWalk
    <3>2. pc' = "end" /\ qEnd' = pos
      BY <3>1, <1>6, <1>7
    <3> QED
      BY <3>2, <1>1, <1>2 DEF WalkInv, StartPcs
  <2>2. CASE i \in 1..(Len(w) - 1)
    <3>1. ByteAt(qEnd) > 0 /\ w[i + 1] = qEnd + 1 + ByteAt(qEnd)
      BY <2>2, <1>3, <1>4 DEF WholeWalk, Walk
    <3>2. pc' = "skip" /\ qEnd' = w[i + 1] /\ i + 1 \in 1..Len(w)
      BY <2>2, <3>1, <1>5, <1>6, <1>7
    <3>3. WholeWalk(w)'
      BY <1>1, <1>3, WalkStays
    <3> QED
      BY <3>2, <3>3, <1>1, <1>2 DEF WalkInv, StartPcs
  <2> QED
    BY <2>1, <2>2, <1>5
<1> QED
  BY <1>9, <1>10, <1>11, <1>12, <1>13 DEF RedirectorInv

LEMMA BuildAnswerKeeps == RedirectorInv /\ BuildAnswer => RedirectorInv'
<1> SUFFICES ASSUME RedirectorInv, BuildAnswer PROVE RedirectorInv'
  OBVIOUS
<1>1. /\ TypeOK /\ pc = "end" /\ Handling /\ UNCHANGED <<question, found, qEnd>>
      /\ msg' = msg /\ pos' = pos /\ found' = found
  BY DEF RedirectorInv, BuildAnswer, question, Handling
<1>2. pos + 4 <= Len(msg.q) /\ qEnd = pos /\ found.ip \in IPv4s
  BY <1>1 DEF RedirectorInv, WalkInv, FoundInv
<1>3. pos \in Nat /\ Len(msg.q) \in Nat /\ msg.q \in Seq(Byte) /\ QuestionLen = pos + 4
  BY <1>1, <1>2, MessageBytes DEF TypeOK, QuestionLen
<1>4. /\ reply' = [q |-> SubSeq(msg.q, 1, pos + 4), ip |-> found.ip]
      /\ pc' = "answered"
  BY <1>2, <1>3 DEF BuildAnswer, Go
<1>5. reply' \in Answer
  <2>1. \A i \in 1..(pos + 4) : msg.q[i] \in Byte
    BY <1>2, <1>3
  <2>2. SubSeq(msg.q, 1, pos + 4) \in Seq(Byte)
    BY <1>2, <1>3, <2>1
  <2> QED
    BY <1>2, <1>4, <2>2 DEF Answer
<1>6. TypeOK'
  BY <1>1, <1>4, <1>5 DEF TypeOK, HandlePcs, flags, question, Handling
<1>7. ConfigInv' /\ TableInv'
  BY <1>1, <1>4, HandleFrame DEF Serving, HandlePcs, Handling
<1>8. FoundInv'
  BY <1>1, <1>2, <1>4, FoundStays
<1>9. AnswerEchoesQuestion'
  BY <1>1, <1>4 DEF AnswerEchoesQuestion
<1>10. WalkInv'
  BY <1>1, <1>4 DEF WalkInv, StartPcs
<1> QED
  BY <1>6, <1>7, <1>8, <1>9, <1>10 DEF RedirectorInv

LEMMA StutterKeeps == RedirectorInv /\ UNCHANGED vars => RedirectorInv'
<1> SUFFICES ASSUME RedirectorInv, UNCHANGED vars PROVE RedirectorInv'
  OBVIOUS
<1>1. TypeOK'
  BY DEF RedirectorInv, vars, TypeOK, flags, question
<1>2. ConfigInv' /\ TableInv'
  BY DEF RedirectorInv, vars, ConfigInv, TableInv, Understood, TableOf, Earliest, flags
<1>3. FoundInv' /\ AnswerEchoesQuestion'
  BY DEF RedirectorInv, vars, FoundInv, NoneBefore, AnswerEchoesQuestion, question
<1>4. WalkInv'
  BY DEF RedirectorInv, vars, WalkInv, WholeWalk, Walk, ByteAt, question
<1> QED
  BY <1>1, <1>2, <1>3, <1>4 DEF RedirectorInv

-----------------------------------------------------------------------------
(* The results.                                                            *)

\* Every state of the redirector satisfies the inductive invariant.
THEOREM RedirectorInvariant == Spec => []RedirectorInv
<1>1. RedirectorInv /\ [Next]_vars => RedirectorInv'
  BY ReadLineKeeps, ReadFailsKeeps, ConfigReadKeeps, AddSuffixKeeps, SuffixesAddedKeeps, DedupeKeeps,
     DedupedKeeps, SortRulesKeeps, ReceiveKeeps, ParseHeaderKeeps, RefuseLabelKeeps,
     ParseLabelKeeps, ParseTypeKeeps, LookupRuleKeeps, CheckIPKeeps, SkipLabelKeeps,
     BuildAnswerKeeps, StutterKeeps
  DEF Next, StartUp, Handle
<1> QED
  BY InitEstablishes, <1>1, PTL DEF Spec

\* The redirector's variables keep their types.
THEOREM RedirectorTypeCorrect == Spec => []TypeOK
BY RedirectorInvariant, PTL DEF RedirectorInv

\* buildAResponse's walk agrees with parseQuestion's: an answer has exactly the
\* question looked up, and only an IPv6 rule makes a found name be forwarded.
THEOREM AnswersEchoTheirQuestion == Spec => []AnswerEchoesQuestion
BY RedirectorInvariant, PTL DEF RedirectorInv

\* The rule lookup found is the one that wins.
LEMMA FoundWins ==
  ASSUME RedirectorInv, pc \in {"ip", "skip", "end", "answered"} \/ found # None
  PROVE  \E i \in DOMAIN given : found = given[i] /\ Wins(name, i)
<1>1. pc \in Serving
  BY DEF RedirectorInv, FoundInv, Serving, HandlePcs
<1>2. /\ k \in DOMAIN rules /\ found = rules[k]
      /\ Matches(normalizeName(name), found.suffix) /\ NoneBefore(k)
  BY DEF RedirectorInv, FoundInv
<1>3. /\ TableOf(Len(given))
      /\ \A i, j \in DOMAIN rules : i < j => Len(rules[i].suffix) >= Len(rules[j].suffix)
  BY <1>1 DEF RedirectorInv, TableInv
<1>4. /\ rules \in Seq(Rule) /\ given \in Seq(Rule)
      /\ DOMAIN given = 1..Len(given) /\ DOMAIN rules = 1..Len(rules)
  BY DEF RedirectorInv, TypeOK
<1>5. PICK i \in DOMAIN given : found = given[i] /\ \A j \in 1..(i - 1) : given[j].suffix # found.suffix
  BY <1>2, <1>3, <1>4 DEF TableOf, Earliest
<1>6. Covers(name, i)
  BY <1>2, <1>5 DEF Covers
<1>7. ASSUME NEW j \in DOMAIN given, Covers(name, j) PROVE ~Beats(j, i)
  <2>1. PICK q \in DOMAIN rules : rules[q].suffix = given[j].suffix
    BY <1>3, <1>4 DEF TableOf
  <2>2. ~(q < k)
    BY <1>2, <1>7, <2>1 DEF NoneBefore, Covers
  <2>3. q = k \/ k < q
    BY <1>2, <1>4, <2>1, <2>2
  <2>4. Len(given[i].suffix) \in Nat /\ Len(given[j].suffix) \in Nat
    <3>1. given[i] \in Rule /\ given[j] \in Rule
      BY <1>4, <1>5
    <3> QED
      BY <3>1 DEF Rule, Text
  <2>5. Len(given[i].suffix) >= Len(given[j].suffix)
    <3>1. CASE q = k
      BY <3>1, <1>2, <1>5, <2>1, <2>4
    <3>2. CASE k < q
      BY <3>2, <1>2, <1>3, <1>5, <2>1
    <3> QED
      BY <3>1, <3>2, <2>3
  <2>6. ~(given[j].suffix = given[i].suffix /\ j < i)
    BY <1>4, <1>5
  <2> QED
    BY <2>4, <2>5, <2>6 DEF Beats
<1> QED
  BY <1>5, <1>6, <1>7 DEF Wins

\* A lookup that ran through the table met a name no rule covers.
LEMMA NoneCovers ==
  ASSUME RedirectorInv, pc = "lookup", k > Len(rules)
  PROVE  \A j \in DOMAIN given : ~Covers(name, j)
<1>1. pc \in Serving
  BY DEF Serving, HandlePcs
<1>2. TableOf(Len(given)) /\ NoneBefore(k)
  BY <1>1 DEF RedirectorInv, TableInv, FoundInv
<1>3. /\ DOMAIN given = 1..Len(given)
      /\ \A q \in DOMAIN rules : q < k
  BY DEF RedirectorInv, TypeOK
<1> QED
  BY <1>2, <1>3 DEF TableOf, NoneBefore, Covers

\* dedupeRules, sortRulesLongestFirst and the first match of lookup pick the
\* longest suffix that covers a name, the earliest given among equal ones.
THEOREM SpecificRulesWin == Spec => []MostSpecificRuleWins
<1>1. RedirectorInv => MostSpecificRuleWins
  BY FoundWins, NoneCovers DEF MostSpecificRuleWins
<1> QED
  BY RedirectorInvariant, <1>1, PTL

\* A redirector that serves has a rule for every line of its configuration.
THEOREM WholeConfigServed == Spec => []ServesWholeConfig
<1>1. RedirectorInv => ServesWholeConfig
  <2> SUFFICES ASSUME RedirectorInv, pc \in HandlePcs \cup {"serve"}
               PROVE  /\ \A i \in DOMAIN config : ~Malformed(config[i])
                      /\ explicit => present
                      /\ \A i \in DOMAIN config : config[i].rule =>
                           \E j \in DOMAIN rules : rules[j].suffix = normalizeName(config[i].name)
    BY DEF ServesWholeConfig
  <2>1. pc \in Serving /\ pc \notin {"config", "fatal"}
    BY DEF Serving, HandlePcs
  <2>2. Understood(Len(config)) /\ (explicit => present) /\ TableOf(Len(given))
    BY <2>1 DEF RedirectorInv, ConfigInv, TableInv
  <2>3. DOMAIN config = 1..Len(config) /\ DOMAIN given = 1..Len(given)
    BY DEF RedirectorInv, TypeOK
  <2>4. ASSUME NEW i \in DOMAIN config, config[i].rule
        PROVE  \E j \in DOMAIN rules : rules[j].suffix = normalizeName(config[i].name)
    <3>1. PICK g \in DOMAIN given : given[g].suffix = normalizeName(config[i].name)
      BY <2>2, <2>3, <2>4 DEF Understood
    <3> QED
      BY <2>2, <2>3, <3>1 DEF TableOf
  <2> QED
    BY <2>2, <2>3, <2>4 DEF Understood
<1> QED
  BY RedirectorInvariant, <1>1, PTL
=============================================================================
