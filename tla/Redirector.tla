------------------------------- MODULE Redirector ------------------------------
(***************************************************************************)
(* The DNS redirector (dns.go, config.go, the DNS part of main): how the   *)
(* rule table is built at start-up, and what handle does with a datagram:  *)
(* parse the question, look the name up, build the answer or forward.      *)
(*                                                                         *)
(* Handlers only read the table, so one datagram against every table is    *)
(* the general case; RegionHints has the interleavings of handlers.  Every *)
(* loop is one step per iteration.                                         *)
(*                                                                         *)
(* A text (a name in a file, on the command line or in a packet) is the    *)
(* sequence of its bytes, dots included.  A datagram is whether it has a   *)
(* whole header, its QDCOUNT and the bytes after the header; offsets count *)
(* from there (offset 0 is byte 12).                                       *)
(***************************************************************************)
EXTENDS Naturals, SequencesExt, LongestFirst

CONSTANTS
  Lines,      \* lines a dns.config may have
  SuffixArgs, \* texts -dns-suffix may be given
  MaxGiven,   \* bound: lines of the file, and suffixes on the command line
  IPv4s,      \* addresses with a 4-byte form
  IPv6s,      \* addresses without
  None,       \* no address on a line, no rule found, no answer sent
  BadIP,      \* an address net.ParseIP rejects
  Datagrams,  \* what arrives
  BufLen      \* room after the header in the 512-byte receive buffer

Byte == 0..255
Text == Seq(Byte)
Dot == 46
IPs == IPv4s \cup IPv6s
Line == [rule : BOOLEAN, name : Text, ip : IPs \cup {None, BadIP}]
Rule == [suffix : Text, ip : IPs]
Datagram == [header : BOOLEAN, qd : Nat, q : Seq(Byte)]

ASSUME InputsAssumption ==
  /\ Lines \subseteq Line
  /\ SuffixArgs \subseteq Text
  /\ Datagrams \subseteq Datagram

ASSUME ValuesAssumption ==
  /\ None \notin IPs /\ BadIP \notin IPs /\ None # BadIP
  /\ IPv4s \cap IPv6s = {}
  /\ MaxGiven \in Nat /\ BufLen \in Nat

VARIABLES
  pc,         \* where main, then handle, stands
  config,     \* the lines of dns.config
  present,    \* the file exists
  explicit,   \* -dns-config was given
  suffixes,   \* -dns-suffix
  defaultIP,  \* -redirect-ip or the detected address
  k,          \* loop index
  given,      \* rules in the order of precedence, as main collects them
  rules,      \* the table: without duplicates, then sorted
  msg,        \* the datagram being handled
  pos,        \* parseQuestion: offset
  name,       \* parseQuestion: the labels so far, joined
  first,      \* parseQuestion: no label yet
  found,      \* lookup: the rule that matched, None before
  qEnd,       \* buildAResponse: offset
  reply       \* the answer sent

flags == <<config, present, explicit, suffixes, defaultIP>>
question == <<pos, name, first>>
vars == <<pc, flags, k, given, rules, msg, question, found, qEnd, reply>>

StartPcs == {"config", "suffixes", "dedupe", "sort", "serve", "fatal"}
HandlePcs == {"header", "label", "type", "lookup", "ip", "skip", "end", "answered", "forwarded"}
NoMsg == [header |-> FALSE, qd |-> 0, q |-> <<>>]
Answer == [q : Seq(Byte), ip : IPv4s]

TypeOK ==
  /\ pc \in StartPcs \cup HandlePcs
  /\ config \in Seq(Lines) /\ present \in BOOLEAN /\ explicit \in BOOLEAN
  /\ suffixes \in Seq(SuffixArgs) /\ defaultIP \in IPs
  /\ k \in Nat /\ given \in Seq(Rule) /\ rules \in Seq(Rule)
  /\ msg \in Datagram
  /\ pos \in Nat /\ name \in Text /\ first \in BOOLEAN
  /\ found \in Rule \cup {None}
  /\ qEnd \in Nat
  /\ reply \in Answer \cup {None}

-----------------------------------------------------------------------------
(* Names.                                                                  *)

Lower(b) == IF b \in 65..90 THEN b + 32 ELSE b
TrimDot(t) == IF t # <<>> /\ t[Len(t)] = Dot THEN SubSeq(t, 1, Len(t) - 1) ELSE t

\* normalizeName, and the first line of lookup: one final dot goes, lower case.
normalizeName(t) == [i \in DOMAIN TrimDot(t) |-> Lower(TrimDot(t)[i])]

\* lookup: the name itself or a name below it.
Matches(n, s) == n = s \/ IsSuffix(<<Dot>> \o s, n)

-----------------------------------------------------------------------------
(* Start-up.                                                               *)

Init ==
  /\ pc = "config"
  /\ config \in BoundedSeq(Lines, MaxGiven)
  /\ present \in BOOLEAN /\ explicit \in BOOLEAN /\ (~present => config = <<>>)
  /\ suffixes \in BoundedSeq(SuffixArgs, MaxGiven) /\ suffixes # <<>>
  /\ defaultIP \in IPs
  /\ k = 1 /\ given = <<>> /\ rules = <<>>
  /\ msg = NoMsg /\ pos = 0 /\ name = <<>> /\ first = TRUE
  /\ found = None /\ qEnd = 0 /\ reply = None

Stays == UNCHANGED <<flags, msg, question, found, qEnd, reply>>

\* A line that main dies of: no host name, or an address that does not parse.
Malformed(l) == l.rule /\ (normalizeName(l.name) = <<>> \/ l.ip = BadIP)

\* The rule of a line; without an address it is -redirect-ip.
RuleOf(l) ==
  [suffix |-> normalizeName(l.name), ip |-> IF l.ip = None THEN defaultIP ELSE l.ip]

\* Mutated form: a bad line is skipped.
ReadLineLenient ==
  /\ pc = "config" /\ k <= Len(config)
  /\ IF ~config[k].rule \/ Malformed(config[k])
     THEN UNCHANGED given ELSE given' = Append(given, RuleOf(config[k]))
  /\ k' = k + 1
  /\ UNCHANGED <<pc, rules>> /\ Stays

\* loadDNSConfig, one line; main ends on an error.
ReadLine ==
  /\ pc = "config" /\ k <= Len(config)
  /\ \/ ~config[k].rule /\ k' = k + 1 /\ UNCHANGED <<pc, given>>
     \/ Malformed(config[k]) /\ pc' = "fatal" /\ UNCHANGED <<k, given>>
     \/ /\ config[k].rule /\ ~Malformed(config[k])
        /\ given' = Append(given, RuleOf(config[k]))
        /\ k' = k + 1
        /\ UNCHANGED pc
  /\ UNCHANGED rules /\ Stays

\* loadDNSConfig: the file is there and cannot be opened, or reading it fails
\* at some line (sc.Err, a line too long for the scanner included).
ReadFails ==
  /\ pc = "config" /\ present
  /\ pc' = "fatal"
  /\ UNCHANGED <<k, given, rules>> /\ Stays

\* The end of the file; a missing file is an error only if it was asked for.
ConfigRead ==
  /\ pc = "config" /\ k > Len(config)
  /\ pc' = IF ~present /\ explicit THEN "fatal" ELSE "suffixes"
  /\ k' = 1
  /\ UNCHANGED <<given, rules>> /\ Stays

\* rulesFromSuffixes, one suffix, appended to what the file gave.
AddSuffix ==
  /\ pc = "suffixes" /\ k <= Len(suffixes)
  /\ LET s == normalizeName(suffixes[k])
     IN  given' = IF s = <<>> THEN given ELSE Append(given, [suffix |-> s, ip |-> defaultIP])
  /\ k' = k + 1
  /\ UNCHANGED <<pc, rules>> /\ Stays

SuffixesAdded ==
  /\ pc = "suffixes" /\ k > Len(suffixes)
  /\ pc' = "dedupe" /\ k' = 1
  /\ UNCHANGED <<given, rules>> /\ Stays

\* dedupeRules, one rule: the first for a suffix is kept.
Dedupe ==
  /\ pc = "dedupe" /\ k <= Len(given)
  /\ rules' = IF \E i \in DOMAIN rules : rules[i].suffix = given[k].suffix
              THEN rules ELSE Append(rules, given[k])
  /\ k' = k + 1
  /\ UNCHANGED <<pc, given>> /\ Stays

Deduped ==
  /\ pc = "dedupe" /\ k > Len(given)
  /\ pc' = "sort"
  /\ UNCHANGED <<k, given, rules>> /\ Stays

\* Mutated form: the table stays in the order it was given.
SortNothing ==
  /\ pc = "sort"
  /\ pc' = "serve"
  /\ UNCHANGED <<k, given, rules>> /\ Stays

\* sortRulesLongestFirst (sort.SliceStable).
SortRules ==
  /\ pc = "sort"
  /\ \E p \in [DOMAIN rules -> DOMAIN rules] :
       /\ LongestFirst(p, [i \in DOMAIN rules |-> Len(rules[i].suffix)])
       /\ rules' = Reordered(rules, p)
  /\ pc' = "serve"
  /\ UNCHANGED <<k, given>> /\ Stays

-----------------------------------------------------------------------------
(* One datagram: handle.                                                   *)

Handling == UNCHANGED <<flags, k, given, rules, msg>>
Go(to) == pc' = to
Forward == Go("forwarded")

\* listen: ReadFrom drops what the buffer has no room for.
Clip(q) == SubSeq(q, 1, IF Len(q) < BufLen THEN Len(q) ELSE BufLen)

Receive(d) ==
  /\ pc = "serve"
  /\ msg' = [d EXCEPT !.q = Clip(d.q)]
  /\ Go("header")
  /\ k' = 1
  /\ UNCHANGED <<flags, given, rules, question, found, qEnd, reply>>

\* parseQuestion: a whole header with a question.
ParseHeader ==
  /\ pc = "header"
  /\ IF msg.header /\ msg.qd >= 1 THEN Go("label") ELSE Forward
  /\ Handling /\ UNCHANGED <<question, found, qEnd, reply>>

\* No byte at offset p.
AtEnd(p) == p >= Len(msg.q)
ByteAt(p) == msg.q[p + 1]

\* Mutated form: a compression pointer is followed.
RefuseLabelNot ==
  /\ pc = "label"
  /\ \/ AtEnd(pos) /\ Forward /\ UNCHANGED pos
     \/ /\ ~AtEnd(pos) /\ ByteAt(pos) > 0 /\ pos + 1 + ByteAt(pos) > Len(msg.q)
        /\ ByteAt(pos) < 64 \/ AtEnd(pos + 1)
        /\ Forward /\ UNCHANGED pos
     \/ ~AtEnd(pos + 1) /\ ByteAt(pos) >= 64 /\ pos' = ByteAt(pos + 1) /\ UNCHANGED pc
  /\ Handling /\ UNCHANGED <<name, first, found, qEnd, reply>>

\* parseQuestion gives up: the name has no end, has a compression pointer, or
\* its label is cut off.
RefuseLabel ==
  /\ pc = "label"
  /\ \/ AtEnd(pos)
     \/ ~AtEnd(pos) /\ ByteAt(pos) >= 64
     \/ ~AtEnd(pos) /\ ByteAt(pos) > 0 /\ pos + 1 + ByteAt(pos) > Len(msg.q)
  /\ Forward
  /\ Handling /\ UNCHANGED <<question, found, qEnd, reply>>

\* parseQuestion, one label of l bytes, or the root that ends the name.
TakeLabel(l) ==
  /\ l < 64
  /\ pos' = pos + 1 + l
  /\ \/ l = 0 /\ Go("type") /\ UNCHANGED <<name, first>>
     \/ /\ l > 0 /\ pos + 1 + l <= Len(msg.q)
        /\ LET label == SubSeq(msg.q, pos + 2, pos + 1 + l)
           IN  name' = IF first THEN label ELSE name \o <<Dot>> \o label
        /\ first' = FALSE
        /\ UNCHANGED pc

ParseLabel ==
  /\ pc = "label" /\ ~AtEnd(pos)
  /\ TakeLabel(ByteAt(pos))
  /\ Handling /\ UNCHANGED <<found, qEnd, reply>>

\* Mutated form: a question that ends the datagram is taken for a cut one.
ParseTypeEarly ==
  /\ pc = "type"
  /\ IF pos + 4 < Len(msg.q) /\ ByteAt(pos) = 0 /\ ByteAt(pos + 1) = 1
     THEN Go("lookup") ELSE Forward
  /\ Handling /\ UNCHANGED <<question, found, qEnd, reply>>

\* parseQuestion, QTYPE; only A questions (type 1) are looked up.
ParseType ==
  /\ pc = "type"
  /\ IF pos + 4 <= Len(msg.q) /\ ByteAt(pos) = 0 /\ ByteAt(pos + 1) = 1
     THEN Go("lookup") ELSE Forward
  /\ Handling /\ UNCHANGED <<question, found, qEnd, reply>>

\* lookup, one rule.
LookupRule ==
  /\ pc = "lookup"
  /\ \/ k > Len(rules) /\ Forward /\ UNCHANGED <<k, found>>
     \/ /\ k <= Len(rules) /\ Matches(normalizeName(name), rules[k].suffix)
        /\ found' = rules[k] /\ Go("ip") /\ UNCHANGED k
     \/ /\ k <= Len(rules) /\ ~Matches(normalizeName(name), rules[k].suffix)
        /\ k' = k + 1 /\ UNCHANGED <<pc, found>>
  /\ UNCHANGED <<flags, given, rules, msg, question, qEnd, reply>>

\* Mutated form: the address is used whatever its family.
CheckIPNot ==
  /\ pc = "ip"
  /\ Go("skip")
  /\ Handling /\ UNCHANGED <<question, found, qEnd, reply>>

\* buildAResponse: To4.
CheckIP ==
  /\ pc = "ip"
  /\ IF found.ip \in IPv4s THEN Go("skip") ELSE Forward
  /\ Handling /\ UNCHANGED <<question, found, qEnd, reply>>

\* The offset after the label at p.
Skipped(p) == p + 1 + ByteAt(p)

\* buildAResponse walks the question a second time, one label.
SkipLabel ==
  /\ pc = "skip"
  /\ \/ AtEnd(qEnd) /\ Forward /\ UNCHANGED qEnd
     \/ /\ ~AtEnd(qEnd)
        /\ qEnd' = Skipped(qEnd)
        /\ Go(IF ByteAt(qEnd) = 0 THEN "end" ELSE "skip")
  /\ Handling /\ UNCHANGED <<question, found, reply>>

\* Mutated form: the question is sent back without its type and class.
QuestionLenShort == qEnd

\* QTYPE and QCLASS follow the name.
QuestionLen == qEnd + 4

\* buildAResponse: the question as it came and one address record that refers
\* to its name.
BuildAnswer ==
  /\ pc = "end"
  /\ IF QuestionLen > Len(msg.q)
     THEN Forward /\ UNCHANGED reply
     ELSE /\ reply' = [q |-> SubSeq(msg.q, 1, QuestionLen), ip |-> found.ip]
          /\ Go("answered")
  /\ Handling /\ UNCHANGED <<question, found, qEnd>>

StartUp == ReadLine \/ ConfigRead \/ AddSuffix \/ SuffixesAdded \/ Dedupe \/ Deduped \/ SortRules
Handle == ParseHeader \/ RefuseLabel \/ ParseLabel \/ ParseType \/ LookupRule \/ CheckIP \/ SkipLabel \/ BuildAnswer
Next == StartUp \/ ReadFails \/ Handle \/ \E d \in Datagrams : Receive(d)

Spec == Init /\ [][Next]_vars

\* main and the handler are not blocked between two steps.
FairSpec == Spec /\ WF_vars(StartUp) /\ WF_vars(Handle)

-----------------------------------------------------------------------------
(* What the redirector guarantees.                                         *)

\* Rule j of those given beats rule i: it has a longer suffix, or the same
\* suffix and was given earlier (the file comes before -dns-suffix).
Beats(j, i) ==
  \/ Len(given[j].suffix) > Len(given[i].suffix)
  \/ given[j].suffix = given[i].suffix /\ j < i

Covers(n, i) == Matches(normalizeName(n), given[i].suffix)

Wins(n, i) == Covers(n, i) /\ \A j \in DOMAIN given : Covers(n, j) => ~Beats(j, i)

\* The rule that answers a name is one that was given, covers the name and is
\* beaten by no other that does; a name without a rule is covered by none.
\* Deduplication, sorting and first match together keep the precedence the
\* README promises: most specific first, dns.config before -dns-suffix.
MostSpecificRuleWins ==
  /\ found # None => \E i \in DOMAIN given : found = given[i] /\ Wins(name, i)
  /\ (pc = "lookup" /\ k > Len(rules)) => \A j \in DOMAIN given : ~Covers(name, j)

\* The two walks over the question agree: an answer carries the question that
\* was looked up, whole, and nothing after it, and the second walk gives up on
\* no question the first one accepted.
AnswerEchoesQuestion ==
  /\ reply # None => reply.q = SubSeq(msg.q, 1, pos + 4) /\ reply.ip = found.ip
  /\ (pc = "forwarded" /\ found # None) => found.ip \in IPv6s

\* The labels of a name on the wire, without a walk: starts holds the offsets
\* of their length bytes; they cover what is before the offset end, in one
\* piece and without overlap.
Labels(starts, end) ==
  /\ starts \subseteq 0..(end - 1) /\ 0 \in starts \cup {end}
  /\ \A p \in starts :
       /\ ByteAt(p) \in 1..63 /\ Skipped(p) \in starts \cup {end}
       /\ \A r \in starts : r > p => r >= Skipped(p)

\* A whole A question whose name ends with the root at this offset, with the
\* four bytes of type and class behind it.
AQuestion(starts, root) ==
  /\ msg.header /\ msg.qd >= 1
  /\ Labels(starts, root) /\ root + 5 <= Len(msg.q)
  /\ ByteAt(root) = 0 /\ ByteAt(root + 1) = 0 /\ ByteAt(root + 2) = 1

\* Its name: a dot in the place of every length byte but the first.
NameOf(starts, end) == [i \in 1..(end - 1) |-> IF i \in starts THEN Dot ELSE ByteAt(i)]

\* The datagram at hand asks for a name that the rules send to this address.
AsksFor(ip) ==
  \E root \in 0..Len(msg.q) : \E starts \in SUBSET (0..(root - 1)) :
    /\ AQuestion(starts, root)
    /\ \E i \in DOMAIN given : Wins(NameOf(starts, root), i) /\ given[i].ip = ip

\* handle as a whole: a datagram is answered with an address exactly if it is a
\* whole A question for a name whose most specific rule has that address and
\* the address is IPv4; everything else goes upstream.  Neither a length, a
\* type, nor a case of letters or final dot in a rule makes the redirector
\* miss a name it was told to redirect, or take one it was not.
RedirectedExactly ==
  pc \in {"answered", "forwarded"} =>
    \A ip \in IPv4s : (pc = "answered" /\ reply.ip = ip) <=> AsksFor(ip)

\* A redirector that serves has understood its whole configuration: no line was
\* dropped as malformed, and a file that was asked for was there.
ServesWholeConfig ==
  pc \in HandlePcs \cup {"serve"} =>
    /\ \A i \in DOMAIN config : ~Malformed(config[i])
    /\ explicit => present
    /\ \A i \in DOMAIN config : config[i].rule =>
         \E j \in DOMAIN rules : rules[j].suffix = normalizeName(config[i].name)

\* Every datagram is answered or forwarded: neither walk can loop.
HandlerDecides == pc = "header" ~> pc \in {"answered", "forwarded"}
=============================================================================
