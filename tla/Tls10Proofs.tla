------------------------------- MODULE Tls10Proofs ------------------------------
(***************************************************************************)
(* Proofs about Tls10, for requests, replies and records of any length,    *)
(* any window and any number of alterations and stray records.             *)
(***************************************************************************)
EXTENDS Tls10, WellFoundedInduction, TLAPS

\* Where the two ends stand: before the client's Finished is out, and before
\* the server's write side is active.
NoKeysYet == {"hello", "sendHello", "sendCert", "sendDone", "keyExchange"}
BeforeOurCcs == NoKeysYet \cup {"ccs", "finished", "sendCcs"}
Fresh == {"hello", "flight", "keyExchange"}
FinishedSent == {"awaitCcs", "awaitFinished", "request", "closed"}

\* The keys and active sides of the server, by where it stands.
ServerInv ==
  /\ spc \in NoKeysYet \cup {"ccs"} => ~readActive
  /\ spc \in BeforeOurCcs => ~writeActive
  /\ spc \in {"finished", "sendCcs", "sendFinished", "app", "reply"} => readActive
  /\ spc \in {"sendFinished", "app", "reply"} => writeActive
  /\ spc \notin NoKeysYet \cup {"closed"} =>
       /\ master \in Master /\ master.sr = FALSE
       /\ readKey = KeyFor(master, "c2s") /\ writeKey = KeyFor(master, "s2c")

\* The same of the client.
ClientInv ==
  /\ cpc \in Fresh \cup {"ccs"} => ~cWriteActive
  /\ cpc \in Fresh \cup {"ccs", "finished", "awaitCcs"} => ~cReadActive
  /\ cpc \in {"finished", "awaitCcs", "awaitFinished", "request"} => cWriteActive
  /\ cpc \in {"awaitFinished", "request"} => cReadActive
  /\ cpc \in {"ccs", "finished", "awaitCcs", "awaitFinished", "request"} \/ cWriteActive =>
       cMaster = MasterOf("client", FALSE, sRandom)
  /\ cReadActive => spc \notin BeforeOurCcs

\* What a content type says about the content.
ShapeInv ==
  /\ \A i \in 1..Len(c2s) : c2s[i].ct = "app" <=> c2s[i].body.t = "data"
  /\ \A i \in 1..Len(s2c) :
       /\ s2c[i].ct = "handshake" => s2c[i].body.t \in HsTypes
       /\ s2c[i].ct = "app" => s2c[i].body.t = "data" /\ Len(s2c[i].body.s) \in 1..MaxPlain

\* A Finished on its way to the server was made from what the client still has;
\* once it is accepted both ends agree.
FinishedInv ==
  /\ \A i \in 1..Len(c2s) : c2s[i].body.t = "fin" =>
       /\ cpc \in FinishedSent /\ cMaster = MasterOf("client", FALSE, sRandom)
       /\ c2s[i].body.m = cMaster /\ cTranscript = Append(c2s[i].body.tr, Sent("fin"))
  /\ PastFinished => cpc \in FinishedSent /\ FinishedAgreement

\* Record j of q is number n of the stream that key protects.
Numbered(q, j, key, n) == q[j].key = key /\ q[j].seq = n

\* The records of q after the i-th are the stream from its start; those of q
\* are the stream from number n on.
NumberedAfter(q, i, key) == \A j \in (i + 1)..Len(q) : Numbered(q, j, key, j - i - 1)
NumberedFrom(q, key, n) == \A j \in 1..Len(q) : Numbered(q, j, key, n + j - 1)

\* From the client's ChangeCipherSpec on, records are numbered consecutively.
ReadInv ==
  /\ \A i \in 1..Len(c2s) : c2s[i].ct = "ccs" =>
       /\ cWriteActive /\ cWriteSeq = Len(c2s) - i
       /\ NumberedAfter(c2s, i, KeyFor(cMaster, "c2s"))
  /\ (readActive /\ spc # "closed") =>
       /\ cWriteActive /\ cWriteSeq = readSeq + Len(c2s)
       /\ NumberedFrom(c2s, KeyFor(cMaster, "c2s"), readSeq)

\* The same for the server's.
WriteInv ==
  /\ \A i \in 1..Len(s2c) : s2c[i].ct = "ccs" =>
       /\ spc \notin BeforeOurCcs /\ cpc \in FinishedSent
       /\ spc # "closed" => writeSeq = Len(s2c) - i
       /\ NumberedAfter(s2c, i, KeyFor(cMaster, "s2c"))
  /\ (cReadActive /\ cpc # "closed") =>
       /\ spc # "closed" => writeSeq = cReadSeq + Len(s2c)
       /\ NumberedFrom(s2c, KeyFor(cMaster, "s2c"), cReadSeq)

\* What is protected on the wire, and when it can be there.
ProtectInv ==
  /\ RepliesProtected
  /\ spc \in BeforeOurCcs => \A i \in 1..Len(s2c) : s2c[i].key = NoKey
  /\ \A i \in 1..Len(s2c) : s2c[i].ct = "app" \/ s2c[i].body.t = "fin" =>
       spc \in {"app", "reply", "closed"} /\ cpc \in FinishedSent

\* The application data of q, cut at c: record i has units c[i - 1] + 1 to c[i].
Run(a, b) == [x \in 1..(b - a) |-> a + x]
Carries(r, a, b) == a <= b /\ IF r.ct = "app" THEN r.body.s = Run(a, b) ELSE b = a
Cuts(q, c) == \A i \in 1..Len(q) : Carries(q[i], c[i - 1], c[i])

\* c cuts units 1 to N, or some of them, over q.
Cutting(q, N, c) == c \in [0..Len(q) -> 0..N] /\ Cuts(q, c)

\* c cuts the request over q: b units of it are in buf, s units are sent.
RequestCuts(q, c, b, s) ==
  /\ Cutting(q, ReqLen, c) /\ c[0] = b /\ c[Len(q)] = s
  /\ \A i \in 0..Len(q) : c[i] <= s
  /\ \A i \in 1..Len(q) : q[i].ct = "app" => c[i - 1] < ReqLen
RequestSplit(q, b, s) == \E c \in [0..Len(q) -> 0..ReqLen] : RequestCuts(q, c, b, s)

\* The request is in buf, in c2s and not sent yet, in this order.
RequestInv ==
  /\ sent <= ReqLen /\ (sent # 0 => cpc \in {"request", "closed"})
  /\ buf = Units(Len(buf))
  /\ spc \notin {"app", "reply", "closed"} => buf = <<>>
  /\ spc \notin {"reply", "closed"} => request = <<>>
  /\ spc # "closed" => RequestSplit(c2s, Len(buf), sent)
  /\ RequestIntact

\* c cuts the reply over q: g is received, s is still to be written.
ReplyCuts(q, c, g, s) ==
  Cutting(q, RespLen, c) /\ g = Units(c[0]) /\ s = Run(c[Len(q)], RespLen)
ReplySplit(q, g, s) == \E c \in [0..Len(q) -> 0..RespLen] : ReplyCuts(q, c, g, s)

\* A reply is on its way only for a request.
PendingInv ==
  /\ spc = "reply" => resp # <<>> /\ request # <<>>
  /\ request = <<>> => got = <<>> /\ \A i \in 1..Len(s2c) : s2c[i].ct # "app"

\* As long as client and network keep to the script nothing is altered and the
\* client's Finished is followed by data only.
ScriptInv ==
  ~strayed =>
    /\ \A i \in 1..Len(s2c) : s2c[i].alt = "no"
    /\ \A i \in 1..Len(c2s) : c2s[i].body.t = "fin" => \A j \in (i + 1)..Len(c2s) : c2s[j].ct = "app"
    /\ PastFinished => \A i \in 1..Len(c2s) : c2s[i].ct = "app"

\* Then the reply is in got, in s2c and in resp, in this order.
ReplyInv == (request # <<>> /\ ~strayed) => c2s = <<>> /\ ReplySplit(s2c, got, resp)

Tls10Inv ==
  /\ TypeOK /\ ServerInv /\ ClientInv /\ ShapeInv /\ FinishedInv
  /\ ReadInv /\ WriteInv /\ ProtectInv /\ RequestInv
  /\ PendingInv /\ ScriptInv /\ ReplyInv

-----------------------------------------------------------------------------
(* Queues and records.                                                     *)

LEMMA Appended ==
  ASSUME NEW S, NEW q \in Seq(S), NEW r \in S, NEW p, p = Append(q, r)
  PROVE  /\ p \in Seq(S) /\ Len(q) \in Nat /\ Len(p) = Len(q) + 1 /\ p[Len(q) + 1] = r
         /\ \A i \in 1..Len(q) : p[i] = q[i]
OBVIOUS

LEMMA Popped ==
  ASSUME NEW S, NEW q \in Seq(S), q # <<>>, NEW p, p = Tail(q)
  PROVE  /\ p \in Seq(S) /\ Len(q) \in Nat \ {0} /\ Len(p) = Len(q) - 1
         /\ Head(q) = q[1] /\ Head(q) \in S
         /\ \A i \in 1..Len(p) : p[i] = q[i + 1] /\ i + 1 \in 1..Len(q)
OBVIOUS

Body == HsBody \cup FinBody \cup DataBody \cup PlainBody

\* An altered record is the same but for its bytes.
SameButAlt(r, s) == r.ct = s.ct /\ r.body = s.body /\ r.key = s.key /\ r.seq = s.seq

LEMMA AlteredQueue ==
  ASSUME NEW q \in Seq(Record), NEW n \in 1..Len(q), NEW a \in Alterations,
         NEW p, p = Altered(q, n, a)
  PROVE  /\ p \in Seq(Record) /\ Len(p) = Len(q)
         /\ \A i \in 1..Len(q) : SameButAlt(p[i], q[i])
<1>1. p = [q EXCEPT ![n] = [q[n] EXCEPT !.alt = a]]
  BY DEF Altered
<1>2. q[n] \in Record
  OBVIOUS
<1>3. [q[n] EXCEPT !.alt = a] \in Record /\ SameButAlt([q[n] EXCEPT !.alt = a], q[n])
  BY <1>2 DEF Record, SameButAlt
<1>4. p \in Seq(Record) /\ Len(p) = Len(q)
  BY <1>1, <1>3
<1>5. ASSUME NEW i \in 1..Len(q) PROVE SameButAlt(p[i], q[i])
  <2>1. CASE i = n
    BY <2>1, <1>1, <1>3
  <2>2. CASE i # n
    BY <2>2, <1>1 DEF SameButAlt
  <2> QED
    BY <2>1, <2>2
<1> QED
  BY <1>4, <1>5

\* What Protect makes before and after the side is active.
Clear(ct, body) == [ct |-> ct, body |-> body, alt |-> "no", key |-> NoKey, seq |-> 0]
Sealed(ct, body, key, seq) == [ct |-> ct, body |-> body, alt |-> "no", key |-> key, seq |-> seq]

LEMMA ClearRecord ==
  ASSUME NEW ct \in {"v2", "handshake", "ccs", "alert", "app"}, NEW body \in Body
  PROVE  /\ Clear(ct, body) \in Record /\ Clear(ct, body).ct = ct /\ Clear(ct, body).body = body
         /\ Clear(ct, body).alt = "no" /\ Clear(ct, body).key = NoKey
BY DEF Clear, Record, Alterations, Body

LEMMA SealedRecord ==
  ASSUME NEW ct \in {"v2", "handshake", "ccs", "alert", "app"}, NEW body \in Body,
         NEW key \in Key, NEW seq \in Nat
  PROVE  /\ Sealed(ct, body, key, seq) \in Record
         /\ Sealed(ct, body, key, seq).ct = ct /\ Sealed(ct, body, key, seq).body = body
         /\ Sealed(ct, body, key, seq).alt = "no"
         /\ Sealed(ct, body, key, seq).key = key /\ Sealed(ct, body, key, seq).seq = seq
BY DEF Sealed, Record, Alterations, Body

\* The type of a body tells which of the four it is.
LEMMA BodyKinds ==
  ASSUME NEW r \in Record
  PROVE  /\ r.body \in Body /\ r.alt \in Alterations
         /\ r.body.t = "data" => r.body.s \in Seq(Nat)
         /\ r.body.t \in HsTypes \ {"fin"} => r.body.v \in Variants
         /\ r.body.t = "fin" => r.body.m \in Master /\ r.body.tr \in Seq(Entry)
<1>1. r.body \in Body /\ r.alt \in Alterations
  BY DEF Record, Body
<1>2. CASE r.body \in HsBody
  BY <1>1, <1>2 DEF HsBody, HsTypes
<1>3. CASE r.body \in FinBody
  BY <1>1, <1>3 DEF FinBody, HsTypes
<1>4. CASE r.body \in DataBody
  BY <1>1, <1>4 DEF DataBody, HsTypes
<1>5. CASE r.body \in PlainBody
  BY <1>1, <1>5 DEF PlainBody, HsTypes
<1> QED
  BY <1>1, <1>2, <1>3, <1>4, <1>5 DEF Body

LEMMA Bodies ==
  /\ \A t \in HsTypes \ {"fin"}, v \in Variants : Hs(t, v) \in Body /\ Hs(t, v).t = t
  /\ \A who \in {"client", "server"}, m \in Master, tr \in Seq(Entry) :
       /\ Fin(who, m, tr) \in Body /\ Fin(who, m, tr).t = "fin"
       /\ Fin(who, m, tr).m = m /\ Fin(who, m, tr).tr = tr
  /\ \A s \in Seq(Nat) : Data(s) \in Body /\ Data(s).t = "data" /\ Data(s).s = s
  /\ \A t \in {"ccs", "alert"} : Plain(t) \in Body /\ Plain(t).t = t
<1>1. \A t \in HsTypes \ {"fin"}, v \in Variants : Hs(t, v) \in Body /\ Hs(t, v).t = t
  BY DEF Hs, HsBody, Body
<1>2. \A who \in {"client", "server"}, m \in Master, tr \in Seq(Entry) :
       /\ Fin(who, m, tr) \in Body /\ Fin(who, m, tr).t = "fin"
       /\ Fin(who, m, tr).m = m /\ Fin(who, m, tr).tr = tr
  BY DEF Fin, FinBody, Body
<1>3. \A s \in Seq(Nat) : Data(s) \in Body /\ Data(s).t = "data" /\ Data(s).s = s
  BY DEF Data, DataBody, Body
<1>4. \A t \in {"ccs", "alert"} : Plain(t) \in Body /\ Plain(t).t = t
  BY DEF Plain, PlainBody, Body
<1> QED
  BY <1>1, <1>2, <1>3, <1>4

\* The transcript entries of messages read and sent.
LEMMA Entries ==
  /\ \A r \in Record : r.body.t \in HsTypes \ {"fin"} => Seen(r) \in Entry
  /\ \A t \in HsTypes : Sent(t) \in Entry
<1>1. \A r \in Record : r.body.t \in HsTypes \ {"fin"} => Seen(r) \in Entry
  BY BodyKinds DEF Seen, Entry
<1>2. \A t \in HsTypes : Sent(t) \in Entry
  BY DEF Sent, Entry, Variants, Alterations
<1> QED
  BY <1>1, <1>2

LEMMA Keys ==
  /\ \A pm \in {"client", "server"}, cr \in BOOLEAN, sr \in BOOLEAN :
       MasterOf(pm, cr, sr) \in Master
  /\ \A m \in Master, dir \in {"c2s", "s2c"} : KeyFor(m, dir) \in Key
BY DEF MasterOf, Master, KeyFor, Key

LEMMA UnitsAreSeq ==
  ASSUME NEW n \in Nat
  PROVE  Units(n) \in Seq(Nat) /\ Len(Units(n)) = n
BY DEF Units

LEMMA RunsAreSeq ==
  ASSUME NEW a \in Nat, NEW b \in Nat, a <= b
  PROVE  Run(a, b) \in Seq(Nat) /\ Len(Run(a, b)) = b - a
<1>1. b - a \in Nat /\ \A x \in 1..(b - a) : a + x \in Nat
  OBVIOUS
<1> QED
  BY <1>1 DEF Run

LEMMA Joined ==
  ASSUME NEW S, NEW p \in Seq(S), NEW q \in Seq(S), NEW u, u = p \o q
  PROVE  /\ u \in Seq(S) /\ Len(p) \in Nat /\ Len(q) \in Nat /\ Len(u) = Len(p) + Len(q)
         /\ \A x \in 1..Len(p) : u[x] = p[x]
         /\ \A x \in (Len(p) + 1)..(Len(p) + Len(q)) : u[x] = q[x - Len(p)]
OBVIOUS

LEMMA RunsJoin ==
  ASSUME NEW a \in Nat, NEW b \in Nat, NEW d \in Nat, a <= b, b <= d
  PROVE  Run(a, b) \o Run(b, d) = Run(a, d)
<1>1. Run(a, b) \in Seq(Nat) /\ Len(Run(a, b)) = b - a
  BY RunsAreSeq
<1>2. Run(b, d) \in Seq(Nat) /\ Len(Run(b, d)) = d - b
  BY RunsAreSeq
<1>3. Run(a, d) \in Seq(Nat) /\ Len(Run(a, d)) = d - a
  <2>1. a <= d
    OBVIOUS
  <2> QED
    BY <2>1, RunsAreSeq
<1>4. PICK u : u = Run(a, b) \o Run(b, d)
  OBVIOUS
<1>5. /\ u \in Seq(Nat) /\ Len(u) = (b - a) + (d - b)
      /\ \A x \in 1..(b - a) : u[x] = Run(a, b)[x]
      /\ \A x \in (b - a + 1)..(b - a + (d - b)) : u[x] = Run(b, d)[x - (b - a)]
  <2>1. PICK v \in Seq(Nat), w \in Seq(Nat) : v = Run(a, b) /\ w = Run(b, d)
    BY <1>1, <1>2
  <2>2. u = v \o w /\ Len(v) = b - a /\ Len(w) = d - b
    BY <1>1, <1>2, <1>4, <2>1
  <2>3. /\ u \in Seq(Nat) /\ Len(u) = Len(v) + Len(w)
        /\ \A x \in 1..Len(v) : u[x] = v[x]
        /\ \A x \in (Len(v) + 1)..(Len(v) + Len(w)) : u[x] = w[x - Len(v)]
    <3>1. v \in Seq(Nat) /\ w \in Seq(Nat) /\ u = v \o w
      BY <2>1, <2>2
    <3> QED
      BY ONLY <3>1, Joined
  <2> QED
    BY <2>1, <2>2, <2>3
<1>6. Len(u) = d - a
  BY <1>5
<1>7. ASSUME NEW x \in 1..(d - a) PROVE u[x] = a + x
  <2>1. CASE x <= b - a
    <3>1. u[x] = Run(a, b)[x] /\ x \in 1..(b - a)
      BY <1>5, <2>1
    <3> QED
      BY <3>1 DEF Run
  <2>2. CASE x > b - a
    <3>1. x \in (b - a + 1)..(b - a + (d - b)) /\ x - (b - a) \in 1..(d - b)
      BY <2>2
    <3>2. u[x] = Run(b, d)[x - (b - a)]
      BY <1>5, <3>1
    <3>3. Run(b, d)[x - (b - a)] = b + (x - (b - a))
      BY <3>1 DEF Run
    <3> QED
      BY <3>2, <3>3
  <2> QED
    BY <2>1, <2>2
<1>8. \A x \in 1..(d - a) : Run(a, d)[x] = a + x
  BY DEF Run
<1>9. u = Run(a, d)
  BY <1>3, <1>5, <1>6, <1>7, <1>8
<1> QED
  BY <1>4, <1>9

LEMMA UnitsAreRuns ==
  ASSUME NEW n \in Nat
  PROVE  Units(n) = Run(0, n)
<1>1. n - 0 = n /\ \A x \in 1..n : 0 + x = x
  OBVIOUS
<1> QED
  BY <1>1 DEF Units, Run

-----------------------------------------------------------------------------
(* Types.                                                                  *)

LEMMA InitTypes == Init => TypeOK
<1> SUFFICES ASSUME Init PROVE TypeOK
  OBVIOUS
<1>1. /\ cRandom \in BOOLEAN /\ readActive \in BOOLEAN /\ writeActive \in BOOLEAN /\ sRandom \in BOOLEAN
      /\ cReadActive \in BOOLEAN /\ cWriteActive \in BOOLEAN /\ strayed \in BOOLEAN
  BY Zenon DEF Init
<1>2. /\ transcript \in Seq(Entry) /\ cTranscript \in Seq(Entry)
      /\ buf \in Seq(Nat) /\ request \in Seq(Nat) /\ resp \in Seq(Nat) /\ got \in Seq(Nat)
      /\ c2s \in Seq(Record) /\ s2c \in Seq(Record)
  BY DEF Init
<1>3. spc \in ServerPcs /\ cpc \in ClientPcs
  BY DEF Init, ServerPcs, ClientPcs
<1>4. /\ readSeq \in Nat /\ writeSeq \in Nat /\ cReadSeq \in Nat /\ cWriteSeq \in Nat
      /\ sent \in Nat /\ faults \in Nat /\ extras \in Nat
  BY DEF Init
<1> QED
  BY <1>1, <1>2, <1>3, <1>4 DEF Init, TypeOK

\* What the two ends leave alone.
LEMMA ServerFrame ==
  ASSUME TypeOK, UNCHANGED <<client, history>>,
         spc' \in ServerPcs, transcript' \in Seq(Entry), cRandom' \in BOOLEAN, master' \in Master \cup {NoKey},
         readActive' \in BOOLEAN, readSeq' \in Nat, readKey' \in Key \cup {NoKey},
         writeActive' \in BOOLEAN, writeSeq' \in Nat, writeKey' \in Key \cup {NoKey},
         buf' \in Seq(Nat), request' \in Seq(Nat), resp' \in Seq(Nat),
         c2s' \in Seq(Record), s2c' \in Seq(Record)
  PROVE  TypeOK'
BY DEF TypeOK, client, history

LEMMA ClientFrame ==
  ASSUME TypeOK, UNCHANGED server,
         cpc' \in ClientPcs, cTranscript' \in Seq(Entry), sRandom' \in BOOLEAN, cMaster' \in Master \cup {NoKey},
         cReadActive' \in BOOLEAN, cReadSeq' \in Nat, cWriteActive' \in BOOLEAN, cWriteSeq' \in Nat,
         sent' \in Nat, got' \in Seq(Nat), faults' \in Nat, extras' \in Nat, strayed' \in BOOLEAN,
         c2s' \in Seq(Record), s2c' \in Seq(Record)
  PROVE  TypeOK'
BY DEF TypeOK, server, handshake, readSide, writeSide, http

LEMMA ReadClientHelloTypes == TypeOK /\ ReadClientHello => TypeOK'
<1> SUFFICES ASSUME TypeOK, ReadClientHello PROVE TypeOK'
  OBVIOUS
<1>1. c2s' \in Seq(Record) /\ Head(c2s) \in Record
  BY Popped DEF ReadClientHello, TypeOK
<1>2. HelloFramed(Head(c2s)) => HelloEntry(Head(c2s)) \in Entry
  BY <1>1, Entries DEF HelloFramed, IsHandshake, HelloEntry, HsTypes
<1>3. transcript' \in Seq(Entry)
  BY <1>2 DEF ReadClientHello, TypeOK
<1>4. spc' \in ServerPcs /\ cRandom' \in BOOLEAN
  BY DEF ReadClientHello, TypeOK, ServerPcs, Close
<1> QED
  BY <1>1, <1>3, <1>4 DEF ReadClientHello, TypeOK, readSide, writeSide, http, client, history

\* The three messages of the server's flight are written in the clear.
LEMMA FlightWrites ==
  ASSUME ServerInv, NEW from \in {"sendHello", "sendCert", "sendDone"},
         NEW t, NEW to, Flight(from, t, to)
  PROVE  s2c' = Append(s2c, Clear("handshake", Hs(t, "ok"))) /\ ~writeActive
<1>1. ~writeActive
  BY DEF Flight, ServerInv, BeforeOurCcs, NoKeysYet
<1> QED
  BY <1>1, Zenon DEF Flight, WriteHandshake, Protect, Clear

LEMMA FlightTypes ==
  ASSUME TypeOK, ServerInv, NEW from \in {"sendHello", "sendCert", "sendDone"},
         NEW t \in {"serverHello", "certificate", "helloDone"}, NEW to \in ServerPcs, Flight(from, t, to)
  PROVE  TypeOK'
<1>1. s2c' = Append(s2c, Clear("handshake", Hs(t, "ok")))
  BY FlightWrites
<1>2. Clear("handshake", Hs(t, "ok")) \in Record
  <2>1. Hs(t, "ok") \in Body
    BY Bodies DEF HsTypes, Variants
  <2> QED
    BY <2>1, ClearRecord
<1>3. s2c' \in Seq(Record)
  BY <1>1, <1>2 DEF TypeOK
<1>4. transcript' \in Seq(Entry)
  <2>1. Sent(t) \in Entry
    BY Entries DEF HsTypes
  <2> QED
    BY <2>1 DEF Flight, WriteHandshake, TypeOK
<1> QED
  BY <1>3, <1>4 DEF Flight, TypeOK, readSide, writeSide, http, client, history

LEMMA ReadKeyExchangeTypes == TypeOK /\ ReadKeyExchange => TypeOK'
<1> SUFFICES ASSUME TypeOK, ReadKeyExchange PROVE TypeOK'
  OBVIOUS
<1> DEFINE r == Head(c2s)
           m == MasterOf(Premaster(r), cRandom, FALSE)
<1>1. c2s' \in Seq(Record) /\ r \in Record
  BY Popped DEF ReadKeyExchange, TypeOK
<1>2. m \in Master /\ KeyFor(m, "c2s") \in Key /\ KeyFor(m, "s2c") \in Key
  BY Keys DEF TypeOK, Premaster
<1>3. IsHandshake(r, "keyExchange", readActive) => Seen(r) \in Entry
  BY <1>1, Entries DEF IsHandshake, HsTypes
<1> HIDE DEF r, m
<1>4. transcript' \in Seq(Entry)
  <2>1. \/ transcript' = transcript
        \/ IsHandshake(r, "keyExchange", readActive) /\ transcript' = Append(transcript, Seen(r))
    BY Zenon DEF ReadKeyExchange, r
  <2>2. transcript \in Seq(Entry)
    BY DEF TypeOK
  <2> QED
    BY ONLY <1>3, <2>1, <2>2
<1>5. /\ spc' \in ServerPcs /\ master' \in Master \cup {NoKey}
      /\ readKey' \in Key \cup {NoKey} /\ writeKey' \in Key \cup {NoKey}
  BY <1>2 DEF ReadKeyExchange, TypeOK, ServerPcs, Close, SetupKeys, r, m
<1> QED
  BY <1>1, <1>4, <1>5 DEF ReadKeyExchange, TypeOK, http, client, history

LEMMA ReadChangeCipherSpecTypes == TypeOK /\ ReadChangeCipherSpec => TypeOK'
<1> SUFFICES ASSUME TypeOK, ReadChangeCipherSpec PROVE TypeOK'
  OBVIOUS
<1>1. c2s' \in Seq(Record)
  BY Popped DEF ReadChangeCipherSpec, TypeOK
<1>2. readActive' \in BOOLEAN
  BY Zenon DEF ReadChangeCipherSpec, TypeOK
<1>3. spc' \in ServerPcs /\ readSeq' \in Nat
  BY DEF ReadChangeCipherSpec, TypeOK, ServerPcs, Close
<1>4. UNCHANGED <<handshake, readKey, writeSide, http, client, s2c, history>>
  BY Zenon DEF ReadChangeCipherSpec
<1> QED
  BY <1>1, <1>2, <1>3, <1>4 DEF TypeOK, handshake, writeSide, http, client, history

LEMMA ReadFinishedTypes == TypeOK /\ ReadFinished => TypeOK'
<1> SUFFICES ASSUME TypeOK, ReadFinished PROVE TypeOK'
  OBVIOUS
<1>1. c2s' \in Seq(Record)
  BY Popped DEF ReadFinished, TypeOK
<1>2. Sent("fin") \in Entry
  BY Entries DEF HsTypes
<1>3. transcript' \in Seq(Entry)
  <2>1. transcript' = transcript \/ transcript' = Append(transcript, Sent("fin"))
    BY Zenon DEF ReadFinished
  <2>2. transcript \in Seq(Entry)
    BY DEF TypeOK
  <2> QED
    BY ONLY <1>2, <2>1, <2>2
<1>4. spc' \in ServerPcs /\ readSeq' \in Nat
  BY DEF ReadFinished, TypeOK, ServerPcs, Close
<1> QED
  BY <1>1, <1>3, <1>4 DEF ReadFinished, TypeOK, writeSide, http, client, history

LEMMA SendChangeCipherSpecWrites ==
  ASSUME ServerInv, SendChangeCipherSpec
  PROVE  s2c' = Append(s2c, Clear("ccs", Plain("ccs"))) /\ ~writeActive
<1>1. ~writeActive
  BY DEF SendChangeCipherSpec, ServerInv, BeforeOurCcs
<1> QED
  BY <1>1, Zenon DEF SendChangeCipherSpec, Protect, Clear

LEMMA SendChangeCipherSpecTypes == TypeOK /\ ServerInv /\ SendChangeCipherSpec => TypeOK'
<1> SUFFICES ASSUME TypeOK, ServerInv, SendChangeCipherSpec PROVE TypeOK'
  OBVIOUS
<1>1. s2c' = Append(s2c, Clear("ccs", Plain("ccs")))
  BY SendChangeCipherSpecWrites
<1>2. Clear("ccs", Plain("ccs")) \in Record
  BY Bodies, ClearRecord
<1>3. s2c' \in Seq(Record)
  BY <1>1, <1>2 DEF TypeOK
<1> QED
  BY <1>3 DEF SendChangeCipherSpec, TypeOK, ServerPcs, handshake, readSide, http, client, history

LEMMA SendFinishedWrites ==
  ASSUME TypeOK, ServerInv, SendFinished
  PROVE  /\ s2c' = Append(s2c, Sealed("handshake", Fin("server", master, transcript), writeKey, writeSeq))
         /\ writeSeq' = writeSeq + 1 /\ writeActive
         /\ master \in Master /\ writeKey = KeyFor(master, "s2c") /\ writeKey \in Key
         /\ Fin("server", master, transcript) \in Body
<1>1. writeActive /\ master \in Master /\ writeKey = KeyFor(master, "s2c")
  BY DEF SendFinished, ServerInv, NoKeysYet
<1>2. writeKey \in Key /\ Fin("server", master, transcript) \in Body
  BY <1>1, Keys, Bodies DEF TypeOK
<1>3. s2c' = Append(s2c, Sealed("handshake", Fin("server", master, transcript), writeKey, writeSeq))
  BY <1>1, Zenon DEF SendFinished, WriteRecord, Protect, Sealed
<1>4. writeSeq' = writeSeq + 1
  BY <1>1, Zenon DEF SendFinished, WriteRecord
<1> QED
  BY <1>1, <1>2, <1>3, <1>4

LEMMA SendFinishedTypes == TypeOK /\ ServerInv /\ SendFinished => TypeOK'
<1> SUFFICES ASSUME TypeOK, ServerInv, SendFinished PROVE TypeOK'
  OBVIOUS
<1> DEFINE r == Sealed("handshake", Fin("server", master, transcript), writeKey, writeSeq)
<1>1. s2c' = Append(s2c, r) /\ writeSeq' = writeSeq + 1
  BY SendFinishedWrites
<1>2. r \in Record
  BY SendFinishedWrites, SealedRecord DEF TypeOK
<1> HIDE DEF r
<1>3. s2c' \in Seq(Record) /\ writeSeq' \in Nat
  BY <1>1, <1>2 DEF TypeOK
<1> QED
  BY <1>3 DEF SendFinished, TypeOK, ServerPcs, handshake, readSide, http, client, history

LEMMA ReadAppTypes == TypeOK /\ ShapeInv /\ ReadApp => TypeOK'
<1> SUFFICES ASSUME TypeOK, ShapeInv, ReadApp PROVE TypeOK'
  OBVIOUS
<1> DEFINE r == Head(c2s)
           all == buf \o r.body.s
<1>1. c2s' \in Seq(Record) /\ r \in Record /\ r = c2s[1] /\ 1 \in 1..Len(c2s)
  BY Popped DEF ReadApp, TypeOK
<1>2. r.ct = "app" => all \in Seq(Nat)
  <2>1. r.ct = "app" => r.body.s \in Seq(Nat)
    BY <1>1, BodyKinds DEF ShapeInv
  <2> QED
    BY <2>1 DEF TypeOK
<1>3. Units(RespLen) \in Seq(Nat)
  BY UnitsAreSeq, LengthsAssumption
<1> HIDE DEF r, all
<1>4. buf' \in Seq(Nat) /\ request' \in Seq(Nat) /\ resp' \in Seq(Nat)
  BY <1>2, <1>3 DEF ReadApp, TypeOK, r, all, http
<1>5. spc' \in ServerPcs /\ readSeq' \in Nat
  BY DEF ReadApp, TypeOK, ServerPcs, Close
<1> QED
  BY <1>1, <1>4, <1>5 DEF ReadApp, TypeOK, handshake, writeSide, client, history

\* A record of the reply: its plaintext and what is left.
LEMMA WriteReplyWrites ==
  ASSUME TypeOK, ServerInv, WriteReply, NEW n, n = Chunk(Len(resp))
  PROVE  /\ s2c' = Append(s2c, Sealed("app", Data(SubSeq(resp, 1, n)), writeKey, writeSeq))
         /\ writeSeq' = writeSeq + 1 /\ writeActive
         /\ master \in Master /\ writeKey = KeyFor(master, "s2c") /\ writeKey \in Key
         /\ n \in 0..Len(resp) /\ n <= MaxPlain /\ Len(resp) \in Nat /\ (Len(resp) # 0 => n # 0)
         /\ SubSeq(resp, 1, n) \in Seq(Nat) /\ SubSeq(resp, n + 1, Len(resp)) \in Seq(Nat)
         /\ Data(SubSeq(resp, 1, n)) \in Body /\ resp' = SubSeq(resp, n + 1, Len(resp))
<1>1. writeActive /\ master \in Master /\ writeKey = KeyFor(master, "s2c")
  BY DEF WriteReply, ServerInv, NoKeysYet
<1>2. n \in 0..Len(resp) /\ n <= MaxPlain /\ Len(resp) \in Nat /\ (Len(resp) # 0 => n # 0)
  BY LengthsAssumption DEF Chunk, TypeOK
<1>3. SubSeq(resp, 1, n) \in Seq(Nat) /\ SubSeq(resp, n + 1, Len(resp)) \in Seq(Nat)
  <2>1. resp \in Seq(Nat) /\ \A i \in 1..Len(resp) : resp[i] \in Nat
    BY DEF TypeOK
  <2> QED
    BY ONLY <1>2, <2>1
<1>4. writeKey \in Key /\ Data(SubSeq(resp, 1, n)) \in Body
  BY <1>1, <1>3, Keys, Bodies
<1>5. s2c' = Append(s2c, Sealed("app", Data(SubSeq(resp, 1, n)), writeKey, writeSeq))
  BY <1>1, Zenon DEF WriteReply, WriteRecord, Protect, Sealed
<1>6. writeSeq' = writeSeq + 1 /\ resp' = SubSeq(resp, n + 1, Len(resp))
  BY <1>1, Zenon DEF WriteReply, WriteRecord
<1> QED
  BY <1>1, <1>2, <1>3, <1>4, <1>5, <1>6

LEMMA WriteReplyTypes == TypeOK /\ ServerInv /\ WriteReply => TypeOK'
<1> SUFFICES ASSUME TypeOK, ServerInv, WriteReply PROVE TypeOK'
  OBVIOUS
<1>1. PICK n : n = Chunk(Len(resp))
  OBVIOUS
<1>2. PICK r : r = Sealed("app", Data(SubSeq(resp, 1, n)), writeKey, writeSeq)
  OBVIOUS
<1>3. s2c' = Append(s2c, r) /\ writeSeq' = writeSeq + 1 /\ resp' \in Seq(Nat)
  BY <1>1, <1>2, WriteReplyWrites
<1>4. r \in Record
  BY <1>1, <1>2, WriteReplyWrites, SealedRecord DEF TypeOK
<1>5. s2c' \in Seq(Record) /\ writeSeq' \in Nat
  BY <1>3, <1>4 DEF TypeOK
<1>6. spc' \in ServerPcs
  BY DEF WriteReply, ServerPcs
<1> QED
  BY <1>3, <1>5, <1>6 DEF WriteReply, TypeOK, handshake, readSide, client, history

\* The record a client writes.
ClientRecord(r, ct, body) ==
  /\ r \in Record /\ c2s' = Append(c2s, r) /\ r.ct = ct /\ r.body = body /\ r.alt = "no"
  /\ cWriteActive => r.key = KeyFor(cMaster, "c2s") /\ r.seq = cWriteSeq

LEMMA ClientWrites ==
  ASSUME TypeOK, ClientInv, NEW ct \in {"v2", "handshake", "ccs", "alert", "app"}, NEW body \in Body,
         ClientWrite(ct, body)
  PROVE  /\ \E r : ClientRecord(r, ct, body)
         /\ cWriteSeq' \in Nat /\ (cWriteActive => cWriteSeq' = cWriteSeq + 1)
<1>1. CASE cWriteActive
  <2> DEFINE key == KeyFor(cMaster, "c2s")
             r == Sealed(ct, body, key, cWriteSeq)
  <2>1. cMaster = MasterOf("client", FALSE, sRandom)
    BY <1>1 DEF ClientInv
  <2>2. key \in Key /\ cWriteSeq \in Nat
    BY <2>1, Keys DEF TypeOK
  <2>3. c2s' = Append(c2s, r)
    BY <1>1, Zenon DEF ClientWrite, Protect, Sealed
  <2>4. cWriteSeq' = cWriteSeq + 1
    BY <1>1, Zenon DEF ClientWrite
  <2>5. r \in Record /\ r.ct = ct /\ r.body = body /\ r.alt = "no" /\ r.key = key /\ r.seq = cWriteSeq
    <3> HIDE DEF key
    <3> QED
      BY <2>2, SealedRecord
  <2> HIDE DEF r
  <2>6. ClientRecord(r, ct, body)
    BY <2>3, <2>5 DEF ClientRecord
  <2> QED
    BY <2>2, <2>4, <2>6
<1>2. CASE ~cWriteActive
  <2> DEFINE r == Clear(ct, body)
  <2>1. c2s' = Append(c2s, r)
    BY <1>2, Zenon DEF ClientWrite, Protect, Clear
  <2>2. cWriteSeq' = cWriteSeq + 0
    BY <1>2, Zenon DEF ClientWrite
  <2>3. r \in Record /\ r.ct = ct /\ r.body = body /\ r.alt = "no"
    BY ClearRecord
  <2> HIDE DEF r
  <2>4. ClientRecord(r, ct, body)
    BY <1>2, <2>1, <2>3 DEF ClientRecord
  <2>5. cWriteSeq' \in Nat
    BY <2>2 DEF TypeOK
  <2> QED
    BY <1>2, <2>4, <2>5
<1> QED
  BY <1>1, <1>2

\* The same for each action in which it writes.
LEMMA HelloWrites ==
  ASSUME TypeOK, ClientInv, NEW t \in {"v2hello", "v3hello"}, NEW v \in {"ok", "malformed", "noCipher"},
         ClientSendHello(t, v)
  PROVE  /\ \E r : ClientRecord(r, IF t = "v2hello" THEN "v2" ELSE "handshake", Hs(t, v))
         /\ cWriteSeq' \in Nat /\ ~cWriteActive
<1>1. Hs(t, v) \in Body
  BY Bodies DEF HsTypes, Variants
<1>2. (IF t = "v2hello" THEN "v2" ELSE "handshake") \in {"v2", "handshake", "ccs", "alert", "app"}
  OBVIOUS
<1>3. ~cWriteActive
  BY DEF ClientSendHello, ClientInv, Fresh
<1> QED
  BY <1>1, <1>2, <1>3, ClientWrites DEF ClientSendHello

LEMMA KeyExchangeWrites ==
  ASSUME TypeOK, ClientInv, NEW v \in {"ok", "malformed", "undecryptable"}, ClientSendKeyExchange(v)
  PROVE  /\ \E r : ClientRecord(r, "handshake", Hs("keyExchange", v))
         /\ cWriteSeq' \in Nat /\ ~cWriteActive
<1>1. Hs("keyExchange", v) \in Body
  BY Bodies DEF HsTypes, Variants
<1>2. ~cWriteActive
  BY DEF ClientSendKeyExchange, ClientInv, Fresh
<1> QED
  BY <1>1, <1>2, ClientWrites DEF ClientSendKeyExchange

LEMMA ClientCcsWrites ==
  ASSUME TypeOK, ClientInv, ClientSendChangeCipherSpec
  PROVE  (\E r : ClientRecord(r, "ccs", Plain("ccs"))) /\ ~cWriteActive
<1> DEFINE r == Clear("ccs", Plain("ccs"))
<1>1. c2s' = Append(c2s, r)
  BY Zenon DEF ClientSendChangeCipherSpec, Protect, Clear
<1>2. ~cWriteActive
  BY DEF ClientSendChangeCipherSpec, ClientInv
<1>3. r \in Record /\ r.ct = "ccs" /\ r.body = Plain("ccs") /\ r.alt = "no"
  BY Bodies, ClearRecord
<1> HIDE DEF r
<1>4. ClientRecord(r, "ccs", Plain("ccs"))
  BY <1>1, <1>2, <1>3 DEF ClientRecord
<1> QED
  BY <1>2, <1>4

LEMMA ClientFinishedWrites ==
  ASSUME TypeOK, ClientInv, ClientSendFinished
  PROVE  /\ \E r : ClientRecord(r, "handshake", Fin("client", cMaster, cTranscript))
         /\ cWriteSeq' \in Nat /\ cWriteSeq' = cWriteSeq + 1 /\ cWriteActive
         /\ cMaster \in Master /\ cMaster = MasterOf("client", FALSE, sRandom)
<1>1. cWriteActive /\ cMaster = MasterOf("client", FALSE, sRandom)
  BY DEF ClientSendFinished, ClientInv
<1>2. cMaster \in Master
  BY <1>1, Keys DEF TypeOK
<1>3. Fin("client", cMaster, cTranscript) \in Body
  BY <1>2, Bodies DEF TypeOK
<1> QED
  BY <1>1, <1>2, <1>3, ClientWrites DEF ClientSendFinished

LEMMA RequestWrites ==
  ASSUME TypeOK, ClientInv, NEW n \in 0..ReqLen, ClientSendRequest(n)
  PROVE  /\ \E r : ClientRecord(r, "app", Data(Run(sent, sent + n)))
         /\ Run(sent, sent + n) \in Seq(Nat)
         /\ cWriteSeq' \in Nat /\ cWriteSeq' = cWriteSeq + 1 /\ cWriteActive
<1>1. cWriteActive
  BY DEF ClientSendRequest, ClientInv
<1>2. sent \in Nat /\ n \in Nat
  BY LengthsAssumption DEF TypeOK
<1>3. [i \in 1..n |-> sent + i] = Run(sent, sent + n)
  BY <1>2 DEF Run
<1>4. Run(sent, sent + n) \in Seq(Nat)
  BY <1>2, RunsAreSeq
<1>5. Data(Run(sent, sent + n)) \in Body
  BY <1>4, Bodies
<1>6. ClientWrite("app", Data(Run(sent, sent + n)))
  BY <1>3, Zenon DEF ClientSendRequest
<1> QED
  BY <1>1, <1>4, <1>5, <1>6, ClientWrites

\* What strays: an alert or a message out of turn.
StrayBodies == {Plain("alert"), Hs("junk", "ok")}
LEMMA StrayWrites ==
  ASSUME TypeOK, ClientInv, NEW ct \in {"alert", "handshake"}, NEW body \in StrayBodies,
         ClientStrays(ct, body)
  PROVE  /\ \E r : ClientRecord(r, ct, body)
         /\ cWriteSeq' \in Nat /\ (cWriteActive => cWriteSeq' = cWriteSeq + 1)
         /\ body.t \in {"alert", "junk"}
<1>1. body \in Body /\ body.t \in {"alert", "junk"}
  BY Bodies DEF StrayBodies, HsTypes, Variants
<1> QED
  BY <1>1, ClientWrites DEF ClientStrays

LEMMA QueueGrows ==
  ASSUME TypeOK, NEW r, NEW ct, NEW body, ClientRecord(r, ct, body)
  PROVE  /\ c2s' \in Seq(Record) /\ Len(c2s) \in Nat /\ Len(c2s') = Len(c2s) + 1
         /\ c2s'[Len(c2s) + 1] = r /\ \A i \in 1..Len(c2s) : c2s'[i] = c2s[i]
<1>1. c2s \in Seq(Record) /\ r \in Record /\ c2s' = Append(c2s, r)
  BY DEF TypeOK, ClientRecord
<1> QED
  BY ONLY <1>1, Appended

LEMMA ClientSendHelloTypes ==
  ASSUME TypeOK, ClientInv, NEW t \in {"v2hello", "v3hello"}, NEW v \in {"ok", "malformed", "noCipher"},
         ClientSendHello(t, v)
  PROVE  TypeOK'
<1>1. c2s' \in Seq(Record) /\ cWriteSeq' \in Nat
  BY HelloWrites, QueueGrows
<1>2. cTranscript' \in Seq(Entry)
  <2>1. [t |-> t, v |-> v, alt |-> "no"] \in Entry
    BY DEF Entry, HsTypes, Variants, Alterations
  <2>2. cTranscript \in Seq(Entry) /\ cTranscript' = Append(cTranscript, [t |-> t, v |-> v, alt |-> "no"])
    BY DEF TypeOK, ClientSendHello
  <2> QED
    BY ONLY <2>1, <2>2
<1>3. cpc' \in ClientPcs
  BY DEF ClientSendHello, ClientPcs
<1>4. strayed' \in BOOLEAN
  BY Zenon DEF ClientSendHello
<1> QED
  BY <1>1, <1>2, <1>3, <1>4, ClientFrame DEF ClientSendHello, TypeOK

LEMMA ClientReadFlightTypes == TypeOK /\ ShapeInv /\ ProtectInv /\ ClientReadFlight => TypeOK'
<1> SUFFICES ASSUME TypeOK, ShapeInv, ProtectInv, ClientReadFlight PROVE TypeOK'
  OBVIOUS
<1> DEFINE r == Head(s2c)
<1>1. s2c' \in Seq(Record) /\ r \in Record /\ r = s2c[1] /\ 1 \in 1..Len(s2c)
  BY Popped DEF ClientReadFlight, TypeOK
<1>2. r.ct = "handshake" => Seen(r) \in Entry
  <2>1. r.body.t # "fin"
    BY <1>1 DEF ProtectInv, ClientReadFlight, FinishedSent
  <2>2. r.ct = "handshake" => r.body.t \in HsTypes \ {"fin"}
    BY <1>1, <2>1 DEF ShapeInv
  <2> QED
    BY <1>1, <2>2, Entries
<1> HIDE DEF r
<1>3. cTranscript' \in Seq(Entry)
  <2>1. cTranscript' = cTranscript \/ (r.ct = "handshake" /\ cTranscript' = Append(cTranscript, Seen(r)))
    BY Zenon DEF ClientReadFlight, r
  <2>2. cTranscript \in Seq(Entry)
    BY DEF TypeOK
  <2> QED
    BY ONLY <1>2, <2>1, <2>2
<1>4. sRandom' \in BOOLEAN
  <2>1. sRandom' = sRandom \/ sRandom' = (r.alt = "random")
    BY Zenon DEF ClientReadFlight, r
  <2> QED
    BY <2>1, Zenon DEF TypeOK
<1>5. cpc' \in ClientPcs
  BY DEF ClientReadFlight, ClientPcs
<1> QED
  BY <1>1, <1>3, <1>4, <1>5, ClientFrame DEF ClientReadFlight, TypeOK, history

LEMMA ClientSendKeyExchangeTypes ==
  ASSUME TypeOK, ClientInv, NEW v \in {"ok", "malformed", "undecryptable"}, ClientSendKeyExchange(v)
  PROVE  TypeOK'
<1>1. c2s' \in Seq(Record) /\ cWriteSeq' \in Nat
  BY KeyExchangeWrites, QueueGrows
<1>2. cTranscript' \in Seq(Entry)
  <2>1. [t |-> "keyExchange", v |-> v, alt |-> "no"] \in Entry
    BY DEF Entry, HsTypes, Variants, Alterations
  <2>2. cTranscript \in Seq(Entry) /\ cTranscript' = Append(cTranscript, [t |-> "keyExchange", v |-> v, alt |-> "no"])
    BY DEF TypeOK, ClientSendKeyExchange
  <2> QED
    BY ONLY <2>1, <2>2
<1>3. cpc' \in ClientPcs /\ cMaster' \in Master
  BY Keys DEF ClientSendKeyExchange, ClientPcs, TypeOK
<1>4. strayed' \in BOOLEAN
  BY Zenon DEF ClientSendKeyExchange
<1> QED
  BY <1>1, <1>2, <1>3, <1>4, ClientFrame DEF ClientSendKeyExchange, TypeOK

LEMMA ClientSendChangeCipherSpecTypes == TypeOK /\ ClientInv /\ ClientSendChangeCipherSpec => TypeOK'
<1> SUFFICES ASSUME TypeOK, ClientInv, ClientSendChangeCipherSpec PROVE TypeOK'
  OBVIOUS
<1>1. c2s' \in Seq(Record)
  BY ClientCcsWrites, QueueGrows
<1>2. cpc' \in ClientPcs /\ cWriteSeq' \in Nat
  BY DEF ClientSendChangeCipherSpec, ClientPcs
<1>3. cWriteActive' \in BOOLEAN
  BY Zenon DEF ClientSendChangeCipherSpec
<1> QED
  BY <1>1, <1>2, <1>3, ClientFrame DEF ClientSendChangeCipherSpec, TypeOK, history

LEMMA ClientSendFinishedTypes == TypeOK /\ ClientInv /\ ClientSendFinished => TypeOK'
<1> SUFFICES ASSUME TypeOK, ClientInv, ClientSendFinished PROVE TypeOK'
  OBVIOUS
<1>1. c2s' \in Seq(Record) /\ cWriteSeq' \in Nat
  BY ClientFinishedWrites, QueueGrows
<1>2. cTranscript' \in Seq(Entry)
  <2>1. Sent("fin") \in Entry
    BY Entries DEF HsTypes
  <2>2. cTranscript \in Seq(Entry) /\ cTranscript' = Append(cTranscript, Sent("fin"))
    BY DEF TypeOK, ClientSendFinished
  <2> QED
    BY ONLY <2>1, <2>2
<1>3. cpc' \in ClientPcs
  BY DEF ClientSendFinished, ClientPcs
<1> QED
  BY <1>1, <1>2, <1>3, ClientFrame DEF ClientSendFinished, TypeOK, history

LEMMA ClientReadChangeCipherSpecTypes == TypeOK /\ ClientReadChangeCipherSpec => TypeOK'
<1> SUFFICES ASSUME TypeOK, ClientReadChangeCipherSpec PROVE TypeOK'
  OBVIOUS
<1>1. s2c' \in Seq(Record)
  BY Popped DEF ClientReadChangeCipherSpec, TypeOK
<1>2. cpc' \in ClientPcs /\ cReadSeq' \in Nat
  BY DEF ClientReadChangeCipherSpec, ClientPcs, TypeOK
<1>3. cReadActive' = TRUE \/ cReadActive' = cReadActive
  BY Zenon DEF ClientReadChangeCipherSpec
<1>4. cReadActive' \in BOOLEAN
  BY <1>3, Zenon DEF TypeOK
<1> QED
  BY <1>1, <1>2, <1>4, ClientFrame DEF ClientReadChangeCipherSpec, TypeOK, history

LEMMA ClientReadFinishedTypes == TypeOK /\ ClientReadFinished => TypeOK'
<1> SUFFICES ASSUME TypeOK, ClientReadFinished PROVE TypeOK'
  OBVIOUS
<1>1. s2c' \in Seq(Record)
  BY Popped DEF ClientReadFinished, TypeOK
<1>2. cpc' \in ClientPcs /\ cReadSeq' \in Nat
  BY DEF ClientReadFinished, ClientPcs, TypeOK
<1> QED
  BY <1>1, <1>2, ClientFrame DEF ClientReadFinished, TypeOK, history

LEMMA ClientSendRequestTypes ==
  ASSUME TypeOK, ClientInv, NEW n \in 0..ReqLen, ClientSendRequest(n)
  PROVE  TypeOK'
<1>1. c2s' \in Seq(Record) /\ cWriteSeq' \in Nat
  BY RequestWrites, QueueGrows
<1>2. sent' \in Nat /\ extras' \in Nat
  BY LengthsAssumption DEF ClientSendRequest, TypeOK
<1> QED
  BY <1>1, <1>2, ClientFrame DEF ClientSendRequest, TypeOK, history

LEMMA ClientReadReplyTypes == TypeOK /\ ShapeInv /\ ClientReadReply => TypeOK'
<1> SUFFICES ASSUME TypeOK, ShapeInv, ClientReadReply PROVE TypeOK'
  OBVIOUS
<1> DEFINE r == Head(s2c)
<1>1. s2c' \in Seq(Record) /\ r \in Record /\ r = s2c[1] /\ 1 \in 1..Len(s2c)
  BY Popped DEF ClientReadReply, TypeOK
<1>2. r.ct = "app" => r.body.s \in Seq(Nat)
  BY <1>1, BodyKinds DEF ShapeInv
<1> HIDE DEF r
<1>3. got' \in Seq(Nat)
  <2>1. got' = got \/ (r.ct = "app" /\ got' = got \o r.body.s)
    BY Zenon DEF ClientReadReply, r
  <2>2. got \in Seq(Nat)
    BY DEF TypeOK
  <2>3. r.ct = "app" => got \o r.body.s \in Seq(Nat)
    BY ONLY <1>2, <2>2
  <2> QED
    BY <2>1, <2>2, <2>3
<1>4. cpc' \in ClientPcs /\ cReadSeq' \in Nat
  BY DEF ClientReadReply, ClientPcs, TypeOK
<1> QED
  BY <1>1, <1>3, <1>4, ClientFrame DEF ClientReadReply, TypeOK, history

LEMMA ClientStraysTypes ==
  ASSUME TypeOK, ClientInv, NEW ct \in {"alert", "handshake"}, NEW body \in StrayBodies,
         ClientStrays(ct, body)
  PROVE  TypeOK'
<1>1. c2s' \in Seq(Record) /\ cWriteSeq' \in Nat
  BY StrayWrites, QueueGrows
<1>2. extras' \in Nat
  BY DEF ClientStrays, TypeOK
<1>3. strayed' \in BOOLEAN
  BY Zenon DEF ClientStrays
<1> QED
  BY <1>1, <1>2, <1>3, ClientFrame DEF ClientStrays, TypeOK

\* Alter changes the bytes of one record.
LEMMA AlterQueues ==
  ASSUME TypeOK, NEW a \in Alterations \ {"no"}, Alter(a)
  PROVE  /\ c2s' \in Seq(Record) /\ Len(c2s') = Len(c2s) /\ \A i \in 1..Len(c2s) : SameButAlt(c2s'[i], c2s[i])
         /\ s2c' \in Seq(Record) /\ Len(s2c') = Len(s2c) /\ \A i \in 1..Len(s2c) : SameButAlt(s2c'[i], s2c[i])
<1>1. c2s \in Seq(Record) /\ s2c \in Seq(Record)
  BY DEF TypeOK
<1>2. CASE \E i \in 1..Len(c2s) : c2s' = Altered(c2s, i, a) /\ UNCHANGED s2c
  BY <1>1, <1>2, AlteredQueue DEF SameButAlt
<1>3. CASE \E i \in 1..Len(s2c) : s2c' = Altered(s2c, i, a) /\ UNCHANGED c2s
  BY <1>1, <1>3, AlteredQueue DEF SameButAlt
<1> QED
  BY <1>2, <1>3 DEF Alter

LEMMA AlterTypes ==
  ASSUME TypeOK, NEW a \in Alterations \ {"no"}, Alter(a)
  PROVE  TypeOK'
<1>1. c2s' \in Seq(Record) /\ s2c' \in Seq(Record)
  BY AlterQueues
<1>2. faults' \in Nat
  BY DEF Alter, TypeOK
<1>3. strayed' \in BOOLEAN
  BY Zenon DEF Alter
<1> QED
  BY <1>1, <1>2, <1>3, ClientFrame DEF Alter, TypeOK, client

\* Neither end closing, nor a reset, changes more than it says.
LEMMA ClosingTypes ==
  ASSUME TypeOK, WriteFails \/ ReadEOF \/ ClientReadEOF \/ ClientWriteFails \/ ClientCloses \/ TcpReset
  PROVE  TypeOK'
<1>1. CASE WriteFails
  BY <1>1 DEF WriteFails, TypeOK, Close, ServerPcs, handshake, readSide, writeSide, http, client, history
<1>2. CASE ReadEOF
  BY <1>2 DEF ReadEOF, TypeOK, Close, ServerPcs, handshake, readSide, writeSide, http, client, history
<1>3. CASE ClientReadEOF
  BY <1>3, ClientFrame DEF ClientReadEOF, TypeOK, ClientPcs, history
<1>4. CASE ClientWriteFails
  BY <1>4, ClientFrame DEF ClientWriteFails, TypeOK, ClientPcs, history
<1>5. CASE ClientCloses
  <2>1. strayed' \in BOOLEAN
    BY <1>5, Zenon DEF ClientCloses
  <2> QED
    BY <1>5, <2>1, ClientFrame DEF ClientCloses, TypeOK, ClientPcs
<1>6. CASE TcpReset
  BY <1>6, ClientFrame DEF TcpReset, TypeOK, client, history
<1> QED
  BY <1>1, <1>2, <1>3, <1>4, <1>5, <1>6

\* Every step keeps the types.
LEMMA StepTypes == Tls10Inv /\ [Next]_vars => TypeOK'
<1> SUFFICES ASSUME Tls10Inv, [Next]_vars PROVE TypeOK'
  OBVIOUS
<1>1. TypeOK /\ ServerInv /\ ClientInv /\ ShapeInv /\ ProtectInv
  BY DEF Tls10Inv
<1>2. CASE ServerStep
  <2>1. CASE SendServerHello \/ SendCertificate \/ SendServerHelloDone
    BY <1>1, <2>1, FlightTypes DEF SendServerHello, SendCertificate, SendServerHelloDone, ServerPcs
  <2> QED
    BY <1>1, <1>2, <2>1, ClosingTypes, ReadClientHelloTypes, ReadKeyExchangeTypes, ReadChangeCipherSpecTypes,
       ReadFinishedTypes, SendChangeCipherSpecTypes, SendFinishedTypes, ReadAppTypes, WriteReplyTypes
    DEF ServerStep
<1>3. CASE ClientStep
  BY <1>1, <1>3, ClosingTypes, ClientSendHelloTypes, ClientReadFlightTypes, ClientSendKeyExchangeTypes,
     ClientSendChangeCipherSpecTypes, ClientSendFinishedTypes, ClientReadChangeCipherSpecTypes,
     ClientReadFinishedTypes, ClientSendRequestTypes, ClientReadReplyTypes
  DEF ClientStep
<1>4. CASE Strays
  <2>1. CASE ClientStrays("alert", Plain("alert"))
    BY <1>1, <2>1, ClientStraysTypes DEF StrayBodies
  <2>2. CASE ClientStrays("handshake", Hs("junk", "ok"))
    BY <1>1, <2>2, ClientStraysTypes DEF StrayBodies
  <2> QED
    BY <1>1, <1>4, <2>1, <2>2, ClosingTypes, AlterTypes DEF Strays
<1>5. CASE UNCHANGED vars
  BY <1>1, <1>5 DEF TypeOK, vars, server, handshake, readSide, writeSide, http, client, history
<1> QED
  BY <1>2, <1>3, <1>4, <1>5 DEF Next

-----------------------------------------------------------------------------
(* Where the two ends stand.                                               *)

\* The keys of the server follow its own steps.
LEMMA StepServerInv == Tls10Inv /\ [Next]_vars => ServerInv'
<1> SUFFICES ASSUME Tls10Inv, [Next]_vars PROVE ServerInv'
  OBVIOUS
<1>1. TypeOK /\ ServerInv
  BY DEF Tls10Inv
<1>2. CASE UNCHANGED server
  BY <1>1, <1>2 DEF server, handshake, readSide, writeSide, ServerInv
<1>3. CASE WriteFails \/ ReadEOF
  BY <1>1, <1>3 DEF WriteFails, ReadEOF, Close, ServerInv, NoKeysYet, BeforeOurCcs
<1>4. CASE ReadClientHello
  BY <1>1, <1>4 DEF ReadClientHello, Close, ServerInv, NoKeysYet, BeforeOurCcs, readSide, writeSide
<1>5. CASE SendServerHello \/ SendCertificate \/ SendServerHelloDone
  BY <1>1, <1>5 DEF SendServerHello, SendCertificate, SendServerHelloDone, Flight, ServerInv, NoKeysYet,
     BeforeOurCcs, readSide, writeSide
<1>6. CASE ReadKeyExchange
  <2>1. /\ ~readActive /\ ~writeActive /\ readActive' = readActive /\ writeActive' = writeActive
    BY <1>1, <1>6 DEF ReadKeyExchange, ServerInv, NoKeysYet, BeforeOurCcs
  <2>2. PICK m : m = MasterOf(Premaster(Head(c2s)), cRandom, FALSE)
    OBVIOUS
  <2>3. spc' = "closed" \/ (spc' = "ccs" /\ master' = m /\ SetupKeys(m))
    BY <1>6, <2>2, Zenon DEF ReadKeyExchange, Close
  <2>4. m \in Master /\ m.sr = FALSE
    <3>1. m \in Master
      BY <1>1, <2>2, Keys DEF Premaster, TypeOK
    <3> QED
      BY <3>1, <2>2 DEF MasterOf
  <2> QED
    BY <2>1, <2>3, <2>4 DEF ServerInv, NoKeysYet, BeforeOurCcs, SetupKeys
<1>7. CASE ReadChangeCipherSpec
  <2>1. spc' = "closed" \/ (spc' = "finished" /\ readActive' = TRUE)
    BY <1>7, Zenon DEF ReadChangeCipherSpec, Close
  <2>2. /\ ~writeActive /\ writeActive' = writeActive /\ master' = master
        /\ readKey' = readKey /\ writeKey' = writeKey /\ spc = "ccs"
    BY <1>1, <1>7 DEF ReadChangeCipherSpec, ServerInv, BeforeOurCcs, handshake, writeSide
  <2> QED
    BY <1>1, <2>1, <2>2 DEF ServerInv, NoKeysYet, BeforeOurCcs
<1>8. CASE ReadFinished
  <2>1. spc' \in {"closed", "sendCcs"} /\ spc = "finished"
    BY <1>8 DEF ReadFinished, Close
  <2>2. readActive' = readActive /\ master' = master /\ readKey' = readKey /\ UNCHANGED writeSide
    BY <1>8 DEF ReadFinished
  <2> QED
    BY <1>1, <2>1, <2>2 DEF ServerInv, NoKeysYet, BeforeOurCcs, writeSide
<1>9. CASE SendChangeCipherSpec
  <2>1. spc = "sendCcs" /\ spc' = "sendFinished" /\ writeActive' = TRUE
    BY <1>9 DEF SendChangeCipherSpec
  <2>2. readActive' = readActive /\ master' = master /\ readKey' = readKey /\ writeKey' = writeKey
    BY <1>9 DEF SendChangeCipherSpec, handshake, readSide
  <2> QED
    BY <1>1, <2>1, <2>2 DEF ServerInv, NoKeysYet, BeforeOurCcs
<1>10. CASE SendFinished \/ ReadApp \/ WriteReply
  <2>1. spc \in {"sendFinished", "app", "reply"} /\ spc' \in {"app", "reply", "closed"}
    BY <1>10 DEF SendFinished, ReadApp, WriteReply, Close
  <2>2. /\ readActive' = readActive /\ master' = master /\ readKey' = readKey
        /\ writeActive' = writeActive /\ writeKey' = writeKey
    BY <1>10 DEF SendFinished, ReadApp, WriteReply, handshake, readSide, writeSide
  <2> QED
    BY <1>1, <2>1, <2>2 DEF ServerInv, NoKeysYet, BeforeOurCcs
<1>11. CASE ClientStep \/ Strays
  <2>1. UNCHANGED server
    BY <1>11 DEF ClientStep, Strays, ClientSendHello, ClientReadFlight, ClientSendKeyExchange,
       ClientSendChangeCipherSpec, ClientSendFinished, ClientReadChangeCipherSpec, ClientReadFinished,
       ClientSendRequest, ClientReadReply, ClientReadEOF, ClientWriteFails, ClientStrays, ClientCloses,
       Alter, TcpReset
  <2> QED
    BY <1>2, <2>1
<1> QED
  BY <1>2, <1>3, <1>4, <1>5, <1>6, <1>7, <1>8, <1>9, <1>10, <1>11 DEF Next, ServerStep, vars

LEMMA ServerKeepsClient == ServerStep => UNCHANGED <<client, history>>
BY DEF ServerStep, WriteFails, ReadEOF, ReadClientHello, SendServerHello, SendCertificate,
   SendServerHelloDone, Flight, ReadKeyExchange, ReadChangeCipherSpec, ReadFinished,
   SendChangeCipherSpec, SendFinished, ReadApp, WriteReply

LEMMA ClientKeepsServer == ClientStep \/ Strays => UNCHANGED server
BY DEF ClientStep, Strays, ClientSendHello, ClientReadFlight, ClientSendKeyExchange,
   ClientSendChangeCipherSpec, ClientSendFinished, ClientReadChangeCipherSpec, ClientReadFinished,
   ClientSendRequest, ClientReadReply, ClientReadEOF, ClientWriteFails, ClientStrays, ClientCloses,
   Alter, TcpReset

\* Once its write side is active the server does not go back.
LEMMA ServerMovesOn ==
  ASSUME ServerStep, TypeOK, spc \notin BeforeOurCcs
  PROVE  /\ spc \in {"sendFinished", "app", "reply", "closed"} /\ spc' \in {"app", "reply", "closed"}
         /\ UNCHANGED <<transcript, master, writeActive, writeKey>>
<1>1. spc \in {"sendFinished", "app", "reply", "closed"}
  BY DEF TypeOK, ServerPcs, BeforeOurCcs, NoKeysYet
<1> QED
  BY <1>1 DEF ServerStep, WriteFails, ReadEOF, ReadClientHello, SendServerHello, SendCertificate,
   SendServerHelloDone, Flight, ReadKeyExchange, ReadChangeCipherSpec, ReadFinished,
   SendChangeCipherSpec, SendFinished, ReadApp, WriteReply, Close, handshake, writeSide

\* Once its Finished is out the client keeps its transcript and its keys.
LEMMA ClientSettled ==
  ASSUME TypeOK, ClientStep \/ Strays, cpc \in FinishedSent
  PROVE  cpc' \in FinishedSent /\ UNCHANGED <<cTranscript, sRandom, cMaster, cWriteActive>>
BY DEF FinishedSent, ClientStep, Strays, ClientSendHello, ClientReadFlight, ClientSendKeyExchange,
   ClientSendChangeCipherSpec, ClientSendFinished, ClientReadChangeCipherSpec, ClientReadFinished,
   ClientSendRequest, ClientReadReply, ClientReadEOF, ClientWriteFails, ClientStrays, ClientCloses,
   Alter, TcpReset, client

LEMMA StepClientInv == Tls10Inv /\ [Next]_vars => ClientInv'
<1> SUFFICES ASSUME Tls10Inv, [Next]_vars PROVE ClientInv'
  OBVIOUS
<1>1. TypeOK /\ ClientInv /\ WriteInv
  BY DEF Tls10Inv
<1>2. CASE UNCHANGED <<client, spc>>
  BY <1>1, <1>2 DEF client, ClientInv
<1>3. CASE ServerStep
  <2>1. UNCHANGED client
    BY <1>3, ServerKeepsClient
  <2>2. spc \notin BeforeOurCcs => spc' \notin BeforeOurCcs
    BY <1>1, <1>3, ServerMovesOn DEF BeforeOurCcs, NoKeysYet
  <2> QED
    BY <1>1, <2>1, <2>2 DEF client, ClientInv
<1>4. CASE ClientStep \/ Strays
  <2>0. spc' = spc
    BY <1>4, ClientKeepsServer DEF server
  <2>1. CASE \E t \in {"v2hello", "v3hello"}, v \in {"ok", "malformed", "noCipher"} : ClientSendHello(t, v)
    <3>1. cpc = "hello" /\ cpc' = "flight" /\ UNCHANGED <<cWriteActive, cReadActive, cMaster, sRandom>>
      BY <2>1, Zenon DEF ClientSendHello
    <3> QED
      BY <1>1, <2>0, <3>1 DEF ClientInv, Fresh
  <2>2. CASE ClientReadFlight
    BY <1>1, <2>0, <2>2 DEF ClientReadFlight, ClientInv, Fresh
  <2>3. CASE \E v \in {"ok", "malformed", "undecryptable"} : ClientSendKeyExchange(v)
    BY <1>1, <2>0, <2>3 DEF ClientSendKeyExchange, ClientInv, Fresh
  <2>4. CASE ClientSendChangeCipherSpec
    <3>1. cpc = "ccs" /\ cpc' = "finished" /\ UNCHANGED <<cReadActive, cMaster, sRandom>>
      BY <2>4 DEF ClientSendChangeCipherSpec
    <3>2. cWriteActive'
      BY <2>4, Zenon DEF ClientSendChangeCipherSpec
    <3> QED
      BY <1>1, <2>0, <3>1, <3>2 DEF ClientInv, Fresh
  <2>5. CASE ClientSendFinished
    BY <1>1, <2>0, <2>5 DEF ClientSendFinished, ClientInv, Fresh
  <2>6. CASE ClientReadChangeCipherSpec
    <3>1. cpc = "awaitCcs" /\ UNCHANGED <<cWriteActive, cMaster, sRandom>>
      BY <2>6 DEF ClientReadChangeCipherSpec
    <3>2. CASE cpc' = "closed" /\ cReadActive' = cReadActive
      BY <1>1, <2>0, <3>1, <3>2 DEF ClientInv, Fresh
    <3>3. CASE cpc' = "awaitFinished" /\ Head(s2c).ct = "ccs" /\ cReadActive' = TRUE
      <4>1. 1 \in 1..Len(s2c) /\ Head(s2c) = s2c[1]
        BY <1>1, <2>6, Popped DEF ClientReadChangeCipherSpec, TypeOK
      <4>2. spc \notin BeforeOurCcs
        BY <1>1, <3>3, <4>1 DEF WriteInv
      <4>3. cReadActive'
        BY <3>3, Zenon
      <4> QED
        BY <1>1, <2>0, <3>1, <3>3, <4>2, <4>3 DEF ClientInv, Fresh
    <3> QED
      BY <2>6, <3>2, <3>3, Zenon DEF ClientReadChangeCipherSpec
  <2>7. CASE ClientReadFinished
    BY <1>1, <2>0, <2>7 DEF ClientReadFinished, ClientInv, Fresh
  <2>8. CASE \E n \in 0..ReqLen : ClientSendRequest(n)
    BY <1>1, <2>0, <2>8 DEF ClientSendRequest, ClientInv
  <2>9. CASE ClientReadReply
    BY <1>1, <2>0, <2>9 DEF ClientReadReply, ClientInv, Fresh
  <2>10. CASE ClientReadEOF \/ ClientWriteFails \/ ClientCloses
    <3>1. cpc' = "closed" /\ UNCHANGED <<cWriteActive, cReadActive, cMaster, sRandom>>
      BY <2>10, Zenon DEF ClientReadEOF, ClientWriteFails, ClientCloses
    <3> QED
      BY <1>1, <2>0, <3>1 DEF ClientInv, Fresh
  <2>11. CASE \E ct, body : ClientStrays(ct, body)
    <3>1. UNCHANGED <<cpc, cWriteActive, cReadActive, cMaster, sRandom>>
      BY <2>11, Zenon DEF ClientStrays
    <3> QED
      BY <1>1, <2>0, <3>1 DEF ClientInv
  <2>12. CASE TcpReset \/ \E a \in Alterations \ {"no"} : Alter(a)
    BY <1>2, <2>0, <2>12 DEF TcpReset, Alter
  <2> QED
    BY <1>4, <2>1, <2>2, <2>3, <2>4, <2>5, <2>6, <2>7, <2>8, <2>9, <2>10, <2>11, <2>12
    DEF ClientStep, Strays
<1> QED
  BY <1>2, <1>3, <1>4 DEF Next, vars, server

-----------------------------------------------------------------------------
(* How the queues move.                                                    *)

\* p is q without its first d records; bytes may be altered.
Rest(p, q, d) ==
  /\ p \in Seq(Record) /\ Len(p) \in Nat /\ Len(q) \in Nat /\ d \in 0..Len(q) /\ Len(p) = Len(q) - d
  /\ \A i \in 1..Len(p) : i + d \in 1..Len(q) /\ SameButAlt(p[i], q[i + d])

\* p is q with r after its last record.
Longer(p, q, r) ==
  /\ r \in Record /\ p \in Seq(Record) /\ Len(q) \in Nat /\ Len(p) = Len(q) + 1
  /\ p[Len(q) + 1] = r /\ \A i \in 1..Len(q) : p[i] = q[i]

LEMMA RestOfSame ==
  ASSUME NEW q \in Seq(Record)
  PROVE  Rest(q, q, 0)
<1>1. Len(q) \in Nat /\ \A i \in 1..Len(q) : i + 0 = i
  OBVIOUS
<1> QED
  BY <1>1 DEF Rest, SameButAlt

LEMMA RestOfTail ==
  ASSUME NEW q \in Seq(Record), q # <<>>, NEW p, p = Tail(q)
  PROVE  Rest(p, q, 1) /\ Head(q) = q[1] /\ 1 \in 1..Len(q) /\ Head(q) \in Record
<1>1. /\ p \in Seq(Record) /\ Len(q) \in Nat \ {0} /\ Len(p) = Len(q) - 1
      /\ Head(q) = q[1] /\ Head(q) \in Record
      /\ \A i \in 1..Len(p) : p[i] = q[i + 1] /\ i + 1 \in 1..Len(q)
  BY Popped
<1> QED
  BY <1>1 DEF Rest, SameButAlt

LEMMA RestOfAltered ==
  ASSUME TypeOK, NEW a \in Alterations \ {"no"}, Alter(a)
  PROVE  Rest(c2s', c2s, 0) /\ Rest(s2c', s2c, 0)
<1>1. /\ c2s' \in Seq(Record) /\ Len(c2s') = Len(c2s) /\ \A i \in 1..Len(c2s) : SameButAlt(c2s'[i], c2s[i])
      /\ s2c' \in Seq(Record) /\ Len(s2c') = Len(s2c) /\ \A i \in 1..Len(s2c) : SameButAlt(s2c'[i], s2c[i])
  BY AlterQueues
<1>2. Len(c2s) \in Nat /\ Len(s2c) \in Nat
  BY DEF TypeOK
<1>3. \A i \in Nat : i + 0 = i
  OBVIOUS
<1> QED
  BY <1>1, <1>2, <1>3 DEF Rest

\* The server reads at most one record.
LEMMA ServerReads ==
  ASSUME TypeOK, ServerStep
  PROVE  \/ Rest(c2s', c2s, 0)
         \/ Rest(c2s', c2s, 1) /\ (ReadClientHello \/ ReadKeyExchange \/ ReadChangeCipherSpec \/ ReadFinished \/ ReadApp)
<1>1. c2s \in Seq(Record)
  BY DEF TypeOK
<1>2. \/ c2s' = c2s
      \/ /\ c2s # <<>> /\ c2s' = Tail(c2s)
         /\ ReadClientHello \/ ReadKeyExchange \/ ReadChangeCipherSpec \/ ReadFinished \/ ReadApp
  BY DEF ServerStep, WriteFails, ReadEOF, ReadClientHello, SendServerHello, SendCertificate,
     SendServerHelloDone, Flight, ReadKeyExchange, ReadChangeCipherSpec, ReadFinished,
     SendChangeCipherSpec, SendFinished, ReadApp, WriteReply
<1> QED
  BY <1>1, <1>2, RestOfSame, RestOfTail

\* The client writes nothing, a record in the clear before its
\* ChangeCipherSpec, that record itself, or a sealed one after it.
ClientQuiet == Rest(c2s', c2s, 0) /\ UNCHANGED <<cWriteActive, cWriteSeq, cMaster, sent>>
ClientClear ==
  /\ \E r : Longer(c2s', c2s, r) /\ r.ct \notin {"ccs", "app"} /\ r.body.t \notin {"fin", "data"}
  /\ ~cWriteActive /\ cWriteActive' = cWriteActive /\ sent' = sent
  /\ ~ClientSendFinished /\ (strayed' \/ cpc \notin FinishedSent)
ClientCcs ==
  /\ \E r : Longer(c2s', c2s, r) /\ r.ct = "ccs" /\ r.body.t = "ccs"
  /\ ~cWriteActive /\ cWriteActive' /\ cWriteSeq' = 0 /\ sent' = sent /\ cpc = "ccs"
ClientSealed ==
  /\ \E r : /\ Longer(c2s', c2s, r) /\ r.ct # "ccs" /\ r.key = KeyFor(cMaster, "c2s") /\ r.seq = cWriteSeq
            /\ \/ ClientSendFinished /\ r.ct = "handshake" /\ r.body = Fin("client", cMaster, cTranscript)
               \/ /\ r.ct = "app" /\ r.body = Data(Run(sent, sent'))
                  /\ cpc = "request" /\ sent < ReqLen /\ sent' \in sent..ReqLen
               \/ r.ct \notin {"app", "ccs"} /\ r.body.t \in {"alert", "junk"} /\ strayed' /\ sent' = sent
  /\ cWriteActive /\ cWriteActive' = cWriteActive /\ cWriteSeq' = cWriteSeq + 1 /\ cMaster' = cMaster

LEMMA ClientMoves ==
  ASSUME Tls10Inv, ClientStep \/ Strays
  PROVE  ClientQuiet \/ ClientClear \/ ClientCcs \/ ClientSealed
<1>1. TypeOK /\ ClientInv /\ c2s \in Seq(Record)
  BY DEF Tls10Inv, TypeOK
<1>2. \A r, ct, body : ClientRecord(r, ct, body) => Longer(c2s', c2s, r) /\ r.ct = ct /\ r.body = body
  BY <1>1, QueueGrows DEF ClientRecord, Longer
<1>3. CASE \E t \in {"v2hello", "v3hello"}, v \in {"ok", "malformed", "noCipher"} : ClientSendHello(t, v)
  <2>1. PICK t \in {"v2hello", "v3hello"}, v \in {"ok", "malformed", "noCipher"} : ClientSendHello(t, v)
    BY <1>3
  <2>2. PICK r : ClientRecord(r, IF t = "v2hello" THEN "v2" ELSE "handshake", Hs(t, v))
    BY <1>1, <2>1, HelloWrites
  <2>3. Longer(c2s', c2s, r) /\ r.ct \in {"v2", "handshake"} /\ r.body.t = t
    <3>1. Hs(t, v).t = t
      BY DEF Hs
    <3> QED
      BY <1>2, <2>2, <3>1
  <2>4. ~cWriteActive /\ cWriteActive' = cWriteActive /\ sent' = sent /\ ~ClientSendFinished
    BY <1>1, <2>1, HelloWrites DEF ClientSendHello, ClientSendFinished
  <2>5. cpc \notin FinishedSent
    BY <2>1 DEF ClientSendHello, FinishedSent
  <2>6. ClientClear
    BY <2>3, <2>4, <2>5 DEF ClientClear
  <2> QED
    BY <2>6
<1>4. CASE \E v \in {"ok", "malformed", "undecryptable"} : ClientSendKeyExchange(v)
  <2>1. PICK v \in {"ok", "malformed", "undecryptable"} : ClientSendKeyExchange(v)
    BY <1>4
  <2>2. PICK r : ClientRecord(r, "handshake", Hs("keyExchange", v))
    BY <1>1, <2>1, KeyExchangeWrites
  <2>3. Longer(c2s', c2s, r) /\ r.ct = "handshake" /\ r.body.t = "keyExchange"
    <3>1. Hs("keyExchange", v).t = "keyExchange"
      BY DEF Hs
    <3> QED
      BY <1>2, <2>2, <3>1
  <2>4. ~cWriteActive /\ cWriteActive' = cWriteActive /\ sent' = sent /\ ~ClientSendFinished
    BY <1>1, <2>1, KeyExchangeWrites DEF ClientSendKeyExchange, ClientSendFinished
  <2>5. cpc \notin FinishedSent
    BY <2>1 DEF ClientSendKeyExchange, FinishedSent
  <2>6. ClientClear
    BY <2>3, <2>4, <2>5 DEF ClientClear
  <2> QED
    BY <2>6
<1>5. CASE ClientSendChangeCipherSpec
  <2>1. PICK r : ClientRecord(r, "ccs", Plain("ccs"))
    BY <1>1, <1>5, ClientCcsWrites
  <2>2. Longer(c2s', c2s, r) /\ r.ct = "ccs" /\ r.body.t = "ccs"
    BY <1>2, <2>1 DEF Plain
  <2>3. ~cWriteActive /\ cWriteActive' /\ cWriteSeq' = 0 /\ sent' = sent /\ cpc = "ccs"
    BY <1>1, <1>5, ClientCcsWrites, Zenon DEF ClientSendChangeCipherSpec
  <2> QED
    BY <2>2, <2>3 DEF ClientCcs
<1>6. CASE ClientSendFinished
  <2>1. PICK r : ClientRecord(r, "handshake", Fin("client", cMaster, cTranscript))
    BY <1>1, <1>6, ClientFinishedWrites
  <2>2. Longer(c2s', c2s, r) /\ r.ct = "handshake" /\ r.body = Fin("client", cMaster, cTranscript)
    BY <1>2, <2>1
  <2>3. cWriteActive /\ cWriteActive' = cWriteActive /\ cWriteSeq' = cWriteSeq + 1 /\ cMaster' = cMaster
    BY <1>1, <1>6, ClientFinishedWrites DEF ClientSendFinished
  <2>4. r.key = KeyFor(cMaster, "c2s") /\ r.seq = cWriteSeq
    BY <2>1, <2>3 DEF ClientRecord
  <2> QED
    BY <1>6, <2>2, <2>3, <2>4 DEF ClientSealed
<1>7. CASE \E n \in 0..ReqLen : ClientSendRequest(n)
  <2>1. PICK n \in 0..ReqLen : ClientSendRequest(n)
    BY <1>7
  <2>2. sent' = sent + n /\ cpc = "request" /\ sent < ReqLen /\ sent' \in sent..ReqLen
    BY <1>1, <2>1, LengthsAssumption DEF ClientSendRequest, TypeOK
  <2>3. PICK r : ClientRecord(r, "app", Data(Run(sent, sent')))
    BY <1>1, <2>1, <2>2, RequestWrites
  <2>4. Longer(c2s', c2s, r) /\ r.ct = "app" /\ r.body = Data(Run(sent, sent'))
    BY <1>2, <2>3
  <2>5. cWriteActive /\ cWriteActive' = cWriteActive /\ cWriteSeq' = cWriteSeq + 1 /\ cMaster' = cMaster
    BY <1>1, <2>1, RequestWrites DEF ClientSendRequest
  <2>6. r.key = KeyFor(cMaster, "c2s") /\ r.seq = cWriteSeq
    BY <2>3, <2>5 DEF ClientRecord
  <2> QED
    BY <2>2, <2>4, <2>5, <2>6 DEF ClientSealed
<1>8. CASE ClientStrays("alert", Plain("alert")) \/ ClientStrays("handshake", Hs("junk", "ok"))
  <2>1. PICK ct \in {"alert", "handshake"}, body \in StrayBodies : ClientStrays(ct, body)
    BY <1>8 DEF StrayBodies
  <2>2. PICK r : ClientRecord(r, ct, body)
    BY <1>1, <2>1, StrayWrites
  <2>3. Longer(c2s', c2s, r) /\ r.ct \in {"alert", "handshake"} /\ r.body.t \in {"alert", "junk"}
    BY <1>1, <1>2, <2>1, <2>2, StrayWrites
  <2>4. cWriteActive' = cWriteActive /\ cMaster' = cMaster /\ sent' = sent
    BY <2>1 DEF ClientStrays
  <2>5. strayed'
    BY <2>1, Zenon DEF ClientStrays
  <2>6. CASE cWriteActive
    <3>1. r.key = KeyFor(cMaster, "c2s") /\ r.seq = cWriteSeq
      BY <2>2, <2>6 DEF ClientRecord
    <3>2. cWriteSeq' = cWriteSeq + 1
      BY <1>1, <2>1, <2>6, StrayWrites
    <3> QED
      BY <2>3, <2>4, <2>5, <2>6, <3>1, <3>2 DEF ClientSealed
  <2>7. CASE ~cWriteActive
    <3>1. ~ClientSendFinished
      BY <1>1, <2>7 DEF ClientSendFinished, ClientInv
    <3> QED
      BY <2>3, <2>4, <2>5, <2>7, <3>1 DEF ClientClear
  <2> QED
    BY <2>6, <2>7
<1>9. CASE \/ ClientReadFlight \/ ClientReadChangeCipherSpec \/ ClientReadFinished \/ ClientReadReply
           \/ ClientReadEOF \/ ClientWriteFails \/ ClientCloses \/ TcpReset
  <2>1. c2s' = c2s /\ UNCHANGED <<cWriteActive, cWriteSeq, cMaster, sent>>
    BY <1>9 DEF ClientReadFlight, ClientReadChangeCipherSpec, ClientReadFinished, ClientReadReply,
       ClientReadEOF, ClientWriteFails, ClientCloses, TcpReset, client
  <2> QED
    BY <1>1, <2>1, RestOfSame DEF ClientQuiet
<1>10. CASE \E a \in Alterations \ {"no"} : Alter(a)
  BY <1>1, <1>10, RestOfAltered DEF ClientQuiet, Alter, client
<1> QED
  BY <1>3, <1>4, <1>5, <1>6, <1>7, <1>8, <1>9, <1>10 DEF ClientStep, Strays

LEMMA LongerByOne ==
  ASSUME NEW q \in Seq(Record), NEW r \in Record, NEW p, p = Append(q, r)
  PROVE  Longer(p, q, r)
BY Appended DEF Longer

\* The server writes nothing, a message of its flight in the clear, its
\* ChangeCipherSpec, or a sealed record after it.
ServerSilent == s2c' = s2c /\ UNCHANGED <<writeActive, writeSeq>>
ServerClear ==
  /\ \E r : Longer(s2c', s2c, r) /\ r.ct = "handshake" /\ r.key = NoKey /\ r.alt = "no"
            /\ r.body.t \in {"serverHello", "certificate", "helloDone"}
  /\ spc \in NoKeysYet /\ spc' \in NoKeysYet /\ UNCHANGED <<writeActive, writeSeq, master>>
ServerCcs ==
  /\ SendChangeCipherSpec
  /\ \E r : Longer(s2c', s2c, r) /\ r.ct = "ccs" /\ r.body.t = "ccs" /\ r.key = NoKey /\ r.alt = "no"
  /\ spc = "sendCcs" /\ spc' = "sendFinished" /\ writeSeq' = 0 /\ master' = master
ServerSealed ==
  /\ \E r : /\ Longer(s2c', s2c, r) /\ r.key = KeyFor(master, "s2c") /\ r.seq = writeSeq /\ r.alt = "no"
            /\ \/ SendFinished /\ r.ct = "handshake" /\ r.body.t = "fin"
               \/ WriteReply /\ r.ct = "app" /\ r.body = Data(SubSeq(resp, 1, Chunk(Len(resp))))
  /\ spc \in {"sendFinished", "reply"} /\ spc' \in {"app", "reply", "closed"}
  /\ writeSeq' = writeSeq + 1 /\ master' = master

LEMMA FlightMoves ==
  ASSUME Tls10Inv, NEW from \in {"sendHello", "sendCert", "sendDone"},
         NEW t \in {"serverHello", "certificate", "helloDone"}, NEW to \in NoKeysYet, Flight(from, t, to)
  PROVE  ServerClear
<1>1. TypeOK /\ ServerInv /\ s2c \in Seq(Record)
  BY DEF Tls10Inv, TypeOK
<1>2. Hs(t, "ok") \in Body /\ Hs(t, "ok").t = t
  BY Bodies DEF HsTypes, Variants
<1>3. PICK r : r = Clear("handshake", Hs(t, "ok"))
  OBVIOUS
<1>4. r \in Record /\ r.ct = "handshake" /\ r.body = Hs(t, "ok") /\ r.alt = "no" /\ r.key = NoKey
  BY <1>2, <1>3, ClearRecord
<1>5. s2c' = Append(s2c, r)
  BY <1>1, <1>3, FlightWrites
<1>6. Longer(s2c', s2c, r)
  BY <1>1, <1>4, <1>5, LongerByOne
<1>7. spc = from /\ spc' = to /\ UNCHANGED <<writeActive, writeSeq, master>>
  BY DEF Flight, writeSide
<1> QED
  BY <1>2, <1>4, <1>6, <1>7 DEF ServerClear, NoKeysYet

LEMMA ServerMoves ==
  ASSUME Tls10Inv, ServerStep
  PROVE  ServerSilent \/ ServerClear \/ ServerCcs \/ ServerSealed
<1>1. TypeOK /\ ServerInv /\ s2c \in Seq(Record) /\ writeSeq \in Nat
  BY DEF Tls10Inv, TypeOK
<1>2. CASE \/ WriteFails \/ ReadEOF \/ ReadClientHello \/ ReadChangeCipherSpec \/ ReadFinished \/ ReadApp
  BY <1>2 DEF WriteFails, ReadEOF, ReadClientHello, ReadChangeCipherSpec, ReadFinished, ReadApp,
     writeSide, ServerSilent
<1>3. CASE ReadKeyExchange
  <2>1. s2c' = s2c /\ UNCHANGED <<writeActive, writeSeq>>
    BY <1>3 DEF ReadKeyExchange
  <2> QED
    BY <2>1 DEF ServerSilent
<1>4. CASE SendServerHello \/ SendCertificate \/ SendServerHelloDone
  BY <1>4, FlightMoves DEF SendServerHello, SendCertificate, SendServerHelloDone, NoKeysYet
<1>5. CASE SendChangeCipherSpec
  <2>1. PICK r : r = Clear("ccs", Plain("ccs"))
    OBVIOUS
  <2>2. r \in Record /\ r.ct = "ccs" /\ r.body = Plain("ccs") /\ r.alt = "no" /\ r.key = NoKey
    BY <2>1, Bodies, ClearRecord
  <2>3. r.body.t = "ccs"
    BY <2>2 DEF Plain
  <2>4. Longer(s2c', s2c, r)
    BY <1>1, <1>5, <2>1, <2>2, LongerByOne, SendChangeCipherSpecWrites
  <2>5. spc = "sendCcs" /\ spc' = "sendFinished" /\ writeSeq' = 0 /\ master' = master
    BY <1>5 DEF SendChangeCipherSpec, handshake
  <2> QED
    BY <1>5, <2>2, <2>3, <2>4, <2>5 DEF ServerCcs
<1>6. CASE SendFinished
  <2>1. PICK b : b = Fin("server", master, transcript)
    OBVIOUS
  <2>2. PICK r : r = Sealed("handshake", b, writeKey, writeSeq)
    OBVIOUS
  <2>3. /\ s2c' = Append(s2c, r) /\ writeSeq' = writeSeq + 1
        /\ writeKey = KeyFor(master, "s2c") /\ writeKey \in Key /\ b \in Body
    BY <1>1, <1>6, <2>1, <2>2, SendFinishedWrites
  <2>4. b.t = "fin"
    BY <2>1 DEF Fin
  <2>5. /\ r \in Record /\ r.ct = "handshake" /\ r.body = b /\ r.alt = "no"
        /\ r.key = writeKey /\ r.seq = writeSeq
    BY <1>1, <2>2, <2>3, SealedRecord
  <2>6. Longer(s2c', s2c, r)
    BY <1>1, <2>3, <2>5, LongerByOne
  <2>7. spc = "sendFinished" /\ spc' = "app" /\ master' = master
    BY <1>6 DEF SendFinished, handshake
  <2> QED
    BY <1>6, <2>3, <2>4, <2>5, <2>6, <2>7 DEF ServerSealed
<1>7. CASE WriteReply
  <2>1. PICK n : n = Chunk(Len(resp))
    OBVIOUS
  <2>2. PICK b : b = Data(SubSeq(resp, 1, n))
    OBVIOUS
  <2>3. PICK r : r = Sealed("app", b, writeKey, writeSeq)
    OBVIOUS
  <2>4. /\ s2c' = Append(s2c, r) /\ writeSeq' = writeSeq + 1
        /\ writeKey = KeyFor(master, "s2c") /\ writeKey \in Key /\ b \in Body
    BY <1>1, <1>7, <2>1, <2>2, <2>3, WriteReplyWrites
  <2>5. /\ r \in Record /\ r.ct = "app" /\ r.body = b /\ r.alt = "no"
        /\ r.key = writeKey /\ r.seq = writeSeq
    BY <1>1, <2>3, <2>4, SealedRecord
  <2>6. Longer(s2c', s2c, r)
    BY <1>1, <2>4, <2>5, LongerByOne
  <2>7. spc = "reply" /\ spc' \in {"reply", "closed"} /\ master' = master
    BY <1>7 DEF WriteReply, handshake
  <2> QED
    BY <1>7, <2>1, <2>2, <2>4, <2>5, <2>6, <2>7 DEF ServerSealed
<1> QED
  BY <1>2, <1>3, <1>4, <1>5, <1>6, <1>7 DEF ServerStep

\* The client reads at most one record, or loses them all to a reset.
ClientReads ==
  ClientReadFlight \/ ClientReadChangeCipherSpec \/ ClientReadFinished \/ ClientReadReply

LEMMA ClientReading ==
  ASSUME TypeOK, ClientStep \/ Strays
  PROVE  /\ cpc' # "closed" => cpc # "closed"
         /\ \/ Rest(s2c', s2c, 0) /\ UNCHANGED <<cReadActive, cReadSeq, got>> /\ ~ClientReads
            \/ s2c # <<>> /\ s2c' = Tail(s2c) /\ Rest(s2c', s2c, 1) /\ ClientReads
            \/ TcpReset /\ s2c' = <<>> /\ spc = "closed" /\ UNCHANGED client
<1>1. s2c \in Seq(Record) /\ Rest(s2c, s2c, 0)
  BY RestOfSame DEF TypeOK
<1>2. CASE ClientReads
  <2>1. s2c # <<>> /\ s2c' = Tail(s2c) /\ cpc # "closed"
    BY <1>2 DEF ClientReads, ClientReadFlight, ClientReadChangeCipherSpec, ClientReadFinished, ClientReadReply
  <2> QED
    BY <1>1, <1>2, <2>1, RestOfTail
<1>3. CASE \E a \in Alterations \ {"no"} : Alter(a)
  <2>1. PICK a \in Alterations \ {"no"} : Alter(a)
    BY <1>3
  <2>2. Rest(s2c', s2c, 0)
    BY <2>1, RestOfAltered
  <2>3. UNCHANGED <<cpc, cReadActive, cReadSeq, got>>
    BY <2>1 DEF Alter, client
  <2> QED
    BY <1>2, <2>2, <2>3
<1>4. CASE TcpReset
  BY <1>4 DEF TcpReset, client
<1>5. CASE \/ \E t \in {"v2hello", "v3hello"}, v \in {"ok", "malformed", "noCipher"} : ClientSendHello(t, v)
           \/ \E v \in {"ok", "malformed", "undecryptable"} : ClientSendKeyExchange(v)
           \/ ClientSendChangeCipherSpec \/ ClientSendFinished \/ \E n \in 0..ReqLen : ClientSendRequest(n)
           \/ ClientReadEOF \/ ClientWriteFails \/ ClientCloses
           \/ ClientStrays("alert", Plain("alert")) \/ ClientStrays("handshake", Hs("junk", "ok"))
  <2>1. s2c' = s2c /\ UNCHANGED <<cReadActive, cReadSeq, got>>
    BY <1>5, Zenon DEF ClientSendHello, ClientSendKeyExchange, ClientSendChangeCipherSpec, ClientSendFinished,
       ClientSendRequest, ClientReadEOF, ClientWriteFails, ClientCloses, ClientStrays
  <2>2. cpc # "closed"
    BY <1>5 DEF ClientSendHello, ClientSendKeyExchange, ClientSendChangeCipherSpec, ClientSendFinished,
       ClientSendRequest, ClientReadEOF, ClientWriteFails, ClientCloses, ClientStrays
  <2> QED
    BY <1>1, <1>2, <2>1, <2>2
<1> QED
  BY <1>2, <1>3, <1>4, <1>5 DEF ClientReads, ClientStep, Strays

LEMMA ServerRuns ==
  ASSUME ServerStep
  PROVE  spc # "closed"
BY DEF ServerStep, WriteFails, ReadEOF, ReadClientHello, SendServerHello, SendCertificate,
   SendServerHelloDone, Flight, ReadKeyExchange, ReadChangeCipherSpec, ReadFinished,
   SendChangeCipherSpec, SendFinished, ReadApp, WriteReply

-----------------------------------------------------------------------------
(* What is on the wire.                                                    *)

\* What a content type says about the content, in one record of each direction.
C2SShape(r) == r.ct = "app" <=> r.body.t = "data"
S2CShape(r) ==
  /\ r.ct = "handshake" => r.body.t \in HsTypes
  /\ r.ct = "app" => r.body.t = "data" /\ Len(r.body.s) \in 1..MaxPlain

LEMMA StepShapeInv == Tls10Inv /\ [Next]_vars => ShapeInv'
<1> SUFFICES ASSUME Tls10Inv, [Next]_vars PROVE ShapeInv'
  OBVIOUS
<1>1. /\ TypeOK /\ ServerInv /\ PendingInv
      /\ \A i \in 1..Len(c2s) : C2SShape(c2s[i])
      /\ \A i \in 1..Len(s2c) : S2CShape(s2c[i])
  BY DEF Tls10Inv, ShapeInv, C2SShape, S2CShape
<1>2. /\ \A p, q, d : Rest(p, q, d) /\ (\A i \in 1..Len(q) : C2SShape(q[i])) => \A i \in 1..Len(p) : C2SShape(p[i])
      /\ \A p, q, d : Rest(p, q, d) /\ (\A i \in 1..Len(q) : S2CShape(q[i])) => \A i \in 1..Len(p) : S2CShape(p[i])
  <2>1. ASSUME NEW p, NEW q, NEW d, Rest(p, q, d), NEW i \in 1..Len(p)
        PROVE  i + d \in 1..Len(q) /\ p[i].ct = q[i + d].ct /\ p[i].body = q[i + d].body
    BY <2>1 DEF Rest, SameButAlt
  <2>2. \A r, s : r.ct = s.ct /\ r.body = s.body => (C2SShape(s) => C2SShape(r)) /\ (S2CShape(s) => S2CShape(r))
    BY DEF C2SShape, S2CShape
  <2> QED
    BY <2>1, <2>2
<1>3. /\ \A p, q, r : Longer(p, q, r) /\ C2SShape(r) /\ (\A i \in 1..Len(q) : C2SShape(q[i]))
           => \A i \in 1..Len(p) : C2SShape(p[i])
      /\ \A p, q, r : Longer(p, q, r) /\ S2CShape(r) /\ (\A i \in 1..Len(q) : S2CShape(q[i]))
           => \A i \in 1..Len(p) : S2CShape(p[i])
  <2>1. ASSUME NEW p, NEW q, NEW r, Longer(p, q, r), NEW i \in 1..Len(p)
        PROVE  (i \in 1..Len(q) /\ p[i] = q[i]) \/ p[i] = r
    BY <2>1 DEF Longer
  <2> QED
    BY <2>1
<1>4. CASE ServerStep
  <2>1. \A i \in 1..Len(c2s') : C2SShape(c2s'[i])
    BY <1>1, <1>2, <1>4, ServerReads
  <2>2. \A i \in 1..Len(s2c') : S2CShape(s2c'[i])
    <3>1. CASE ServerSilent
      BY <1>1, <3>1 DEF ServerSilent
    <3>2. CASE ServerClear \/ ServerCcs
      <4>1. PICK r : Longer(s2c', s2c, r) /\ S2CShape(r)
        BY <3>2 DEF ServerClear, ServerCcs, S2CShape, HsTypes
      <4> QED
        BY <1>1, <1>3, <4>1
    <3>3. CASE ServerSealed
      <4>1. PICK r : /\ Longer(s2c', s2c, r)
                     /\ \/ r.ct = "handshake" /\ r.body.t = "fin"
                        \/ WriteReply /\ r.ct = "app" /\ r.body = Data(SubSeq(resp, 1, Chunk(Len(resp))))
        BY <3>3 DEF ServerSealed
      <4>2. CASE r.ct = "handshake" /\ r.body.t = "fin"
        BY <1>1, <1>3, <4>1, <4>2 DEF S2CShape, HsTypes
      <4>3. CASE WriteReply /\ r.ct = "app" /\ r.body = Data(SubSeq(resp, 1, Chunk(Len(resp))))
        <5>1. PICK n : n = Chunk(Len(resp))
          OBVIOUS
        <5>2. PICK s : s = SubSeq(resp, 1, n)
          OBVIOUS
        <5>3. n \in 0..Len(resp) /\ n <= MaxPlain /\ Len(resp) \in Nat /\ (Len(resp) # 0 => n # 0)
          BY <1>1, <4>3, <5>1, WriteReplyWrites
        <5>4. resp # <<>> /\ resp \in Seq(Nat)
          BY <1>1, <4>3 DEF PendingInv, WriteReply, TypeOK
        <5>5. Len(s) \in 1..MaxPlain
          <6>1. Len(resp) # 0
            BY <5>4
          <6>2. n \in 1..Len(resp) /\ n <= MaxPlain
            BY <5>3, <6>1
          <6>3. Len(s) = n
            BY <5>2, <5>4, <6>2
          <6> QED
            BY <6>2, <6>3, LengthsAssumption
        <5>6. r.body.t = "data" /\ r.body.s = s
          <6>1. r.body = Data(s)
            BY <4>3, <5>1, <5>2
          <6>2. Data(s).t = "data" /\ Data(s).s = s
            BY DEF Data
          <6> QED
            BY <6>1, <6>2
        <5>7. S2CShape(r)
          BY <4>3, <5>5, <5>6 DEF S2CShape
        <5> QED
          BY <1>1, <1>3, <4>1, <5>7
      <4> QED
        BY <4>1, <4>2, <4>3
    <3> QED
      BY <1>4, <3>1, <3>2, <3>3, ServerMoves
  <2> QED
    BY <2>1, <2>2 DEF ShapeInv, C2SShape, S2CShape
<1>5. CASE ClientStep \/ Strays
  <2>1. \A i \in 1..Len(c2s') : C2SShape(c2s'[i])
    <3>1. CASE ClientQuiet
      BY <1>1, <1>2, <3>1 DEF ClientQuiet
    <3>2. CASE ClientClear \/ ClientCcs \/ ClientSealed
      <4>1. PICK r : Longer(c2s', c2s, r) /\ C2SShape(r)
        BY <3>2 DEF ClientClear, ClientCcs, ClientSealed, C2SShape, Data, Fin
      <4> QED
        BY <1>1, <1>3, <4>1
    <3> QED
      BY <1>5, <3>1, <3>2, ClientMoves
  <2>2. \A i \in 1..Len(s2c') : S2CShape(s2c'[i])
    <3>1. CASE s2c' = <<>>
      BY <3>1
    <3> QED
      BY <1>1, <1>2, <1>5, <3>1, ClientReading
  <2> QED
    BY <2>1, <2>2 DEF ShapeInv, C2SShape, S2CShape
<1>6. CASE UNCHANGED vars
  BY <1>6 DEF Tls10Inv, ShapeInv, vars
<1> QED
  BY <1>4, <1>5, <1>6 DEF Next

\* A Finished the server has read and accepted, or will read, was made from
\* the keys and the transcript the client has.
LEMMA StepFinishedInv == Tls10Inv /\ [Next]_vars => FinishedInv'
<1> SUFFICES ASSUME Tls10Inv, [Next]_vars PROVE FinishedInv'
  OBVIOUS
<1>1. TypeOK /\ ServerInv /\ ClientInv /\ FinishedInv
  BY DEF Tls10Inv
<1> DEFINE Good(b) == /\ cpc \in FinishedSent /\ cMaster = MasterOf("client", FALSE, sRandom)
                      /\ b.m = cMaster /\ cTranscript = Append(b.tr, Sent("fin"))
<1>2. \A i \in 1..Len(c2s) : c2s[i].body.t = "fin" => Good(c2s[i].body)
  BY <1>1 DEF FinishedInv
<1>3. \A d : Rest(c2s', c2s, d) => \A i \in 1..Len(c2s') : c2s'[i].body.t = "fin" => Good(c2s'[i].body)
  <2>1. ASSUME NEW d, Rest(c2s', c2s, d), NEW i \in 1..Len(c2s')
        PROVE  i + d \in 1..Len(c2s) /\ c2s'[i].body = c2s[i + d].body
    BY <2>1 DEF Rest, SameButAlt
  <2> HIDE DEF Good
  <2> QED
    BY <1>2, <2>1
<1>4. CASE ServerStep
  <2>1. UNCHANGED <<cpc, cMaster, sRandom, cTranscript>>
    BY <1>4, ServerKeepsClient DEF client
  <2>2. \A i \in 1..Len(c2s') : c2s'[i].body.t = "fin" => Good(c2s'[i].body)
    BY <1>1, <1>3, <1>4, ServerReads
  <2>3. PastFinished' => cpc \in FinishedSent /\ FinishedAgreement'
    <3>1. CASE PastFinished /\ UNCHANGED <<master, transcript>>
      BY <1>1, <2>1, <3>1 DEF FinishedInv, FinishedAgreement
    <3>2. CASE ReadFinished /\ spc' = "sendCcs"
      <4>1. PICK r : r = Head(c2s)
        OBVIOUS
      <4>2. /\ r.body = Fin("client", master, transcript) /\ transcript' = Append(transcript, Sent("fin"))
            /\ master' = master /\ spc = "finished"
        <5>1. FinishedOK(r) /\ transcript' = Append(transcript, Sent("fin"))
          BY <3>2, <4>1 DEF ReadFinished, Close
        <5> QED
          BY <3>2, <5>1 DEF ReadFinished, FinishedOK
      <4>3. r = c2s[1] /\ 1 \in 1..Len(c2s)
        BY <1>1, <3>2, <4>1, RestOfTail DEF ReadFinished, TypeOK
      <4>4. r.body.t = "fin" /\ r.body.m = master /\ r.body.tr = transcript
        BY <4>2 DEF Fin
      <4>5. Good(r.body)
        BY <1>2, <4>3, <4>4
      <4>6. master.sr = FALSE
        BY <1>1, <4>2 DEF ServerInv, NoKeysYet
      <4>7. sRandom = FALSE
        <5>1. master = MasterOf("client", FALSE, sRandom) /\ sRandom \in BOOLEAN
          BY <1>1, <4>4, <4>5 DEF TypeOK
        <5>2. MasterOf("client", FALSE, sRandom).sr = sRandom
          BY DEF MasterOf
        <5> QED
          BY <4>6, <5>1, <5>2
      <4>8. cpc \in FinishedSent /\ master = MasterOf("client", FALSE, FALSE) /\ cMaster = master
        BY <4>4, <4>5, <4>7
      <4>9. transcript' = cTranscript
        BY <4>2, <4>4, <4>5
      <4> QED
        BY <2>1, <4>2, <4>8, <4>9 DEF FinishedAgreement
    <3>3. CASE spc' \notin {"sendCcs", "sendFinished", "app", "reply"}
      BY <3>3 DEF PastFinished
    <3> QED
      <4>1. CASE spc \in BeforeOurCcs /\ spc # "sendCcs"
        <5>1. ReadFinished \/ spc' \notin {"sendCcs", "sendFinished", "app", "reply"}
          BY <1>4, <4>1 DEF ServerStep, WriteFails, ReadEOF, ReadClientHello, SendServerHello, SendCertificate,
             SendServerHelloDone, Flight, ReadKeyExchange, ReadChangeCipherSpec,
             SendChangeCipherSpec, SendFinished, ReadApp, WriteReply, Close, BeforeOurCcs, NoKeysYet
        <5>2. ReadFinished => spc' \in {"closed", "sendCcs"}
          BY DEF ReadFinished, Close
        <5> QED
          BY <3>2, <3>3, <5>1, <5>2
      <4>2. CASE spc = "sendCcs"
        BY <1>4, <3>1, <3>3, <4>2 DEF PastFinished, ServerStep, WriteFails, ReadEOF, ReadClientHello, SendServerHello,
             SendCertificate, SendServerHelloDone, Flight, ReadKeyExchange, ReadChangeCipherSpec, ReadFinished,
             SendChangeCipherSpec, SendFinished, ReadApp, WriteReply, Close, handshake
      <4>3. CASE spc \notin BeforeOurCcs
        BY <1>1, <1>4, <3>1, <4>3, ServerMovesOn, ServerRuns DEF PastFinished
      <4> QED
        BY <4>1, <4>2, <4>3
  <2> QED
    BY <2>1, <2>2, <2>3 DEF FinishedInv
<1>5. CASE ClientStep \/ Strays
  <2>0. UNCHANGED <<spc, master, transcript>>
    BY <1>5, ClientKeepsServer DEF server, handshake
  <2>1. CASE cpc \in FinishedSent
    <3>1. cpc' \in FinishedSent /\ UNCHANGED <<cTranscript, sRandom, cMaster>>
      BY <1>1, <1>5, <2>1, ClientSettled
    <3>2. ASSUME NEW i \in 1..Len(c2s'), c2s'[i].body.t = "fin" PROVE Good(c2s'[i].body)
      <4>1. CASE ClientQuiet
        BY <1>3, <3>2, <4>1 DEF ClientQuiet
      <4>2. ASSUME NEW r, Longer(c2s', c2s, r), r.body.t # "fin" PROVE Good(c2s'[i].body)
        <5>1. (i \in 1..Len(c2s) /\ c2s'[i] = c2s[i]) \/ c2s'[i] = r
          BY <4>2 DEF Longer
        <5> HIDE DEF Good
        <5> QED
          BY <1>2, <3>2, <4>2, <5>1
      <4>3. CASE ClientClear \/ ClientCcs \/ ClientSealed
        <5>1. ~ClientSendFinished
          BY <2>1 DEF ClientSendFinished, FinishedSent
        <5>2. \E r : Longer(c2s', c2s, r) /\ r.body.t # "fin"
          BY <4>3, <5>1 DEF ClientClear, ClientCcs, ClientSealed, Data
        <5> QED
          BY <4>2, <5>2
      <4> QED
        BY <1>5, <4>1, <4>3, ClientMoves
    <3> QED
      BY <1>1, <2>0, <3>1, <3>2 DEF FinishedInv, PastFinished, FinishedAgreement
  <2>2. CASE cpc \notin FinishedSent
    <3>1. ~PastFinished' /\ \A i \in 1..Len(c2s) : c2s[i].body.t # "fin"
      BY <1>1, <2>0, <2>2 DEF FinishedInv, PastFinished
    <3>2. CASE ClientSendFinished
      <4>1. PICK r : ClientRecord(r, "handshake", Fin("client", cMaster, cTranscript))
        BY <1>1, <3>2, ClientFinishedWrites
      <4>2. Longer(c2s', c2s, r) /\ r.body = Fin("client", cMaster, cTranscript)
        BY <1>1, <4>1, QueueGrows DEF ClientRecord, Longer
      <4>3. r.body.m = cMaster /\ r.body.tr = cTranscript
        BY <4>2 DEF Fin
      <4>4. /\ cpc' = "awaitCcs" /\ UNCHANGED <<sRandom, cMaster>>
            /\ cTranscript' = Append(cTranscript, Sent("fin"))
        BY <3>2 DEF ClientSendFinished
      <4>5. cMaster = MasterOf("client", FALSE, sRandom)
        BY <1>1, <3>2, ClientFinishedWrites
      <4>6. \A i \in 1..Len(c2s') : c2s'[i].body.t = "fin" => c2s'[i] = r
        BY <3>1, <4>2 DEF Longer
      <4> QED
        BY <3>1, <4>3, <4>4, <4>5, <4>6 DEF FinishedInv, FinishedSent
    <3>3. CASE ~ClientSendFinished
      <4>1. \A i \in 1..Len(c2s') : c2s'[i].body.t # "fin"
        <5>1. CASE ClientQuiet
          <6>1. \A i \in 1..Len(c2s') : i + 0 \in 1..Len(c2s) /\ c2s'[i].body = c2s[i + 0].body
            BY <5>1 DEF ClientQuiet, Rest, SameButAlt
          <6> QED
            BY <3>1, <6>1
        <5>2. CASE ClientClear \/ ClientCcs \/ ClientSealed
          <6>1. PICK r : Longer(c2s', c2s, r) /\ r.body.t # "fin"
            BY <5>2, <3>3 DEF ClientClear, ClientCcs, ClientSealed, Data
          <6> QED
            BY <3>1, <6>1 DEF Longer
        <5> QED
          BY <1>5, <5>1, <5>2, ClientMoves
      <4> QED
        BY <3>1, <4>1 DEF FinishedInv
    <3> QED
      BY <3>2, <3>3
  <2> QED
    BY <2>1, <2>2
<1>6. CASE UNCHANGED vars
  BY <1>1, <1>6 DEF FinishedInv, PastFinished, FinishedAgreement, vars, server, handshake, client
<1> QED
  BY <1>4, <1>5, <1>6 DEF Next

-----------------------------------------------------------------------------
(* Numbers of protected records.                                           *)

LEMMA RestRecord ==
  ASSUME NEW p, NEW q, NEW d, Rest(p, q, d), NEW i \in 1..Len(p)
  PROVE  /\ i + d \in 1..Len(q) /\ SameButAlt(p[i], q[i + d]) /\ d \in Nat
         /\ Len(p) \in Nat /\ Len(q) \in Nat /\ Len(p) = Len(q) - d
         /\ \A key, n : Numbered(q, i + d, key, n) => Numbered(p, i, key, n)
BY DEF Rest, Numbered, SameButAlt

LEMMA RestNumberedAfter ==
  ASSUME NEW p, NEW q, NEW d, Rest(p, q, d), NEW i \in 1..Len(p), NEW key, NumberedAfter(q, i + d, key)
  PROVE  NumberedAfter(p, i, key)
<1> SUFFICES ASSUME NEW j \in (i + 1)..Len(p) PROVE Numbered(p, j, key, j - i - 1)
  BY DEF NumberedAfter
<1>1. Len(p) \in Nat /\ Len(q) \in Nat /\ d \in Nat /\ Len(p) = Len(q) - d
  BY RestRecord
<1>2. j \in 1..Len(p) /\ j + d \in (i + d + 1)..Len(q) /\ (j + d) - (i + d) - 1 = j - i - 1
  BY <1>1
<1>3. Numbered(q, j + d, key, j - i - 1)
  BY <1>2 DEF NumberedAfter
<1> QED
  BY <1>2, <1>3, RestRecord

LEMMA RestNumberedFrom ==
  ASSUME NEW p, NEW q, NEW key, NEW n \in Nat
  PROVE  /\ Rest(p, q, 0) /\ NumberedFrom(q, key, n) => NumberedFrom(p, key, n)
         /\ Rest(p, q, 1) /\ NumberedFrom(q, key, n) => NumberedFrom(p, key, n + 1)
         /\ Rest(p, q, 1) /\ NumberedAfter(q, 1, key) => NumberedFrom(p, key, 0)
<1>1. ASSUME Rest(p, q, 0), NumberedFrom(q, key, n), NEW j \in 1..Len(p)
      PROVE  Numbered(p, j, key, n + j - 1)
  <2>1. j + 0 \in 1..Len(q) /\ n + (j + 0) - 1 = n + j - 1
    BY <1>1, RestRecord
  <2>2. Numbered(q, j + 0, key, n + j - 1)
    BY <1>1, <2>1 DEF NumberedFrom
  <2> QED
    BY <1>1, <2>2, RestRecord
<1>2. ASSUME Rest(p, q, 1), NumberedFrom(q, key, n), NEW j \in 1..Len(p)
      PROVE  Numbered(p, j, key, n + 1 + j - 1)
  <2>1. j + 1 \in 1..Len(q) /\ n + (j + 1) - 1 = n + 1 + j - 1
    BY <1>2, RestRecord
  <2>2. Numbered(q, j + 1, key, n + 1 + j - 1)
    BY <1>2, <2>1 DEF NumberedFrom
  <2> QED
    BY <1>2, <2>2, RestRecord
<1>3. ASSUME Rest(p, q, 1), NumberedAfter(q, 1, key), NEW j \in 1..Len(p)
      PROVE  Numbered(p, j, key, 0 + j - 1)
  <2>1. j + 1 \in (1 + 1)..Len(q) /\ (j + 1) - 1 - 1 = 0 + j - 1
    BY <1>3, RestRecord
  <2>2. Numbered(q, j + 1, key, 0 + j - 1)
    BY <1>3, <2>1 DEF NumberedAfter
  <2> QED
    BY <1>3, <2>2, RestRecord
<1> QED
  BY <1>1, <1>2, <1>3 DEF NumberedFrom

LEMMA LongerRecord ==
  ASSUME NEW p, NEW q, NEW r, Longer(p, q, r), NEW i \in 1..Len(p)
  PROVE  /\ Len(q) \in Nat /\ Len(p) = Len(q) + 1
         /\ (i \in 1..Len(q) /\ p[i] = q[i]) \/ (i = Len(q) + 1 /\ p[i] = r)
BY DEF Longer

LEMMA LongerNumbered ==
  ASSUME NEW p, NEW q, NEW r, Longer(p, q, r), NEW key, r.key = key
  PROVE  /\ \A i \in 1..Len(q) : NumberedAfter(q, i, key) /\ r.seq = Len(q) - i => NumberedAfter(p, i, key)
         /\ \A n \in Nat : NumberedFrom(q, key, n) /\ r.seq = n + Len(q) => NumberedFrom(p, key, n)
<1>0. Len(q) \in Nat /\ Len(p) = Len(q) + 1
  BY DEF Longer
<1>1. ASSUME NEW i \in 1..Len(q), NumberedAfter(q, i, key), r.seq = Len(q) - i, NEW j \in (i + 1)..Len(p)
      PROVE  Numbered(p, j, key, j - i - 1)
  <2>1. j \in 1..Len(p)
    BY <1>0
  <2>2. CASE j \in 1..Len(q) /\ p[j] = q[j]
    BY <1>0, <1>1, <2>2 DEF NumberedAfter, Numbered
  <2>3. CASE j = Len(q) + 1 /\ p[j] = r
    BY <1>0, <1>1, <2>3 DEF Numbered
  <2> QED
    BY <2>1, <2>2, <2>3, LongerRecord
<1>2. ASSUME NEW n \in Nat, NumberedFrom(q, key, n), r.seq = n + Len(q), NEW j \in 1..Len(p)
      PROVE  Numbered(p, j, key, n + j - 1)
  <2>2. CASE j \in 1..Len(q) /\ p[j] = q[j]
    BY <1>0, <1>2, <2>2 DEF NumberedFrom, Numbered
  <2>3. CASE j = Len(q) + 1 /\ p[j] = r
    BY <1>0, <1>2, <2>3 DEF Numbered
  <2> QED
    BY <2>2, <2>3, LongerRecord
<1> QED
  BY <1>1, <1>2 DEF NumberedAfter, NumberedFrom

\* How the server's read side follows the records it takes.
LEMMA ServerReadSide ==
  ASSUME Tls10Inv, ServerStep, readActive', spc' # "closed"
  PROVE  \/ /\ Rest(c2s', c2s, 0) /\ readActive /\ readSeq' = readSeq
         \/ /\ Rest(c2s', c2s, 1) /\ readActive /\ readSeq' = readSeq + 1
         \/ /\ Rest(c2s', c2s, 1) /\ c2s[1].ct = "ccs" /\ 1 \in 1..Len(c2s) /\ readSeq' = 0
<1>1. TypeOK /\ ServerInv /\ c2s \in Seq(Record)
  BY DEF Tls10Inv, TypeOK
<1>2. CASE ReadClientHello \/ ReadKeyExchange
  <2>1. spc \in {"hello", "keyExchange"} /\ readActive' = readActive
    BY <1>2 DEF ReadClientHello, ReadKeyExchange, readSide
  <2> QED
    BY <1>1, <2>1 DEF ServerInv, NoKeysYet
<1>3. CASE ReadChangeCipherSpec
  <2>1. c2s # <<>> /\ c2s' = Tail(c2s) /\ Head(c2s).ct = "ccs" /\ readSeq' = 0
    BY <1>3 DEF ReadChangeCipherSpec, Close
  <2> QED
    BY <1>1, <2>1, RestOfTail
<1>4. CASE ReadFinished \/ ReadApp
  <2>1. c2s # <<>> /\ c2s' = Tail(c2s) /\ readActive' = readActive
    BY <1>4 DEF ReadFinished, ReadApp
  <2>2. readSeq' = readSeq + 1
    BY <1>4 DEF ReadFinished, ReadApp, Close
  <2> QED
    BY <1>1, <2>1, <2>2, RestOfTail
<1>5. CASE ~(ReadClientHello \/ ReadKeyExchange \/ ReadChangeCipherSpec \/ ReadFinished \/ ReadApp)
  <2>1. c2s' = c2s /\ UNCHANGED readSide
    BY <1>5 DEF ServerStep, WriteFails, ReadEOF, SendServerHello, SendCertificate,
       SendServerHelloDone, Flight, SendChangeCipherSpec, SendFinished, WriteReply
  <2> QED
    BY <1>1, <2>1, RestOfSame DEF readSide
<1> QED
  BY <1>2, <1>3, <1>4, <1>5

LEMMA StepReadInv == Tls10Inv /\ [Next]_vars => ReadInv'
<1> SUFFICES ASSUME Tls10Inv, [Next]_vars PROVE ReadInv'
  OBVIOUS
<1>1. TypeOK /\ ServerInv /\ ClientInv /\ ReadInv /\ readSeq \in Nat /\ cWriteSeq \in Nat
  BY DEF Tls10Inv, TypeOK
<1>2. PICK key : key = KeyFor(cMaster, "c2s")
  OBVIOUS
<1>3. ASSUME NEW d, Rest(c2s', c2s, d), UNCHANGED <<cWriteActive, cWriteSeq, cMaster>>,
             NEW i \in 1..Len(c2s'), c2s'[i].ct = "ccs"
      PROVE  cWriteActive' /\ cWriteSeq' = Len(c2s') - i /\ NumberedAfter(c2s', i, KeyFor(cMaster, "c2s")')
  <2>1. /\ i + d \in 1..Len(c2s) /\ SameButAlt(c2s'[i], c2s[i + d]) /\ d \in Nat
        /\ Len(c2s') \in Nat /\ Len(c2s) \in Nat /\ Len(c2s') = Len(c2s) - d
    BY <1>3, RestRecord
  <2>2. c2s[i + d].ct = "ccs"
    BY <1>3, <2>1 DEF SameButAlt
  <2>3. cWriteActive /\ cWriteSeq = Len(c2s) - (i + d) /\ NumberedAfter(c2s, i + d, key)
    BY <1>1, <1>2, <2>1, <2>2 DEF ReadInv
  <2>4. NumberedAfter(c2s', i, key)
    BY <1>3, <2>3, RestNumberedAfter
  <2> QED
    BY <1>2, <1>3, <2>1, <2>3, <2>4
<1>4. CASE ServerStep
  <2>1. UNCHANGED <<cWriteActive, cWriteSeq, cMaster>>
    BY <1>4, ServerKeepsClient DEF client
  <2>2. PICK d : Rest(c2s', c2s, d)
    BY <1>1, <1>4, ServerReads
  <2>3. ASSUME readActive', spc' # "closed"
        PROVE  cWriteActive' /\ cWriteSeq' = readSeq' + Len(c2s') /\ NumberedFrom(c2s', KeyFor(cMaster, "c2s")', readSeq')
    <3>0. spc # "closed"
      BY <1>4, ServerRuns
    <3>1. CASE Rest(c2s', c2s, 0) /\ readActive /\ readSeq' = readSeq
      <4>1. cWriteActive /\ cWriteSeq = readSeq + Len(c2s) /\ NumberedFrom(c2s, key, readSeq)
        BY <1>1, <1>2, <3>0, <3>1 DEF ReadInv
      <4>2. NumberedFrom(c2s', key, readSeq)
        BY <1>1, <3>1, <4>1, RestNumberedFrom
      <4>3. Len(c2s') = Len(c2s)
        BY <3>1 DEF Rest
      <4> QED
        BY <1>2, <2>1, <3>1, <4>1, <4>2, <4>3
    <3>2. CASE Rest(c2s', c2s, 1) /\ readActive /\ readSeq' = readSeq + 1
      <4>1. cWriteActive /\ cWriteSeq = readSeq + Len(c2s) /\ NumberedFrom(c2s, key, readSeq)
        BY <1>1, <1>2, <3>0, <3>2 DEF ReadInv
      <4>2. NumberedFrom(c2s', key, readSeq + 1)
        BY <1>1, <3>2, <4>1, RestNumberedFrom
      <4>3. Len(c2s') = Len(c2s) - 1 /\ Len(c2s) \in Nat
        BY <3>2 DEF Rest
      <4>4. cWriteSeq = readSeq + 1 + Len(c2s')
        BY <1>1, <4>1, <4>3
      <4> QED
        BY <1>2, <2>1, <3>2, <4>1, <4>2, <4>4
    <3>3. CASE Rest(c2s', c2s, 1) /\ c2s[1].ct = "ccs" /\ 1 \in 1..Len(c2s) /\ readSeq' = 0
      <4>1. cWriteActive /\ cWriteSeq = Len(c2s) - 1 /\ NumberedAfter(c2s, 1, key)
        BY <1>1, <1>2, <3>3 DEF ReadInv
      <4>2. NumberedFrom(c2s', key, 0)
        BY <3>3, <4>1, RestNumberedFrom
      <4>3. Len(c2s') = Len(c2s) - 1 /\ Len(c2s) \in Nat
        BY <3>3 DEF Rest
      <4> QED
        BY <1>1, <1>2, <2>1, <3>3, <4>1, <4>2, <4>3
    <3> QED
      BY <1>4, <2>3, <3>1, <3>2, <3>3, ServerReadSide
  <2> QED
    BY <1>3, <2>1, <2>2, <2>3 DEF ReadInv
<1>5. CASE ClientStep \/ Strays
  <2>0. UNCHANGED <<readActive, readSeq, spc>>
    BY <1>5, ClientKeepsServer DEF server, readSide
  <2>1. CASE ClientQuiet
    <3>1. Rest(c2s', c2s, 0) /\ UNCHANGED <<cWriteActive, cWriteSeq, cMaster>>
      BY <2>1 DEF ClientQuiet
    <3>2. Len(c2s') = Len(c2s)
      BY <3>1 DEF Rest
    <3>3. ASSUME readActive, spc # "closed"
          PROVE  cWriteActive' /\ cWriteSeq' = readSeq' + Len(c2s') /\ NumberedFrom(c2s', KeyFor(cMaster, "c2s")', readSeq')
      <4>1. cWriteActive /\ cWriteSeq = readSeq + Len(c2s) /\ NumberedFrom(c2s, key, readSeq)
        BY <1>1, <1>2, <3>3 DEF ReadInv
      <4>2. NumberedFrom(c2s', key, readSeq)
        BY <1>1, <3>1, <4>1, RestNumberedFrom
      <4> QED
        BY <1>2, <2>0, <3>1, <3>2, <4>1, <4>2
    <3> QED
      BY <1>3, <2>0, <3>1, <3>3 DEF ReadInv
  <2>2. CASE ~cWriteActive
    <3>1. ~(readActive' /\ spc' # "closed") /\ \A i \in 1..Len(c2s) : c2s[i].ct # "ccs"
      BY <1>1, <2>0, <2>2 DEF ReadInv
    <3>2. CASE ClientClear
      <4>1. \A i \in 1..Len(c2s') : c2s'[i].ct # "ccs"
        BY <3>1, <3>2, LongerRecord DEF ClientClear
      <4> QED
        BY <3>1, <4>1 DEF ReadInv
    <3>3. CASE ClientCcs
      <4>1. PICK r : Longer(c2s', c2s, r)
        BY <3>3 DEF ClientCcs
      <4>2. cWriteActive' /\ cWriteSeq' = 0
        BY <3>3, Zenon DEF ClientCcs
      <4>3. ASSUME NEW i \in 1..Len(c2s'), c2s'[i].ct = "ccs"
            PROVE  cWriteSeq' = Len(c2s') - i /\ NumberedAfter(c2s', i, KeyFor(cMaster, "c2s")')
        <5>1. i = Len(c2s) + 1 /\ Len(c2s') = Len(c2s) + 1 /\ Len(c2s) \in Nat
          BY <3>1, <4>1, <4>3, LongerRecord
        <5>2. (i + 1)..Len(c2s') = {} /\ Len(c2s') - i = 0
          BY <5>1
        <5> QED
          BY <4>2, <5>2 DEF NumberedAfter
      <4> QED
        BY <3>1, <4>2, <4>3 DEF ReadInv
    <3> QED
      BY <1>5, <2>1, <2>2, <3>2, <3>3, ClientMoves DEF ClientSealed
  <2>3. CASE ClientSealed
    <3>1. PICK r : Longer(c2s', c2s, r) /\ r.ct # "ccs" /\ r.key = key /\ r.seq = cWriteSeq
      BY <1>2, <2>3 DEF ClientSealed
    <3>2. cWriteActive' /\ cWriteSeq' = cWriteSeq + 1 /\ cMaster' = cMaster
      BY <2>3, Zenon DEF ClientSealed
    <3>3. ASSUME NEW i \in 1..Len(c2s'), c2s'[i].ct = "ccs"
          PROVE  cWriteSeq' = Len(c2s') - i /\ NumberedAfter(c2s', i, KeyFor(cMaster, "c2s")')
      <4>1. i \in 1..Len(c2s) /\ c2s[i].ct = "ccs" /\ Len(c2s) \in Nat /\ Len(c2s') = Len(c2s) + 1
        BY <3>1, <3>3, LongerRecord
      <4>2. cWriteSeq = Len(c2s) - i /\ NumberedAfter(c2s, i, key)
        BY <1>1, <1>2, <4>1 DEF ReadInv
      <4>3. NumberedAfter(c2s', i, key)
        BY <3>1, <4>1, <4>2, LongerNumbered
      <4> QED
        BY <1>2, <3>2, <4>1, <4>2, <4>3
    <3>4. ASSUME readActive, spc # "closed"
          PROVE  cWriteSeq' = readSeq' + Len(c2s') /\ NumberedFrom(c2s', KeyFor(cMaster, "c2s")', readSeq')
      <4>1. cWriteSeq = readSeq + Len(c2s) /\ NumberedFrom(c2s, key, readSeq)
        BY <1>1, <1>2, <3>4 DEF ReadInv
      <4>2. NumberedFrom(c2s', key, readSeq)
        BY <1>1, <3>1, <4>1, LongerNumbered
      <4>3. Len(c2s') = Len(c2s) + 1 /\ Len(c2s) \in Nat
        BY <3>1 DEF Longer
      <4> QED
        BY <1>1, <1>2, <2>0, <3>2, <4>1, <4>2, <4>3
    <3> QED
      BY <2>0, <3>2, <3>3, <3>4 DEF ReadInv
  <2> QED
    BY <1>5, <2>1, <2>2, <2>3, ClientMoves DEF ClientClear, ClientCcs
<1>6. CASE UNCHANGED vars
  BY <1>1, <1>6 DEF ReadInv, vars, server, readSide, client
<1> QED
  BY <1>4, <1>5, <1>6 DEF Next

\* How the client's read side follows the records it takes.
LEMMA ClientReadSide ==
  ASSUME Tls10Inv, ClientStep \/ Strays, cReadActive', cpc' # "closed"
  PROVE  \/ /\ Rest(s2c', s2c, 0) /\ cReadActive /\ cReadSeq' = cReadSeq
         \/ /\ Rest(s2c', s2c, 1) /\ cReadActive /\ cReadSeq' = cReadSeq + 1
         \/ /\ Rest(s2c', s2c, 1) /\ s2c[1].ct = "ccs" /\ 1 \in 1..Len(s2c) /\ cReadSeq' = 0 /\ cpc = "awaitCcs"
         \/ /\ s2c' = <<>> /\ spc = "closed" /\ UNCHANGED client
<1>1. TypeOK /\ ClientInv /\ s2c \in Seq(Record)
  BY DEF Tls10Inv, TypeOK
<1>2. CASE ClientReadFlight
  <2>1. cpc = "flight" /\ cReadActive' = cReadActive
    BY <1>2 DEF ClientReadFlight
  <2> QED
    BY <1>1, <2>1 DEF ClientInv, Fresh
<1>3. CASE ClientReadChangeCipherSpec
  <2>1. s2c # <<>> /\ s2c' = Tail(s2c) /\ Head(s2c).ct = "ccs" /\ cReadSeq' = 0 /\ cpc = "awaitCcs"
    BY <1>3 DEF ClientReadChangeCipherSpec
  <2> QED
    BY <1>1, <2>1, RestOfTail
<1>4. CASE ClientReadFinished \/ ClientReadReply
  <2>1. s2c # <<>> /\ s2c' = Tail(s2c) /\ cReadActive' = cReadActive
    BY <1>4 DEF ClientReadFinished, ClientReadReply
  <2>2. cReadSeq' = cReadSeq + 1
    BY <1>4 DEF ClientReadFinished, ClientReadReply
  <2> QED
    BY <1>1, <2>1, <2>2, RestOfTail
<1> QED
  BY <1>1, <1>2, <1>3, <1>4, ClientReading DEF ClientReads

LEMMA StepWriteInv == Tls10Inv /\ [Next]_vars => WriteInv'
<1> SUFFICES ASSUME Tls10Inv, [Next]_vars PROVE WriteInv'
  OBVIOUS
<1>1. TypeOK /\ ServerInv /\ ClientInv /\ WriteInv /\ FinishedInv /\ cReadSeq \in Nat /\ writeSeq \in Nat
  BY DEF Tls10Inv, TypeOK
<1>2. PICK key : key = KeyFor(cMaster, "s2c")
  OBVIOUS
<1>3. cReadActive /\ cpc # "closed" => cpc \in FinishedSent
  BY <1>1 DEF ClientInv, TypeOK, ClientPcs, FinishedSent, Fresh
<1>4. CASE ServerStep
  <2>1. UNCHANGED <<cReadActive, cReadSeq, cMaster, cpc>> /\ spc # "closed"
    BY <1>4, ServerKeepsClient, ServerRuns DEF client
  <2>2. spc \notin BeforeOurCcs => spc' \notin BeforeOurCcs
    BY <1>1, <1>4, ServerMovesOn DEF BeforeOurCcs, NoKeysYet
  <2>3. CASE ServerSilent
    <3>1. s2c' = s2c /\ writeSeq' = writeSeq
      BY <2>3 DEF ServerSilent
    <3> QED
      BY <1>1, <2>1, <2>2, <3>1 DEF WriteInv
  <2>4. CASE spc \in BeforeOurCcs
    <3>1. ~cReadActive /\ \A i \in 1..Len(s2c) : s2c[i].ct # "ccs"
      BY <1>1, <2>4 DEF ClientInv, WriteInv
    <3>2. CASE ServerClear
      <4>1. \A i \in 1..Len(s2c') : s2c'[i].ct # "ccs"
        BY <3>1, <3>2, LongerRecord DEF ServerClear
      <4> QED
        BY <2>1, <3>1, <4>1 DEF WriteInv
    <3>3. CASE ServerCcs
      <4>1. PICK r : Longer(s2c', s2c, r)
        BY <3>3 DEF ServerCcs
      <4>2. spc = "sendCcs" /\ spc' = "sendFinished" /\ writeSeq' = 0
        BY <3>3 DEF ServerCcs
      <4>3. cpc \in FinishedSent /\ spc' \notin BeforeOurCcs
        BY <1>1, <4>2 DEF FinishedInv, PastFinished, BeforeOurCcs, NoKeysYet
      <4>4. ASSUME NEW i \in 1..Len(s2c'), s2c'[i].ct = "ccs"
            PROVE  writeSeq' = Len(s2c') - i /\ NumberedAfter(s2c', i, KeyFor(cMaster, "s2c")')
        <5>1. i = Len(s2c) + 1 /\ Len(s2c') = Len(s2c) + 1 /\ Len(s2c) \in Nat
          BY <3>1, <4>1, <4>4, LongerRecord
        <5>2. (i + 1)..Len(s2c') = {} /\ Len(s2c') - i = 0
          BY <5>1
        <5> QED
          BY <4>2, <5>2 DEF NumberedAfter
      <4> QED
        BY <2>1, <3>1, <4>3, <4>4 DEF WriteInv
    <3>4. ~ServerSealed
      BY <2>4 DEF ServerSealed, BeforeOurCcs, NoKeysYet
    <3> QED
      BY <1>4, <2>3, <3>2, <3>3, <3>4, ServerMoves
  <2>5. CASE ServerSealed
    <3>1. /\ spc \in {"sendFinished", "reply"} /\ spc' \in {"app", "reply", "closed"}
          /\ writeSeq' = writeSeq + 1
      BY <2>5 DEF ServerSealed
    <3>2. cpc \in FinishedSent /\ cMaster = master
      BY <1>1, <3>1 DEF FinishedInv, PastFinished, FinishedAgreement
    <3>3. PICK r : Longer(s2c', s2c, r) /\ r.ct # "ccs" /\ r.key = key /\ r.seq = writeSeq
      BY <1>2, <2>5, <3>2 DEF ServerSealed
    <3>4. ASSUME NEW i \in 1..Len(s2c'), s2c'[i].ct = "ccs"
          PROVE  writeSeq' = Len(s2c') - i /\ NumberedAfter(s2c', i, KeyFor(cMaster, "s2c")')
      <4>1. i \in 1..Len(s2c) /\ s2c[i].ct = "ccs" /\ Len(s2c) \in Nat /\ Len(s2c') = Len(s2c) + 1
        BY <3>3, <3>4, LongerRecord
      <4>2. writeSeq = Len(s2c) - i /\ NumberedAfter(s2c, i, key)
        BY <1>1, <1>2, <2>1, <4>1 DEF WriteInv
      <4>3. NumberedAfter(s2c', i, key)
        BY <3>3, <4>1, <4>2, LongerNumbered
      <4> QED
        BY <1>2, <2>1, <3>1, <4>1, <4>2, <4>3
    <3>5. ASSUME cReadActive, cpc # "closed"
          PROVE  writeSeq' = cReadSeq' + Len(s2c') /\ NumberedFrom(s2c', KeyFor(cMaster, "s2c")', cReadSeq')
      <4>1. writeSeq = cReadSeq + Len(s2c) /\ NumberedFrom(s2c, key, cReadSeq)
        BY <1>1, <1>2, <2>1, <3>5 DEF WriteInv
      <4>2. NumberedFrom(s2c', key, cReadSeq)
        BY <1>1, <3>3, <4>1, LongerNumbered
      <4>3. Len(s2c') = Len(s2c) + 1 /\ Len(s2c) \in Nat
        BY <3>3 DEF Longer
      <4> QED
        BY <1>1, <1>2, <2>1, <3>1, <4>1, <4>2, <4>3
    <3>6. spc' \notin BeforeOurCcs
      BY <3>1 DEF BeforeOurCcs, NoKeysYet
    <3> QED
      BY <2>1, <3>2, <3>4, <3>5, <3>6 DEF WriteInv
  <2> QED
    BY <1>4, <2>3, <2>4, <2>5, ServerMoves DEF ServerClear, ServerCcs, BeforeOurCcs
<1>5. CASE ClientStep \/ Strays
  <2>1. UNCHANGED <<spc, writeSeq>>
    BY <1>5, ClientKeepsServer DEF server, writeSide
  <2>2. cpc \in FinishedSent => cpc' \in FinishedSent /\ cMaster' = cMaster
    BY <1>1, <1>5, ClientSettled
  <2>3. ASSUME NEW i \in 1..Len(s2c'), s2c'[i].ct = "ccs"
        PROVE  /\ spc' \notin BeforeOurCcs /\ cpc' \in FinishedSent
               /\ spc' # "closed" => writeSeq' = Len(s2c') - i
               /\ NumberedAfter(s2c', i, KeyFor(cMaster, "s2c")')
    <3>1. PICK d : Rest(s2c', s2c, d)
      <4>1. s2c' # <<>>
        BY <2>3
      <4> QED
        BY <1>1, <1>5, <4>1, ClientReading
    <3>2. /\ i + d \in 1..Len(s2c) /\ SameButAlt(s2c'[i], s2c[i + d]) /\ d \in Nat
          /\ Len(s2c') \in Nat /\ Len(s2c) \in Nat /\ Len(s2c') = Len(s2c) - d
      BY <2>3, <3>1, RestRecord
    <3>3. s2c[i + d].ct = "ccs"
      BY <2>3, <3>2 DEF SameButAlt
    <3>4. /\ spc \notin BeforeOurCcs /\ cpc \in FinishedSent /\ NumberedAfter(s2c, i + d, key)
          /\ spc # "closed" => writeSeq = Len(s2c) - (i + d)
      BY <1>1, <1>2, <3>2, <3>3 DEF WriteInv
    <3>5. NumberedAfter(s2c', i, key)
      BY <2>3, <3>1, <3>4, RestNumberedAfter
    <3>6. spc # "closed" => writeSeq = Len(s2c') - i
      BY <3>2, <3>4
    <3> QED
      BY <1>2, <2>1, <2>2, <3>4, <3>5, <3>6
  <2>4. ASSUME cReadActive', cpc' # "closed"
        PROVE  /\ spc' # "closed" => writeSeq' = cReadSeq' + Len(s2c')
               /\ NumberedFrom(s2c', KeyFor(cMaster, "s2c")', cReadSeq')
    <3>0. cpc # "closed"
      BY <1>1, <1>5, <2>4, ClientReading
    <3>1. CASE Rest(s2c', s2c, 0) /\ cReadActive /\ cReadSeq' = cReadSeq
      <4>1. (spc # "closed" => writeSeq = cReadSeq + Len(s2c)) /\ NumberedFrom(s2c, key, cReadSeq)
        BY <1>1, <1>2, <3>0, <3>1 DEF WriteInv
      <4>2. NumberedFrom(s2c', key, cReadSeq)
        BY <1>1, <3>1, <4>1, RestNumberedFrom
      <4>3. Len(s2c') = Len(s2c)
        BY <3>1 DEF Rest
      <4>4. cMaster' = cMaster
        BY <1>3, <2>2, <3>0, <3>1
      <4> QED
        BY <1>2, <2>1, <3>1, <4>1, <4>2, <4>3, <4>4
    <3>2. CASE Rest(s2c', s2c, 1) /\ cReadActive /\ cReadSeq' = cReadSeq + 1
      <4>1. (spc # "closed" => writeSeq = cReadSeq + Len(s2c)) /\ NumberedFrom(s2c, key, cReadSeq)
        BY <1>1, <1>2, <3>0, <3>2 DEF WriteInv
      <4>2. NumberedFrom(s2c', key, cReadSeq + 1)
        BY <1>1, <3>2, <4>1, RestNumberedFrom
      <4>3. Len(s2c') = Len(s2c) - 1 /\ Len(s2c) \in Nat
        BY <3>2 DEF Rest
      <4>4. spc # "closed" => writeSeq = cReadSeq + 1 + Len(s2c')
        BY <1>1, <4>1, <4>3
      <4>5. cMaster' = cMaster
        BY <1>3, <2>2, <3>0, <3>2
      <4> QED
        BY <1>2, <2>1, <3>2, <4>1, <4>2, <4>4, <4>5
    <3>3. CASE Rest(s2c', s2c, 1) /\ s2c[1].ct = "ccs" /\ 1 \in 1..Len(s2c) /\ cReadSeq' = 0
      <4>1. (spc # "closed" => writeSeq = Len(s2c) - 1) /\ NumberedAfter(s2c, 1, key) /\ cpc \in FinishedSent
        BY <1>1, <1>2, <3>3 DEF WriteInv
      <4>2. NumberedFrom(s2c', key, 0)
        BY <3>3, <4>1, RestNumberedFrom
      <4>3. Len(s2c') = Len(s2c) - 1 /\ Len(s2c) \in Nat
        BY <3>3 DEF Rest
      <4>4. spc # "closed" => writeSeq = 0 + Len(s2c')
        BY <4>1, <4>3
      <4> QED
        BY <1>2, <2>1, <2>2, <3>3, <4>1, <4>2, <4>4
    <3>4. CASE s2c' = <<>> /\ spc = "closed"
      BY <2>1, <3>4 DEF NumberedFrom
    <3> QED
      BY <1>5, <2>4, <3>1, <3>2, <3>3, <3>4, ClientReadSide
  <2> QED
    BY <2>3, <2>4 DEF WriteInv
<1>6. CASE UNCHANGED vars
  BY <1>1, <1>6 DEF WriteInv, vars, server, writeSide, client
<1> QED
  BY <1>4, <1>5, <1>6 DEF Next

\* Whatever of the server's is protected has its number in the one stream, and
\* nothing that must be protected is in the clear.
LEMMA StepProtectInv == Tls10Inv /\ [Next]_vars => ProtectInv'
<1> SUFFICES ASSUME Tls10Inv, [Next]_vars PROVE ProtectInv'
  OBVIOUS
<1>1. TypeOK /\ ServerInv /\ ProtectInv /\ FinishedInv /\ writeSeq \in Nat /\ s2c \in Seq(Record)
  BY DEF Tls10Inv, TypeOK
<1> DEFINE Secret(r) == r.ct = "app" \/ r.body.t = "fin"
<1>2. /\ \A i \in 1..Len(s2c) : /\ Secret(s2c[i]) => s2c[i].key = KeyFor(master, "s2c")
                                /\ s2c[i].key # NoKey => s2c[i].seq + (Len(s2c) - i) + 1 = writeSeq
                                /\ Secret(s2c[i]) => spc \in {"app", "reply", "closed"} /\ cpc \in FinishedSent
      /\ spc \in BeforeOurCcs => \A i \in 1..Len(s2c) : s2c[i].key = NoKey
  BY <1>1 DEF ProtectInv, RepliesProtected
<1>3. CASE ServerStep
  <2>1. cpc' = cpc /\ spc # "closed"
    BY <1>3, ServerKeepsClient, ServerRuns DEF client
  <2>2. spc' \in BeforeOurCcs => spc \in BeforeOurCcs
    BY <1>1, <1>3, ServerMovesOn DEF BeforeOurCcs, NoKeysYet
  <2>3. spc \in {"app", "reply", "closed"} => spc' \in {"app", "reply", "closed"} /\ master' = master
    BY <1>1, <1>3, ServerMovesOn DEF BeforeOurCcs, NoKeysYet
  <2>4. CASE ServerSilent
    <3>1. s2c' = s2c /\ writeSeq' = writeSeq
      BY <2>4 DEF ServerSilent
    <3> QED
      BY <1>2, <2>1, <2>2, <2>3, <3>1 DEF ProtectInv, RepliesProtected
  <2>5. CASE spc \in BeforeOurCcs
    <3>1. \A i \in 1..Len(s2c) : s2c[i].key = NoKey /\ ~Secret(s2c[i])
      BY <1>2, <2>5 DEF BeforeOurCcs, NoKeysYet
    <3>2. CASE ServerClear \/ ServerCcs
      <4>1. PICK r : Longer(s2c', s2c, r) /\ r.key = NoKey /\ ~Secret(r)
        BY <3>2 DEF ServerClear, ServerCcs
      <4>2. \A i \in 1..Len(s2c') : s2c'[i].key = NoKey /\ ~Secret(s2c'[i])
        BY <3>1, <4>1, LongerRecord
      <4> QED
        BY <4>2 DEF ProtectInv, RepliesProtected
    <3>3. ~ServerSealed
      BY <2>5 DEF ServerSealed, BeforeOurCcs, NoKeysYet
    <3> QED
      BY <1>3, <2>4, <3>2, <3>3, ServerMoves
  <2>6. CASE ServerSealed
    <3>1. /\ spc \in {"sendFinished", "reply"} /\ spc' \in {"app", "reply", "closed"}
          /\ writeSeq' = writeSeq + 1 /\ master' = master
      BY <2>6 DEF ServerSealed
    <3>2. cpc \in FinishedSent /\ spc' \notin BeforeOurCcs
      BY <1>1, <3>1 DEF FinishedInv, PastFinished, BeforeOurCcs, NoKeysYet
    <3>3. PICK r : Longer(s2c', s2c, r) /\ r.key = KeyFor(master, "s2c") /\ r.seq = writeSeq
      BY <2>6 DEF ServerSealed
    <3>4. ASSUME NEW i \in 1..Len(s2c')
          PROVE  /\ Secret(s2c'[i]) => s2c'[i].key = KeyFor(master, "s2c")
                 /\ s2c'[i].key # NoKey => s2c'[i].seq + (Len(s2c') - i) + 1 = writeSeq'
      <4>1. CASE i \in 1..Len(s2c) /\ s2c'[i] = s2c[i]
        <5>1. s2c[i].seq \in Nat /\ Len(s2c) \in Nat /\ Len(s2c') = Len(s2c) + 1
          <6>1. s2c[i] \in Record
            BY <1>1, <4>1
          <6>2. s2c[i].seq \in Nat
            BY <6>1 DEF Record
          <6> QED
            BY <3>3, <6>2 DEF Longer
        <5>2. s2c[i].key # NoKey => s2c[i].seq + (Len(s2c) - i) + 1 = writeSeq
          BY <1>2, <4>1
        <5>3. s2c[i].key # NoKey => s2c[i].seq + (Len(s2c') - i) + 1 = writeSeq'
          BY <1>1, <3>1, <4>1, <5>1, <5>2
        <5> QED
          BY <1>2, <4>1, <5>3
      <4>2. CASE i = Len(s2c) + 1 /\ s2c'[i] = r
        <5>1. Len(s2c') = Len(s2c) + 1 /\ Len(s2c) \in Nat
          BY <3>3 DEF Longer
        <5> QED
          BY <1>1, <3>1, <3>3, <4>2, <5>1
      <4> QED
        BY <3>3, <4>1, <4>2, LongerRecord
    <3> QED
      BY <2>1, <3>1, <3>2, <3>4 DEF ProtectInv, RepliesProtected
  <2> QED
    BY <1>3, <2>4, <2>5, <2>6, ServerMoves DEF ServerClear, ServerCcs, BeforeOurCcs
<1>4. CASE ClientStep \/ Strays
  <2>1. UNCHANGED <<spc, writeSeq, master>>
    BY <1>4, ClientKeepsServer DEF server, writeSide, handshake
  <2>2. cpc \in FinishedSent => cpc' \in FinishedSent
    BY <1>1, <1>4, ClientSettled
  <2>3. ASSUME NEW i \in 1..Len(s2c')
        PROVE  /\ Secret(s2c'[i]) => s2c'[i].key = KeyFor(master, "s2c")
               /\ s2c'[i].key # NoKey => s2c'[i].seq + (Len(s2c') - i) + 1 = writeSeq
               /\ Secret(s2c'[i]) => spc \in {"app", "reply", "closed"} /\ cpc \in FinishedSent
               /\ spc \in BeforeOurCcs => s2c'[i].key = NoKey
    <3>1. PICK d : Rest(s2c', s2c, d)
      <4>1. s2c' # <<>>
        BY <2>3
      <4> QED
        BY <1>1, <1>4, <4>1, ClientReading
    <3>2. /\ i + d \in 1..Len(s2c) /\ SameButAlt(s2c'[i], s2c[i + d]) /\ d \in Nat
          /\ Len(s2c') \in Nat /\ Len(s2c) \in Nat /\ Len(s2c') = Len(s2c) - d
      BY <2>3, <3>1, RestRecord
    <3>3. Len(s2c') - i = Len(s2c) - (i + d)
      BY <3>2
    <3> QED
      BY <1>2, <3>2, <3>3 DEF SameButAlt
  <2> QED
    BY <2>1, <2>2, <2>3 DEF ProtectInv, RepliesProtected
<1>5. CASE UNCHANGED vars
  BY <1>1, <1>5 DEF ProtectInv, RepliesProtected, vars, server, writeSide, handshake, client
<1> QED
  BY <1>3, <1>4, <1>5 DEF Next

-----------------------------------------------------------------------------
(* The application data.                                                   *)

\* e is c from record d on; e is c and then n.
Shifted(p, q, d, c, e) == \A i \in 0..Len(p) : i + d \in 0..Len(q) /\ e[i] = c[i + d]
Extended(q, n, c, e) == e[Len(q) + 1] = n /\ \A i \in 0..Len(q) : e[i] = c[i]

LEMMA CutsOfRest ==
  ASSUME NEW p, NEW q, NEW d \in {0, 1}, Rest(p, q, d), NEW N \in Nat, NEW c, Cutting(q, N, c)
  PROVE  \E e : Cutting(p, N, e) /\ Shifted(p, q, d, c, e)
<1>1. Len(p) \in Nat /\ Len(q) \in Nat /\ Len(p) = Len(q) - d
  BY DEF Rest
<1>2. PICK e : e = [i \in 0..Len(p) |-> c[i + d]]
  OBVIOUS
<1>3. \A i \in 0..Len(p) : i + d \in 0..Len(q) /\ e[i] = c[i + d] /\ e[i] \in 0..N
  BY <1>1, <1>2 DEF Cutting
<1>4. e \in [0..Len(p) -> 0..N]
  BY <1>2, <1>3
<1>5. ASSUME NEW i \in 1..Len(p) PROVE Carries(p[i], e[i - 1], e[i])
  <2>1. i \in 0..Len(p) /\ i - 1 \in 0..Len(p) /\ (i - 1) + d = (i + d) - 1
    BY <1>1
  <2>2. e[i] = c[i + d] /\ e[i - 1] = c[(i + d) - 1]
    BY <1>3, <2>1
  <2>3. i + d \in 1..Len(q) /\ p[i].ct = q[i + d].ct /\ p[i].body = q[i + d].body
    BY RestRecord DEF SameButAlt
  <2>4. Carries(q[i + d], c[(i + d) - 1], c[i + d])
    BY <2>3 DEF Cuts, Cutting
  <2> QED
    BY <2>2, <2>3, <2>4 DEF Carries
<1> QED
  BY <1>3, <1>4, <1>5 DEF Cuts, Cutting, Shifted

LEMMA CutsOfLonger ==
  ASSUME NEW p, NEW q, NEW r, Longer(p, q, r), NEW N \in Nat, NEW c, Cutting(q, N, c),
         NEW n \in 0..N, Carries(r, c[Len(q)], n)
  PROVE  \E e : Cutting(p, N, e) /\ Extended(q, n, c, e)
<1>1. Len(q) \in Nat /\ Len(p) = Len(q) + 1
  BY DEF Longer
<1>2. PICK e : e = [i \in 0..Len(p) |-> IF i = Len(q) + 1 THEN n ELSE c[i]]
  OBVIOUS
<1>3. e[Len(q) + 1] = n /\ \A i \in 0..Len(q) : e[i] = c[i]
  BY <1>1, <1>2
<1>4. e \in [0..Len(p) -> 0..N]
  BY <1>1, <1>2 DEF Cutting
<1>5. ASSUME NEW i \in 1..Len(p) PROVE Carries(p[i], e[i - 1], e[i])
  <2>1. CASE i \in 1..Len(q) /\ p[i] = q[i]
    <3>1. i \in 0..Len(q) /\ i - 1 \in 0..Len(q)
      BY <1>1, <2>1
    <3>2. e[i] = c[i] /\ e[i - 1] = c[i - 1]
      BY <1>3, <3>1
    <3> QED
      BY <2>1, <3>2 DEF Cuts, Cutting
  <2>2. CASE i = Len(q) + 1 /\ p[i] = r
    <3>1. i - 1 = Len(q) /\ Len(q) \in 0..Len(q)
      BY <1>1, <2>2
    <3>2. e[i] = n /\ e[i - 1] = c[Len(q)]
      BY <1>3, <2>2, <3>1
    <3> QED
      BY <2>2, <3>2
  <2> QED
    BY <2>1, <2>2, LongerRecord
<1> QED
  BY <1>3, <1>4, <1>5 DEF Cuts, Cutting, Extended

LEMMA RequestCutsOfRest ==
  ASSUME NEW p, NEW q, NEW d \in {0, 1}, Rest(p, q, d), NEW c, NEW b, NEW s, RequestCuts(q, c, b, s)
  PROVE  \E e : RequestCuts(p, e, c[d], s)
<1>1. ReqLen \in Nat /\ Cutting(q, ReqLen, c)
  BY LengthsAssumption DEF RequestCuts
<1>2. PICK e : Cutting(p, ReqLen, e) /\ Shifted(p, q, d, c, e)
  BY <1>1, CutsOfRest
<1>3. Len(p) \in Nat /\ Len(q) \in Nat /\ Len(p) = Len(q) - d /\ 0 + d = d
  BY DEF Rest
<1>4. e[0] = c[d] /\ e[Len(p)] = s
  BY <1>2, <1>3 DEF RequestCuts, Shifted
<1>5. \A i \in 0..Len(p) : e[i] <= s
  BY <1>2 DEF RequestCuts, Shifted
<1>6. ASSUME NEW i \in 1..Len(p), p[i].ct = "app" PROVE e[i - 1] < ReqLen
  <2>1. i + d \in 1..Len(q) /\ q[i + d].ct = "app"
    BY <1>6, RestRecord DEF SameButAlt
  <2>2. i - 1 \in 0..Len(p) /\ (i - 1) + d = (i + d) - 1
    BY <1>3
  <2>3. c[(i + d) - 1] < ReqLen
    BY <2>1 DEF RequestCuts
  <2> QED
    BY <1>2, <2>2, <2>3 DEF Shifted
<1> QED
  BY <1>2, <1>4, <1>5, <1>6 DEF RequestCuts

LEMMA RequestCutsOfLonger ==
  ASSUME NEW p, NEW q, NEW r, Longer(p, q, r), NEW c, NEW b, NEW s \in Nat, RequestCuts(q, c, b, s),
         NEW n \in s..ReqLen,
         Carries(r, s, n), r.ct = "app" => s < ReqLen
  PROVE  \E e : RequestCuts(p, e, b, n)
<1>1. ReqLen \in Nat /\ Cutting(q, ReqLen, c) /\ c[Len(q)] = s /\ c[0] = b
  BY LengthsAssumption DEF RequestCuts
<1>2. n \in 0..ReqLen /\ s <= n
  BY <1>1
<1>3. PICK e : Cutting(p, ReqLen, e) /\ e[Len(q) + 1] = n /\ \A i \in 0..Len(q) : e[i] = c[i]
  BY <1>1, <1>2, CutsOfLonger DEF Extended
<1>4. Len(q) \in Nat /\ Len(p) = Len(q) + 1
  BY DEF Longer
<1>5. e[0] = b /\ e[Len(p)] = n
  BY <1>1, <1>3, <1>4
<1>6. ASSUME NEW i \in 0..Len(p) PROVE e[i] <= n
  <2>1. CASE i \in 0..Len(q)
    <3>1. c[i] <= s /\ c[i] \in 0..ReqLen /\ e[i] = c[i]
      BY <1>1, <1>3, <2>1 DEF RequestCuts, Cutting
    <3> QED
      BY <1>2, <3>1
  <2>2. CASE i = Len(q) + 1
    BY <1>2, <1>3, <2>2
  <2> QED
    BY <1>4, <2>1, <2>2
<1>7. ASSUME NEW i \in 1..Len(p), p[i].ct = "app" PROVE e[i - 1] < ReqLen
  <2>1. CASE i \in 1..Len(q) /\ p[i] = q[i]
    <3>1. i - 1 \in 0..Len(q) /\ c[i - 1] < ReqLen
      BY <1>4, <1>7, <2>1 DEF RequestCuts
    <3> QED
      BY <1>3, <3>1
  <2>2. CASE i = Len(q) + 1 /\ p[i] = r
    <3>1. i - 1 = Len(q) /\ Len(q) \in 0..Len(q) /\ s < ReqLen
      BY <1>4, <1>7, <2>2
    <3> QED
      BY <1>1, <1>3, <3>1
  <2> QED
    BY <2>1, <2>2, LongerRecord
<1> QED
  BY <1>3, <1>5, <1>6, <1>7 DEF RequestCuts

LEMMA RequestSplits == \A q, b, s : RequestSplit(q, b, s) <=> \E c : RequestCuts(q, c, b, s)
BY DEF RequestSplit, RequestCuts, Cutting

\* Before serveHTTP the server takes no application data and stays open.
LEMMA ServerTakes ==
  ASSUME TypeOK, ServerStep, ~ReadApp
  PROVE  /\ UNCHANGED <<buf, request>>
         /\ spc = "reply" => spc' \in {"reply", "closed"}
         /\ spc' # "closed" =>
              \/ Rest(c2s', c2s, 0)
              \/ Rest(c2s', c2s, 1) /\ c2s[1].ct # "app" /\ 1 \in 1..Len(c2s)
<1>1. c2s \in Seq(Record)
  BY DEF TypeOK
<1>2. UNCHANGED <<buf, request>>
  BY DEF ServerStep, WriteFails, ReadEOF, ReadClientHello, SendServerHello, SendCertificate,
     SendServerHelloDone, Flight, ReadKeyExchange, ReadChangeCipherSpec, ReadFinished,
     SendChangeCipherSpec, SendFinished, WriteReply, http
<1>3. spc = "reply" => spc' \in {"reply", "closed"}
  BY DEF ServerStep, WriteFails, ReadEOF, ReadClientHello, SendServerHello, SendCertificate,
     SendServerHelloDone, Flight, ReadKeyExchange, ReadChangeCipherSpec, ReadFinished,
     SendChangeCipherSpec, SendFinished, WriteReply, Close
<1>4. ASSUME spc' # "closed", ReadClientHello \/ ReadKeyExchange \/ ReadChangeCipherSpec \/ ReadFinished
      PROVE  c2s # <<>> /\ c2s' = Tail(c2s) /\ Head(c2s).ct # "app"
  <2>1. ReadClientHello => c2s # <<>> /\ c2s' = Tail(c2s) /\ HelloOK(Head(c2s))
    BY <1>4 DEF ReadClientHello, Close
  <2>2. ReadKeyExchange => c2s # <<>> /\ c2s' = Tail(c2s) /\ IsHandshake(Head(c2s), "keyExchange", readActive)
    BY <1>4 DEF ReadKeyExchange, Close
  <2>3. ReadChangeCipherSpec => c2s # <<>> /\ c2s' = Tail(c2s) /\ Head(c2s).ct = "ccs"
    BY <1>4 DEF ReadChangeCipherSpec, Close
  <2>4. ReadFinished => c2s # <<>> /\ c2s' = Tail(c2s) /\ FinishedOK(Head(c2s))
    BY <1>4 DEF ReadFinished, Close
  <2> QED
    BY <1>4, <2>1, <2>2, <2>3, <2>4 DEF HelloOK, HelloFramed, IsHandshake, FinishedOK
<1>5. ASSUME spc' # "closed"
      PROVE  Rest(c2s', c2s, 0) \/ (Rest(c2s', c2s, 1) /\ c2s[1].ct # "app" /\ 1 \in 1..Len(c2s))
  BY <1>1, <1>4, <1>5, ServerReads, RestOfTail
<1> QED
  BY <1>2, <1>3, <1>5

\* What one record adds to the part of the request the server has.
LEMMA RunExtends ==
  ASSUME NEW a \in Nat, NEW b \in Nat, a <= b
  PROVE  Units(a) \o Run(a, b) = Units(b) /\ Len(Units(b)) = b
<1>1. Run(0, a) \o Run(a, b) = Run(0, b)
  <2>1. 0 \in Nat /\ 0 <= a
    OBVIOUS
  <2> QED
    BY <2>1, RunsJoin
<1>2. Units(a) = Run(0, a) /\ Units(b) = Run(0, b) /\ Len(Units(b)) = b
  BY UnitsAreRuns, UnitsAreSeq
<1> QED
  BY <1>1, <1>2

\* The accumulation loop: buf is a prefix of the request and grows by the next
\* units of it; what is dispatched is all of it.
LEMMA ReadAppCuts ==
  ASSUME Tls10Inv, ReadApp
  PROVE  /\ spc' \in {"app", "reply", "closed"} /\ spc = "app" /\ (spc' # "reply" => UNCHANGED request)
         /\ buf' = Units(Len(buf'))
         /\ spc' # "closed" => RequestSplit(c2s', Len(buf'), sent)
         /\ spc' = "reply" => request' = Units(ReqLen) /\ sent = ReqLen /\ Len(buf') = ReqLen
<1>1. TypeOK /\ ShapeInv /\ c2s \in Seq(Record) /\ c2s # <<>> /\ c2s' = Tail(c2s) /\ spc = "app"
  BY DEF Tls10Inv, TypeOK, ReadApp
<1>2. /\ sent <= ReqLen /\ buf = Units(Len(buf)) /\ RequestSplit(c2s, Len(buf), sent)
  BY <1>1 DEF Tls10Inv, RequestInv
<1>3. PICK c : RequestCuts(c2s, c, Len(buf), sent)
  BY <1>2, RequestSplits
<1>4. PICK r : r = Head(c2s)
  OBVIOUS
<1>5. Rest(c2s', c2s, 1) /\ r = c2s[1] /\ 1 \in 1..Len(c2s)
  BY <1>1, <1>4, RestOfTail
<1>6. RequestSplit(c2s', c[1], sent)
  BY <1>3, <1>5, RequestCutsOfRest, RequestSplits
<1>7. /\ Len(buf) \in Nat /\ c[1] \in Nat /\ c[1] <= sent /\ sent \in Nat /\ ReqLen \in Nat
      /\ Carries(r, Len(buf), c[1])
  <2>1. c \in [0..Len(c2s) -> 0..ReqLen] /\ Cuts(c2s, c) /\ c[0] = Len(buf)
    BY <1>3 DEF RequestCuts, Cutting
  <2>2. Len(c2s) \in Nat /\ 1 \in 0..Len(c2s) /\ 1 - 1 = 0 /\ ReqLen \in Nat
    BY <1>1, <1>5, LengthsAssumption
  <2>3. c[1] \in Nat /\ c[1] <= sent
    BY <1>3, <2>1, <2>2 DEF RequestCuts
  <2>4. Carries(c2s[1], c[1 - 1], c[1])
    BY <1>5, <2>1 DEF Cuts
  <2> QED
    BY <1>1, <1>5, <2>1, <2>2, <2>3, <2>4 DEF TypeOK
<1>8. CASE spc' = "closed" /\ UNCHANGED http
  BY <1>1, <1>2, <1>8 DEF http
<1>9. CASE r.ct # "app" /\ UNCHANGED <<http, spc>>
  <2>1. c[1] = Len(buf)
    BY <1>7, <1>9 DEF Carries
  <2> QED
    BY <1>1, <1>2, <1>6, <1>9, <2>1 DEF http
<1>10. CASE /\ r.ct = "app" /\ buf' = buf \o r.body.s
            /\ IF Complete(Len(buf \o r.body.s))
               THEN request' = buf \o r.body.s /\ spc' = "reply"
               ELSE UNCHANGED <<request, spc>>
  <2>1. r.body.s = Run(Len(buf), c[1]) /\ Len(buf) <= c[1]
    BY <1>7, <1>10 DEF Carries
  <2>2. buf \o r.body.s = Units(c[1]) /\ Len(buf \o r.body.s) = c[1]
    <3>1. PICK n \in Nat, m \in Nat : n = Len(buf) /\ m = c[1]
      BY <1>7
    <3>2. buf = Units(n) /\ r.body.s = Run(n, m) /\ n <= m
      BY <1>2, <2>1, <3>1
    <3>3. Units(n) \o Run(n, m) = Units(m) /\ Len(Units(m)) = m
      BY <3>2, RunExtends
    <3> QED
      BY <3>1, <3>2, <3>3
  <2>3. buf' = Units(c[1]) /\ Len(buf') = c[1]
    BY <1>10, <2>2
  <2>4. CASE c[1] >= ReqLen
    <3>1. request' = Units(c[1]) /\ spc' = "reply"
      BY <1>10, <2>2, <2>4 DEF Complete
    <3>2. c[1] = ReqLen /\ sent = ReqLen
      BY <1>2, <1>7, <2>4
    <3> QED
      BY <1>1, <1>6, <2>3, <3>1, <3>2
  <2>5. CASE ~(c[1] >= ReqLen)
    <3>1. UNCHANGED <<request, spc>>
      BY <1>10, <2>2, <2>5 DEF Complete
    <3> QED
      BY <1>1, <1>6, <2>3, <3>1
  <2> QED
    BY <2>4, <2>5
<1> QED
  <2>1. \/ spc' = "closed" /\ UNCHANGED http
        \/ r.ct # "app" /\ UNCHANGED <<http, spc>>
        \/ /\ r.ct = "app" /\ buf' = buf \o r.body.s
           /\ IF Complete(Len(buf \o r.body.s))
              THEN request' = buf \o r.body.s /\ resp' = Units(RespLen) /\ spc' = "reply"
              ELSE UNCHANGED <<request, resp, spc>>
    BY <1>4, Zenon DEF ReadApp, Close
  <2> QED
    BY <1>8, <1>9, <1>10, <2>1

LEMMA StepRequestInv == Tls10Inv /\ [Next]_vars => RequestInv'
<1> SUFFICES ASSUME Tls10Inv, [Next]_vars PROVE RequestInv'
  OBVIOUS
<1>1. TypeOK /\ sent \in Nat /\ ReqLen \in Nat \ {0}
  BY LengthsAssumption DEF Tls10Inv, TypeOK
<1>2. /\ sent <= ReqLen /\ (sent # 0 => cpc \in {"request", "closed"})
      /\ buf = Units(Len(buf))
      /\ spc \notin {"app", "reply", "closed"} => buf = <<>>
      /\ spc \notin {"reply", "closed"} => request = <<>>
      /\ spc # "closed" => RequestSplit(c2s, Len(buf), sent)
      /\ RequestIntact
  BY DEF Tls10Inv, RequestInv
<1>3. CASE ServerStep
  <2>1. UNCHANGED <<sent, cpc>> /\ spc # "closed"
    BY <1>3, ServerKeepsClient, ServerRuns DEF client
  <2>2. spc \in {"app", "reply", "closed"} => spc' \in {"app", "reply", "closed"}
    BY <1>1, <1>3, ServerMovesOn DEF BeforeOurCcs, NoKeysYet
  <2>3. CASE ReadApp
    <3>1. /\ spc' \in {"app", "reply", "closed"} /\ spc = "app" /\ (spc' # "reply" => request' = request)
          /\ buf' = Units(Len(buf'))
          /\ spc' # "closed" => RequestSplit(c2s', Len(buf'), sent)
          /\ spc' = "reply" => request' = Units(ReqLen) /\ sent = ReqLen
      BY <2>3, ReadAppCuts
    <3>2. request = <<>>
      BY <1>2, <3>1
    <3>3. RequestIntact'
      BY <1>1, <1>2, <2>1, <3>1, <3>2 DEF RequestIntact
    <3> QED
      BY <1>2, <2>1, <3>1, <3>2, <3>3 DEF RequestInv
  <2>4. CASE ~ReadApp
    <3>1. /\ UNCHANGED <<buf, request>> /\ (spc = "reply" => spc' \in {"reply", "closed"})
          /\ spc' # "closed" => \/ Rest(c2s', c2s, 0)
                                \/ Rest(c2s', c2s, 1) /\ c2s[1].ct # "app" /\ 1 \in 1..Len(c2s)
      BY <1>1, <1>3, <2>4, ServerTakes
    <3>2. ASSUME spc' # "closed" PROVE RequestSplit(c2s', Len(buf), sent)
      <4>1. PICK c : RequestCuts(c2s, c, Len(buf), sent)
        BY <1>2, <2>1, RequestSplits
      <4>2. CASE Rest(c2s', c2s, 0)
        <5>1. RequestSplit(c2s', c[0], sent)
          BY <4>1, <4>2, RequestCutsOfRest, RequestSplits
        <5> QED
          BY <4>1, <5>1 DEF RequestCuts
      <4>3. CASE Rest(c2s', c2s, 1) /\ c2s[1].ct # "app" /\ 1 \in 1..Len(c2s)
        <5>1. RequestSplit(c2s', c[1], sent)
          BY <4>1, <4>3, RequestCutsOfRest, RequestSplits
        <5>2. Carries(c2s[1], c[1 - 1], c[1]) /\ c[0] = Len(buf) /\ 1 - 1 = 0
          BY <4>1, <4>3 DEF RequestCuts, Cutting, Cuts
        <5>3. c[1] = Len(buf)
          BY <4>3, <5>2 DEF Carries
        <5> QED
          BY <5>1, <5>3
      <4> QED
        BY <3>1, <3>2, <4>2, <4>3
    <3>3. spc' \notin {"reply", "closed"} => request' = <<>>
      BY <1>2, <2>1, <3>1
    <3>4. spc' \notin {"app", "reply", "closed"} => buf' = <<>>
      BY <1>2, <2>2, <3>1
    <3> QED
      BY <1>2, <2>1, <3>1, <3>2, <3>3, <3>4 DEF RequestInv, RequestIntact
  <2> QED
    BY <2>3, <2>4
<1>4. CASE ClientStep \/ Strays
  <2>1. UNCHANGED <<spc, buf, request>>
    BY <1>4, ClientKeepsServer DEF server, http
  <2>2. cpc \in {"request", "closed"} => cpc' \in {"request", "closed"}
    BY <1>4 DEF ClientStep, Strays, ClientSendHello, ClientReadFlight, ClientSendKeyExchange,
       ClientSendChangeCipherSpec, ClientSendFinished, ClientReadChangeCipherSpec, ClientReadFinished,
       ClientSendRequest, ClientReadReply, ClientReadEOF, ClientWriteFails, ClientStrays, ClientCloses,
       Alter, TcpReset, client
  <2>3. /\ sent' \in sent..ReqLen /\ (sent' # sent => cpc = "request" /\ sent < ReqLen)
        /\ \/ Rest(c2s', c2s, 0) /\ sent' = sent
           \/ \E r : Longer(c2s', c2s, r) /\ Carries(r, sent, sent') /\ (r.ct = "app" => sent < ReqLen)
    <3>1. CASE ClientQuiet
      BY <1>1, <1>2, <3>1 DEF ClientQuiet
    <3>2. CASE ClientClear \/ ClientCcs
      <4>1. PICK r : Longer(c2s', c2s, r) /\ r.ct # "app"
        BY <3>2 DEF ClientClear, ClientCcs
      <4>2. sent' = sent
        BY <3>2 DEF ClientClear, ClientCcs
      <4>3. Carries(r, sent, sent')
        BY <1>1, <4>1, <4>2 DEF Carries
      <4> QED
        BY <1>1, <1>2, <4>1, <4>2, <4>3
    <3>3. CASE ClientSealed
      <4>1. PICK r : /\ Longer(c2s', c2s, r)
                     /\ \/ ClientSendFinished /\ r.ct = "handshake"
                        \/ /\ r.ct = "app" /\ r.body = Data(Run(sent, sent'))
                           /\ cpc = "request" /\ sent < ReqLen /\ sent' \in sent..ReqLen
                        \/ r.ct \notin {"app", "ccs"} /\ sent' = sent
        BY <3>3 DEF ClientSealed
      <4>2. CASE r.ct # "app"
        <5>1. sent' = sent
          BY <4>1, <4>2 DEF ClientSendFinished
        <5>2. Carries(r, sent, sent')
          BY <1>1, <4>2, <5>1 DEF Carries
        <5> QED
          BY <1>1, <1>2, <4>1, <4>2, <5>1, <5>2
      <4>3. CASE r.ct = "app"
        <5>1. r.body = Data(Run(sent, sent')) /\ cpc = "request" /\ sent < ReqLen /\ sent' \in sent..ReqLen
          BY <4>1, <4>3
        <5>2. r.body.s = Run(sent, sent')
          BY <5>1 DEF Data
        <5>3. Carries(r, sent, sent')
          BY <1>1, <4>3, <5>1, <5>2 DEF Carries
        <5> QED
          BY <4>1, <5>1, <5>3
      <4> QED
        BY <4>2, <4>3
    <3> QED
      BY <1>4, <3>1, <3>2, <3>3, ClientMoves
  <2>4. ASSUME spc # "closed" PROVE RequestSplit(c2s', Len(buf), sent')
    <3>1. PICK c : RequestCuts(c2s, c, Len(buf), sent)
      BY <1>2, <2>4, RequestSplits
    <3>2. CASE Rest(c2s', c2s, 0) /\ sent' = sent
      <4>1. RequestSplit(c2s', c[0], sent)
        BY <3>1, <3>2, RequestCutsOfRest, RequestSplits
      <4> QED
        BY <3>1, <3>2, <4>1 DEF RequestCuts
    <3>3. CASE \E r : Longer(c2s', c2s, r) /\ Carries(r, sent, sent') /\ (r.ct = "app" => sent < ReqLen)
      BY <1>1, <2>3, <3>1, <3>3, RequestCutsOfLonger, RequestSplits
    <3> QED
      BY <2>3, <3>2, <3>3
  <2>5. sent' <= ReqLen /\ (sent' # 0 => cpc' \in {"request", "closed"})
    BY <1>1, <1>2, <2>2, <2>3
  <2>6. RequestIntact'
    <3>1. sent = ReqLen => sent' = ReqLen
      BY <1>1, <2>3
    <3> QED
      BY <1>2, <2>1, <2>2, <3>1 DEF RequestIntact
  <2> QED
    BY <1>2, <2>1, <2>4, <2>5, <2>6 DEF RequestInv
<1>5. CASE UNCHANGED vars
  <2>1. UNCHANGED <<sent, cpc, buf, spc, request, c2s>>
    BY <1>5 DEF vars, server, http, client
  <2> QED
    BY <1>2, <2>1 DEF RequestInv, RequestIntact
<1> QED
  BY <1>3, <1>4, <1>5 DEF Next

\* Only a complete request is answered: the reply starts with its dispatch.
LEMMA Dispatch ==
  ASSUME Tls10Inv, ServerStep
  PROVE  \/ request' = request
         \/ /\ ReadApp /\ spc = "app" /\ spc' = "reply" /\ request = <<>> /\ request' # <<>>
            /\ resp' = Units(RespLen) /\ s2c' = s2c /\ Len(buf') = ReqLen
<1>1. TypeOK /\ RequestInv /\ ReqLen \in Nat \ {0}
  BY LengthsAssumption DEF Tls10Inv
<1>2. CASE ~ReadApp
  BY <1>1, <1>2, ServerTakes
<1>3. CASE ReadApp
  <2>1. /\ spc = "app" /\ (spc' # "reply" => UNCHANGED request)
        /\ spc' = "reply" => request' = Units(ReqLen) /\ Len(buf') = ReqLen
    BY <1>3, ReadAppCuts
  <2>2. spc' = "reply" => resp' = Units(RespLen)
    BY <1>3, <2>1 DEF ReadApp, Close
  <2>3. Units(ReqLen) # <<>>
    BY <1>1, UnitsAreSeq
  <2>4. request = <<>> /\ s2c' = s2c
    BY <1>1, <1>3, <2>1 DEF RequestInv, ReadApp
  <2> QED
    BY <1>3, <2>1, <2>2, <2>3, <2>4
<1> QED
  BY <1>2, <1>3

LEMMA StepPendingInv == Tls10Inv /\ [Next]_vars => PendingInv'
<1> SUFFICES ASSUME Tls10Inv, [Next]_vars PROVE PendingInv'
  OBVIOUS
<1>1. TypeOK /\ ServerInv /\ PendingInv /\ RequestInv
  BY DEF Tls10Inv
<1>2. CASE ServerStep
  <2>1. got' = got
    BY <1>2, ServerKeepsClient DEF client
  <2>2. spc' = "reply" => resp' # <<>> /\ request' # <<>>
    <3>1. CASE request' # request
      <4>1. resp' = Units(RespLen) /\ request' # <<>>
        BY <1>2, <3>1, Dispatch
      <4>2. Units(RespLen) # <<>>
        BY LengthsAssumption, UnitsAreSeq
      <4> QED
        BY <4>1, <4>2
    <3>2. CASE WriteReply
      <4>1. PICK n : n = Chunk(Len(resp))
        OBVIOUS
      <4>2. /\ n \in 0..Len(resp) /\ Len(resp) \in Nat /\ resp' = SubSeq(resp, n + 1, Len(resp))
        BY <1>1, <3>2, <4>1, WriteReplyWrites
      <4>3. spc' = "reply" => n # Len(resp)
        BY <3>2, <4>1 DEF WriteReply
      <4>4. spc' = "reply" => Len(resp') = Len(resp) - n /\ Len(resp) - n # 0
        BY <1>1, <4>2, <4>3 DEF TypeOK
      <4>5. request' = request /\ spc = "reply"
        BY <3>2 DEF WriteReply
      <4> QED
        BY <1>1, <4>4, <4>5 DEF PendingInv
    <3>3. CASE ~WriteReply /\ request' = request
      <4>1. spc' # "reply"
        <5>1. CASE ReadApp
          <6>1. spc' = "reply" => request' # <<>> /\ request = <<>>
            BY <1>1, <1>2, <5>1, ReadAppCuts, LengthsAssumption, UnitsAreSeq DEF RequestInv
          <6> QED
            BY <3>3, <6>1
        <5>2. CASE ~ReadApp
          BY <1>2, <3>3, <5>2 DEF ServerStep, WriteFails, ReadEOF, ReadClientHello, SendServerHello, SendCertificate,
             SendServerHelloDone, Flight, ReadKeyExchange, ReadChangeCipherSpec, ReadFinished,
             SendChangeCipherSpec, SendFinished, Close
        <5> QED
          BY <5>1, <5>2
      <4> QED
        BY <4>1
    <3> QED
      BY <3>1, <3>2, <3>3
  <2>3. ASSUME request' = <<>> PROVE got' = <<>> /\ \A i \in 1..Len(s2c') : s2c'[i].ct # "app"
    <3>1. request = <<>>
      BY <1>2, <2>3, Dispatch
    <3>2. got = <<>> /\ \A i \in 1..Len(s2c) : s2c[i].ct # "app"
      BY <1>1, <3>1 DEF PendingInv
    <3>3. CASE ServerSilent
      BY <2>1, <3>2, <3>3 DEF ServerSilent
    <3>4. CASE ServerClear \/ ServerCcs \/ ServerSealed
      <4>1. ~WriteReply
        BY <1>1, <3>1 DEF PendingInv, WriteReply
      <4>2. PICK r : Longer(s2c', s2c, r) /\ r.ct # "app"
        BY <3>4, <4>1 DEF ServerClear, ServerCcs, ServerSealed
      <4> QED
        BY <2>1, <3>2, <4>2, LongerRecord
    <3> QED
      BY <1>2, <3>3, <3>4, ServerMoves
  <2> QED
    BY <2>2, <2>3 DEF PendingInv
<1>3. CASE ClientStep \/ Strays
  <2>1. UNCHANGED <<spc, request, resp>>
    BY <1>3, ClientKeepsServer DEF server, http
  <2>2. ASSUME request = <<>> PROVE got' = <<>> /\ \A i \in 1..Len(s2c') : s2c'[i].ct # "app"
    <3>1. got = <<>> /\ \A i \in 1..Len(s2c) : s2c[i].ct # "app"
      BY <1>1, <2>2 DEF PendingInv
    <3>2. \A d : Rest(s2c', s2c, d) => \A i \in 1..Len(s2c') : s2c'[i].ct # "app"
      BY <3>1, RestRecord DEF SameButAlt
    <3>3. CASE s2c # <<>> /\ s2c' = Tail(s2c) /\ Rest(s2c', s2c, 1) /\ ClientReads
      <4>1. Head(s2c).ct # "app"
        BY <1>1, <3>1, <3>3, RestOfTail DEF TypeOK
      <4>2. got' = got
        BY <3>3, <4>1 DEF ClientReads, ClientReadFlight, ClientReadChangeCipherSpec, ClientReadFinished,
           ClientReadReply
      <4> QED
        BY <3>1, <3>2, <3>3, <4>2
    <3>4. CASE Rest(s2c', s2c, 0) /\ got' = got
      BY <3>1, <3>2, <3>4
    <3>5. CASE s2c' = <<>> /\ UNCHANGED client
      BY <3>1, <3>5 DEF client
    <3> QED
      BY <1>1, <1>3, <3>3, <3>4, <3>5, ClientReading
  <2> QED
    BY <1>1, <2>1, <2>2 DEF PendingInv
<1>4. CASE UNCHANGED vars
  BY <1>1, <1>4 DEF PendingInv, vars, server, http, client
<1> QED
  BY <1>2, <1>3, <1>4 DEF Next

\* A step that keeps to the script alters nothing.
LEMMA OnScript ==
  ASSUME TypeOK, ClientStep \/ Strays, ~strayed'
  PROVE  /\ ~strayed
         /\ \/ s2c' = s2c /\ got' = got
            \/ s2c # <<>> /\ s2c' = Tail(s2c) /\ ClientReads
            \/ TcpReset /\ s2c' = <<>>
<1>1. CASE ClientReads
  <2>1. s2c # <<>> /\ s2c' = Tail(s2c) /\ strayed' = strayed
    BY <1>1 DEF ClientReads, ClientReadFlight, ClientReadChangeCipherSpec, ClientReadFinished, ClientReadReply, history
  <2> QED
    BY <1>1, <2>1
<1>2. CASE TcpReset
  BY <1>2 DEF TcpReset, history
<1>3. CASE \/ \E t \in {"v2hello", "v3hello"}, v \in {"ok", "malformed", "noCipher"} : ClientSendHello(t, v)
           \/ \E v \in {"ok", "malformed", "undecryptable"} : ClientSendKeyExchange(v)
  <2>1. s2c' = s2c /\ got' = got
    BY <1>3, Zenon DEF ClientSendHello, ClientSendKeyExchange
  <2>2. strayed => strayed'
    BY <1>3, Zenon DEF ClientSendHello, ClientSendKeyExchange
  <2> QED
    BY <2>1, <2>2
<1>4. CASE \/ ClientSendChangeCipherSpec \/ ClientSendFinished \/ \E n \in 0..ReqLen : ClientSendRequest(n)
           \/ ClientReadEOF \/ ClientWriteFails
  <2>1. s2c' = s2c /\ got' = got /\ strayed' = strayed
    BY <1>4, Zenon DEF ClientSendChangeCipherSpec, ClientSendFinished, ClientSendRequest, ClientReadEOF,
       ClientWriteFails, history
  <2> QED
    BY <2>1
<1>5. CASE \/ ClientStrays("alert", Plain("alert")) \/ ClientStrays("handshake", Hs("junk", "ok"))
           \/ ClientCloses \/ \E a \in Alterations \ {"no"} : Alter(a)
  <2>1. strayed'
    BY <1>5, Zenon DEF ClientStrays, ClientCloses, Alter
  <2> QED
    BY <2>1
<1> QED
  BY <1>1, <1>2, <1>3, <1>4, <1>5 DEF ClientReads, ClientStep, Strays

\* Once its Finished is out, a client on the script sends only its request.
LEMMA OnlyRequest ==
  ASSUME Tls10Inv, ClientStep \/ Strays, ~strayed', cpc \in FinishedSent
  PROVE  \/ Rest(c2s', c2s, 0)
         \/ \E r : Longer(c2s', c2s, r) /\ r.ct = "app" /\ sent < ReqLen
<1>1. ~ClientSendFinished /\ cpc # "ccs"
  BY DEF ClientSendFinished, FinishedSent
<1>2. CASE ClientQuiet
  BY <1>2 DEF ClientQuiet
<1>3. ~ClientClear /\ ~ClientCcs
  BY <1>1 DEF ClientClear, ClientCcs
<1>4. CASE ClientSealed
  BY <1>1, <1>4 DEF ClientSealed
<1> QED
  BY <1>2, <1>3, <1>4, ClientMoves

LEMMA StepScriptInv == Tls10Inv /\ [Next]_vars => ScriptInv'
<1> SUFFICES ASSUME Tls10Inv, [Next]_vars, ~strayed'
             PROVE  /\ \A i \in 1..Len(s2c') : s2c'[i].alt = "no"
                    /\ \A i \in 1..Len(c2s') : c2s'[i].body.t = "fin" =>
                         \A j \in (i + 1)..Len(c2s') : c2s'[j].ct = "app"
                    /\ PastFinished' => \A i \in 1..Len(c2s') : c2s'[i].ct = "app"
  BY DEF ScriptInv
<1>1. TypeOK /\ FinishedInv /\ ScriptInv /\ s2c \in Seq(Record) /\ c2s \in Seq(Record)
  BY DEF Tls10Inv, TypeOK
<1>2. ASSUME NEW d, Rest(c2s', c2s, d), ~strayed, NEW i \in 1..Len(c2s'), c2s'[i].body.t = "fin",
             NEW j \in (i + 1)..Len(c2s')
      PROVE  c2s'[j].ct = "app"
  <2>1. /\ i + d \in 1..Len(c2s) /\ c2s[i + d].body.t = "fin" /\ d \in Nat
        /\ Len(c2s') \in Nat /\ Len(c2s) \in Nat /\ Len(c2s') = Len(c2s) - d
    BY <1>2, RestRecord DEF SameButAlt
  <2>2. j \in 1..Len(c2s') /\ j + d \in (i + d + 1)..Len(c2s)
    BY <2>1
  <2>3. c2s[j + d].ct = "app"
    BY <1>1, <1>2, <2>1, <2>2 DEF ScriptInv
  <2> QED
    BY <1>2, <2>2, <2>3, RestRecord DEF SameButAlt
<1>3. CASE ServerStep
  <2>1. ~strayed
    BY <1>3, ServerKeepsClient DEF history
  <2>2. \A i \in 1..Len(s2c) : s2c[i].alt = "no"
    BY <1>1, <2>1 DEF ScriptInv
  <2>3. \A i \in 1..Len(s2c') : s2c'[i].alt = "no"
    <3>1. CASE ServerSilent
      BY <2>2, <3>1 DEF ServerSilent
    <3>2. CASE ServerClear \/ ServerCcs \/ ServerSealed
      <4>1. PICK r : Longer(s2c', s2c, r) /\ r.alt = "no"
        BY <3>2 DEF ServerClear, ServerCcs, ServerSealed
      <4> QED
        BY <2>2, <4>1, LongerRecord
    <3> QED
      BY <1>3, <3>1, <3>2, ServerMoves
  <2>4. PICK d : Rest(c2s', c2s, d)
    BY <1>1, <1>3, ServerReads
  <2>5. ASSUME PastFinished', NEW i \in 1..Len(c2s') PROVE c2s'[i].ct = "app"
    <3>1. CASE PastFinished
      <4>1. i + d \in 1..Len(c2s) /\ c2s'[i].ct = c2s[i + d].ct
        BY <2>4, RestRecord DEF SameButAlt
      <4> QED
        BY <1>1, <2>1, <3>1, <4>1 DEF ScriptInv
    <3>2. CASE ~PastFinished
      <4>1. ReadFinished /\ spc' = "sendCcs"
        BY <1>3, <2>5, <3>2 DEF PastFinished, ServerStep, WriteFails, ReadEOF, ReadClientHello, SendServerHello,
           SendCertificate, SendServerHelloDone, Flight, ReadKeyExchange, ReadChangeCipherSpec, ReadFinished,
           SendChangeCipherSpec, SendFinished, ReadApp, WriteReply, Close
      <4>2. c2s # <<>> /\ c2s' = Tail(c2s) /\ FinishedOK(Head(c2s))
        BY <4>1 DEF ReadFinished, Close
      <4>3. Rest(c2s', c2s, 1) /\ Head(c2s) = c2s[1] /\ 1 \in 1..Len(c2s)
        BY <1>1, <4>2, RestOfTail
      <4>4. c2s[1].body.t = "fin"
        BY <4>2, <4>3 DEF FinishedOK, IsHandshake
      <4>5. i + 1 \in (1 + 1)..Len(c2s) /\ c2s'[i].ct = c2s[i + 1].ct
        BY <4>3, RestRecord DEF SameButAlt
      <4> QED
        BY <1>1, <2>1, <4>3, <4>4, <4>5 DEF ScriptInv
    <3> QED
      BY <3>1, <3>2
  <2> QED
    BY <1>2, <2>1, <2>3, <2>4, <2>5
<1>4. CASE ClientStep \/ Strays
  <2>1. /\ ~strayed
        /\ s2c' = s2c \/ (s2c # <<>> /\ s2c' = Tail(s2c)) \/ s2c' = <<>>
    BY <1>1, <1>4, OnScript
  <2>2. \A i \in 1..Len(s2c') : s2c'[i].alt = "no"
    <3>1. \A i \in 1..Len(s2c) : s2c[i].alt = "no"
      BY <1>1, <2>1 DEF ScriptInv
    <3>2. CASE s2c # <<>> /\ s2c' = Tail(s2c)
      <4>1. \A i \in 1..Len(s2c') : s2c'[i] = s2c[i + 1] /\ i + 1 \in 1..Len(s2c)
        BY <1>1, <3>2, Popped
      <4> QED
        BY <3>1, <4>1
    <3>3. CASE s2c' = <<>>
      BY <3>3
    <3> QED
      BY <2>1, <3>1, <3>2, <3>3
  <2>3. spc' = spc
    BY <1>4, ClientKeepsServer DEF server
  <2>4. CASE \E d : Rest(c2s', c2s, d)
    <3>1. PICK d : Rest(c2s', c2s, d)
      BY <2>4
    <3>2. ASSUME PastFinished', NEW i \in 1..Len(c2s') PROVE c2s'[i].ct = "app"
      <4>1. i + d \in 1..Len(c2s) /\ c2s'[i].ct = c2s[i + d].ct
        BY <3>1, RestRecord DEF SameButAlt
      <4>2. PastFinished
        BY <2>3, <3>2 DEF PastFinished
      <4> QED
        BY <1>1, <2>1, <4>1, <4>2 DEF ScriptInv
    <3> QED
      BY <1>2, <2>1, <2>2, <3>1, <3>2
  <2>5. CASE cpc \in FinishedSent /\ \E r : Longer(c2s', c2s, r) /\ r.ct = "app"
    <3>1. PICK r : Longer(c2s', c2s, r) /\ r.ct = "app"
      BY <2>5
    <3>2. Len(c2s) \in Nat /\ Len(c2s') = Len(c2s) + 1 /\ c2s'[Len(c2s) + 1] = r
          /\ \A i \in 1..Len(c2s) : c2s'[i] = c2s[i]
      BY <3>1 DEF Longer
    <3>3. ASSUME NEW i \in 1..Len(c2s'), c2s'[i].body.t = "fin", NEW j \in (i + 1)..Len(c2s')
          PROVE  c2s'[j].ct = "app"
      <4>1. CASE j = Len(c2s) + 1
        BY <3>1, <3>2, <4>1
      <4>2. CASE j # Len(c2s) + 1
        <5>1. i \in 1..Len(c2s) /\ j \in (i + 1)..Len(c2s) /\ j \in 1..Len(c2s)
          BY <3>2, <4>2
        <5>2. c2s[i].body.t = "fin" /\ c2s'[j] = c2s[j]
          BY <3>2, <3>3, <5>1
        <5> QED
          BY <1>1, <2>1, <5>1, <5>2 DEF ScriptInv
      <4> QED
        BY <4>1, <4>2
    <3>4. ASSUME PastFinished', NEW i \in 1..Len(c2s') PROVE c2s'[i].ct = "app"
      <4>1. \A k \in 1..Len(c2s) : c2s[k].ct = "app"
        BY <1>1, <2>1, <2>3, <3>4 DEF ScriptInv, PastFinished
      <4> QED
        BY <3>1, <4>1, LongerRecord
    <3> QED
      BY <2>2, <3>3, <3>4
  <2>6. CASE cpc \notin FinishedSent /\ \E r : Longer(c2s', c2s, r)
    <3>1. ~PastFinished' /\ \A i \in 1..Len(c2s) : c2s[i].body.t # "fin"
      BY <1>1, <2>3, <2>6 DEF FinishedInv, PastFinished
    <3>2. ASSUME NEW i \in 1..Len(c2s'), c2s'[i].body.t = "fin" PROVE (i + 1)..Len(c2s') = {}
      BY <2>6, <3>1, <3>2, LongerRecord
    <3> QED
      BY <2>2, <3>1, <3>2
  <2> QED
    <3>1. ClientQuiet => Rest(c2s', c2s, 0)
      BY DEF ClientQuiet
    <3>2. ClientClear \/ ClientCcs \/ ClientSealed => \E r : Longer(c2s', c2s, r)
      BY DEF ClientClear, ClientCcs, ClientSealed
    <3> QED
      BY <1>4, <2>4, <2>5, <2>6, <3>1, <3>2, ClientMoves, OnlyRequest
<1>5. CASE UNCHANGED vars
  <2>1. UNCHANGED <<strayed, s2c, c2s, spc>>
    BY <1>5 DEF vars, history, server
  <2> QED
    BY <1>1, <2>1 DEF ScriptInv, PastFinished
<1> QED
  BY <1>3, <1>4, <1>5 DEF Next

LEMMA ReplySplits == \A q, g, s : ReplySplit(q, g, s) <=> \E c : ReplyCuts(q, c, g, s)
BY DEF ReplySplit, ReplyCuts, Cutting

LEMMA SameSeq ==
  ASSUME NEW u \in Seq(Nat), NEW w \in Seq(Nat), NEW n \in Nat, Len(u) = n, Len(w) = n,
         \A x \in 1..n : u[x] = w[x]
  PROVE  u = w
OBVIOUS

\* The splitting loop: the next record takes the next units, the rest stays.
Front(s, n) == SubSeq(s, 1, n)
Back(s, n) == SubSeq(s, n + 1, Len(s))

LEMMA RunSplits ==
  ASSUME NEW a \in Nat, NEW b \in Nat, NEW n \in Nat, a + n <= b, NEW s, s = Run(a, b)
  PROVE  Front(s, n) = Run(a, a + n) /\ Back(s, n) = Run(a + n, b)
<1>1. s \in Seq(Nat) /\ Len(s) = b - a /\ a + n \in Nat /\ a + n <= b /\ a <= a + n
  <2>1. a + n \in Nat /\ a + n <= b /\ a <= a + n /\ a <= b
    OBVIOUS
  <2> QED
    BY <2>1, RunsAreSeq
<1>2. \A x \in 1..(b - a) : s[x] = a + x
  BY DEF Run
<1>3. SubSeq(s, 1, n) = Run(a, a + n)
  <2>1. PICK u : u = SubSeq(s, 1, n)
    OBVIOUS
  <2>2. u \in Seq(Nat) /\ Len(u) = n /\ \A x \in 1..n : u[x] = s[x]
    BY <1>1, <2>1
  <2>3. (a + n) - a = n /\ 1..n \subseteq 1..(b - a)
    OBVIOUS
  <2>4. Run(a, a + n) \in Seq(Nat) /\ Len(Run(a, a + n)) = n
    BY <1>1, <2>3, RunsAreSeq
  <2>5. \A x \in 1..n : Run(a, a + n)[x] = a + x
    BY <2>3 DEF Run
  <2>6. \A x \in 1..n : u[x] = Run(a, a + n)[x]
    BY <1>2, <2>2, <2>3, <2>5
  <2>7. u = Run(a, a + n)
    BY <2>2, <2>4, <2>6, SameSeq
  <2> QED
    BY <2>1, <2>7
<1>4. SubSeq(s, n + 1, Len(s)) = Run(a + n, b)
  <2>1. PICK u : u = SubSeq(s, n + 1, Len(s))
    OBVIOUS
  <2>2. u \in Seq(Nat) /\ Len(u) = (b - a) - n /\ \A x \in 1..((b - a) - n) : u[x] = s[x + n]
    BY <1>1, <2>1
  <2>3. b - (a + n) = (b - a) - n /\ \A x \in 1..((b - a) - n) : x + n \in 1..(b - a) /\ a + (x + n) = (a + n) + x
    OBVIOUS
  <2>4. Run(a + n, b) \in Seq(Nat) /\ Len(Run(a + n, b)) = (b - a) - n
    BY <1>1, <2>3, RunsAreSeq
  <2>5. \A x \in 1..((b - a) - n) : Run(a + n, b)[x] = (a + n) + x
    BY <2>3 DEF Run
  <2>6. \A x \in 1..((b - a) - n) : u[x] = Run(a + n, b)[x]
    BY <1>2, <2>2, <2>3, <2>5
  <2>7. u = Run(a + n, b)
    <3>1. (b - a) - n \in Nat
      OBVIOUS
    <3> QED
      BY <2>2, <2>4, <2>6, <3>1, SameSeq
  <2> QED
    BY <2>1, <2>7
<1> QED
  BY <1>3, <1>4 DEF Front, Back

\* The reply as the server leaves it after one record.
LEMMA WriteReplyCuts ==
  ASSUME TypeOK, ServerInv, WriteReply, NEW r, Longer(s2c', s2c, r), r.ct = "app",
         r.body = Data(SubSeq(resp, 1, Chunk(Len(resp)))), NEW g, ReplySplit(s2c, g, resp)
  PROVE  ReplySplit(s2c', g, resp')
<1>1. PICK c : ReplyCuts(s2c, c, g, resp)
  BY ReplySplits
<1>2. PICK n : n = Chunk(Len(resp))
  OBVIOUS
<1>3. n \in 0..Len(resp) /\ resp' = SubSeq(resp, n + 1, Len(resp))
  BY <1>2, WriteReplyWrites
<1>4. PICK a : a = c[Len(s2c)]
  OBVIOUS
<1>5. /\ Cutting(s2c, RespLen, c) /\ g = Units(c[0]) /\ resp = Run(a, RespLen)
      /\ RespLen \in Nat /\ a \in Nat /\ a <= RespLen /\ Len(s2c) \in Nat
  <2>1. RespLen \in Nat /\ Len(s2c) \in Nat /\ Len(s2c) \in 0..Len(s2c)
    BY LengthsAssumption DEF TypeOK
  <2> QED
    BY <1>1, <1>4, <2>1 DEF ReplyCuts, Cutting
<1>6. Len(resp) = RespLen - a
  BY <1>5, RunsAreSeq
<1>7. /\ a + n \in a..RespLen /\ SubSeq(resp, 1, n) = Run(a, a + n)
      /\ SubSeq(resp, n + 1, Len(resp)) = Run(a + n, RespLen)
  <2>1. a \in Nat /\ RespLen \in Nat /\ n \in Nat /\ a + n <= RespLen /\ a + n \in a..RespLen
    BY <1>3, <1>5, <1>6
  <2>2. Front(resp, n) = Run(a, a + n) /\ Back(resp, n) = Run(a + n, RespLen)
    BY <1>5, <2>1, RunSplits
  <2> QED
    BY <2>1, <2>2 DEF Front, Back
<1>8. r.body.s = Run(a, a + n)
  BY <1>2, <1>7 DEF Data
<1>9. Carries(r, c[Len(s2c)], a + n) /\ a + n \in 0..RespLen
  BY <1>4, <1>5, <1>7, <1>8 DEF Carries
<1>10. PICK e : Cutting(s2c', RespLen, e) /\ Extended(s2c, a + n, c, e)
  BY <1>5, <1>9, CutsOfLonger
<1>11. e[0] = c[0] /\ e[Len(s2c')] = a + n
  BY <1>5, <1>10 DEF Extended, Longer
<1>12. ReplyCuts(s2c', e, g, resp')
  BY <1>3, <1>5, <1>7, <1>10, <1>11 DEF ReplyCuts
<1> QED
  BY <1>12, ReplySplits

\* The reply as the client leaves it after one record.
LEMMA ReadReplyCuts ==
  ASSUME NEW p, NEW q \in Seq(Record), q # <<>>, p = Tail(q), NEW g, NEW s, ReplySplit(q, g, s), NEW h,
         h = IF Head(q).ct = "app" THEN g \o Head(q).body.s ELSE g
  PROVE  ReplySplit(p, h, s)
<1>1. PICK c : ReplyCuts(q, c, g, s)
  BY ReplySplits
<1>2. Rest(p, q, 1) /\ Head(q) = q[1] /\ 1 \in 1..Len(q)
  BY RestOfTail
<1>3. /\ Cutting(q, RespLen, c) /\ c \in [0..Len(q) -> 0..RespLen] /\ g = Units(c[0])
      /\ s = Run(c[Len(q)], RespLen) /\ RespLen \in Nat /\ Carries(q[1], c[1 - 1], c[1])
  BY <1>1, <1>2, LengthsAssumption DEF ReplyCuts, Cutting, Cuts
<1>4. c[0] \in Nat /\ c[1] \in Nat /\ 1 - 1 = 0
  BY <1>2, <1>3
<1>5. h = Units(c[1])
  <2>1. CASE Head(q).ct = "app"
    <3>1. Head(q).body.s = Run(c[0], c[1]) /\ c[0] <= c[1]
      BY <1>2, <1>3, <1>4, <2>1 DEF Carries
    <3>2. Units(c[0]) \o Run(c[0], c[1]) = Units(c[1])
      BY <1>4, <3>1, RunExtends
    <3> QED
      BY <1>3, <2>1, <3>1, <3>2
  <2>2. CASE Head(q).ct # "app"
    BY <1>2, <1>3, <1>4, <2>2 DEF Carries
  <2> QED
    BY <2>1, <2>2
<1>6. PICK e : Cutting(p, RespLen, e) /\ Shifted(p, q, 1, c, e)
  BY <1>2, <1>3, CutsOfRest
<1>7. Len(p) \in Nat /\ Len(q) \in Nat /\ Len(p) = Len(q) - 1
  BY <1>2 DEF Rest
<1>8. e[0] = c[1] /\ e[Len(p)] = c[Len(q)]
  BY <1>6, <1>7 DEF Shifted
<1>9. ReplyCuts(p, e, h, s)
  BY <1>3, <1>5, <1>6, <1>8 DEF ReplyCuts
<1> QED
  BY <1>9, ReplySplits

\* Before the first record of a reply all of it is still to be written.
LEMMA NothingSent ==
  ASSUME NEW q \in Seq(Record), \A i \in 1..Len(q) : q[i].ct # "app"
  PROVE  ReplySplit(q, <<>>, Units(RespLen))
<1>1. PICK c : c = [i \in 0..Len(q) |-> 0]
  OBVIOUS
<1>2. RespLen \in Nat /\ Len(q) \in Nat
  BY LengthsAssumption
<1>3. c[0] = 0 /\ c[Len(q)] = 0 /\ c \in [0..Len(q) -> 0..RespLen]
  BY <1>1, <1>2
<1>4. Cuts(q, c)
  BY <1>1, <1>2 DEF Cuts, Carries
<1>5. Units(0) = <<>> /\ Units(RespLen) = Run(0, RespLen)
  BY <1>2, UnitsAreRuns DEF Units
<1>6. ReplyCuts(q, c, <<>>, Units(RespLen))
  BY <1>3, <1>4, <1>5 DEF ReplyCuts, Cutting
<1> QED
  BY <1>6, ReplySplits

LEMMA StepReplyInv == Tls10Inv /\ [Next]_vars => ReplyInv'
<1> SUFFICES ASSUME Tls10Inv, [Next]_vars, request' # <<>>, ~strayed'
             PROVE  c2s' = <<>> /\ ReplySplit(s2c', got', resp')
  BY DEF ReplyInv
<1>1. /\ TypeOK /\ ServerInv /\ ClientInv /\ RequestInv /\ PendingInv /\ ScriptInv /\ ReplyInv /\ WriteInv
      /\ s2c \in Seq(Record) /\ c2s \in Seq(Record) /\ cReadSeq \in Nat
  BY DEF Tls10Inv, TypeOK
<1>2. CASE ServerStep
  <2>1. ~strayed /\ got' = got /\ sent' = sent /\ spc # "closed"
    BY <1>2, ServerKeepsClient, ServerRuns DEF history, client
  <2>2. CASE request' = request
    <3>1. c2s = <<>> /\ ReplySplit(s2c, got, resp) /\ spc = "reply"
      BY <1>1, <2>1, <2>2 DEF ReplyInv, RequestInv
    <3>2. CASE WriteReply
      <4>1. PICK r : Longer(s2c', s2c, r) /\ r.ct = "app" /\ r.body = Data(SubSeq(resp, 1, Chunk(Len(resp))))
        <5>1. ~SendFinished /\ ~ServerClear /\ ~ServerCcs
          BY <3>1 DEF SendFinished, ServerClear, ServerCcs, NoKeysYet
        <5>2. ~ServerSilent
          <6>1. writeSeq' = writeSeq + 1 /\ writeSeq \in Nat
            BY <1>1, <3>2, WriteReplyWrites DEF TypeOK
          <6> QED
            BY <6>1 DEF ServerSilent
        <5> QED
          BY <1>2, <5>1, <5>2, ServerMoves DEF ServerSealed
      <4>2. ReplySplit(s2c', got, resp')
        BY <1>1, <3>1, <3>2, <4>1, WriteReplyCuts
      <4> QED
        BY <2>1, <3>1, <3>2, <4>2 DEF WriteReply
    <3>3. CASE ~WriteReply
      <4>1. WriteFails
        BY <1>2, <3>1, <3>3 DEF ServerStep, ReadEOF, ReadClientHello, SendServerHello, SendCertificate,
           SendServerHelloDone, Flight, ReadKeyExchange, ReadChangeCipherSpec, ReadFinished,
           SendChangeCipherSpec, SendFinished, ReadApp
      <4> QED
        BY <2>1, <3>1, <4>1 DEF WriteFails, http
    <3> QED
      BY <3>2, <3>3
  <2>3. CASE request' # request
    <3>1. /\ ReadApp /\ spc' = "reply" /\ request = <<>> /\ resp' = Units(RespLen)
          /\ s2c' = s2c /\ Len(buf') = ReqLen
      BY <1>2, <2>3, Dispatch
    <3>2. RequestSplit(c2s', ReqLen, sent)
      BY <3>1, ReadAppCuts
    <3>3. c2s' \in Seq(Record) /\ Len(c2s') \in Nat
      BY <1>1, <3>1, Popped DEF ReadApp
    <3>4. \A i \in 1..Len(c2s') : c2s'[i].ct = "app"
      BY <3>1, StepScriptInv DEF ScriptInv, PastFinished
    <3>5. c2s' = <<>>
      <4>1. PICK e : RequestCuts(c2s', e, ReqLen, sent)
        BY <3>2, RequestSplits
      <4>2. CASE Len(c2s') # 0
        <5>1. 1 \in 1..Len(c2s') /\ 1 - 1 = 0
          BY <3>3, <4>2
        <5>2. e[1 - 1] < ReqLen /\ e[0] = ReqLen
          BY <3>4, <4>1, <5>1 DEF RequestCuts
        <5> QED
          BY <5>1, <5>2, LengthsAssumption
      <4>3. CASE Len(c2s') = 0
        BY <3>3, <4>3
      <4> QED
        BY <4>2, <4>3
    <3>6. got = <<>> /\ \A i \in 1..Len(s2c) : s2c[i].ct # "app"
      BY <1>1, <3>1 DEF PendingInv
    <3>7. ReplySplit(s2c, <<>>, Units(RespLen))
      BY <1>1, <3>6, NothingSent
    <3> QED
      BY <2>1, <3>1, <3>5, <3>6, <3>7
  <2> QED
    BY <2>2, <2>3
<1>3. CASE ClientStep \/ Strays
  <2>1. UNCHANGED <<request, resp, spc>>
    BY <1>3, ClientKeepsServer DEF server, http
  <2>2. ~strayed
    BY <1>1, <1>3, OnScript
  <2>3. c2s = <<>> /\ ReplySplit(s2c, got, resp)
    BY <1>1, <2>1, <2>2 DEF ReplyInv
  <2>4. sent = ReqLen /\ cpc \in {"request", "closed"}
    BY <1>1, <2>1 DEF RequestInv, RequestIntact
  <2>5. c2s' = <<>>
    <3>1. Rest(c2s', c2s, 0)
      BY <1>3, <2>4, OnlyRequest, LengthsAssumption DEF FinishedSent
    <3>2. c2s' \in Seq(Record) /\ Len(c2s') = 0
      BY <2>3, <3>1 DEF Rest
    <3> QED
      BY <3>2
  <2>6. CASE s2c' = s2c /\ got' = got
    BY <2>1, <2>3, <2>5, <2>6
  <2>7. CASE s2c # <<>> /\ s2c' = Tail(s2c) /\ ClientReads
    <3>1. ClientReadReply /\ cpc = "request"
      BY <2>4, <2>7 DEF ClientReads, ClientReadFlight, ClientReadChangeCipherSpec, ClientReadFinished, ClientReadReply
    <3>2. Head(s2c) = s2c[1] /\ 1 \in 1..Len(s2c)
      BY <1>1, <2>7, RestOfTail
    <3>3. ClientReadable(Head(s2c))
      <4>1. s2c[1].alt = "no"
        BY <1>1, <2>2, <3>2 DEF ScriptInv
      <4>2. NumberedFrom(s2c, KeyFor(cMaster, "s2c"), cReadSeq)
        BY <1>1, <3>1 DEF WriteInv, ClientInv
      <4>3. s2c[1].key = KeyFor(cMaster, "s2c") /\ s2c[1].seq = cReadSeq
        <5>1. Numbered(s2c, 1, KeyFor(cMaster, "s2c"), cReadSeq + 1 - 1) /\ cReadSeq + 1 - 1 = cReadSeq
          BY <1>1, <3>2, <4>2 DEF NumberedFrom
        <5> QED
          BY <5>1 DEF Numbered
      <4> QED
        BY <3>2, <4>1, <4>3 DEF ClientReadable, Readable, Opens
    <3>4. got' = IF Head(s2c).ct = "app" THEN got \o Head(s2c).body.s ELSE got
      BY <3>1, <3>3 DEF ClientReadReply
    <3>5. ReplySplit(s2c', got', resp)
      BY <1>1, <2>3, <2>7, <3>4, ReadReplyCuts
    <3> QED
      BY <2>1, <2>5, <3>5
  <2>8. CASE TcpReset
    BY <2>3, <2>8 DEF TcpReset
  <2> QED
    BY <1>1, <1>3, <2>6, <2>7, <2>8, OnScript
<1>4. CASE UNCHANGED vars
  <2>1. UNCHANGED <<request, strayed, c2s, s2c, got, resp>>
    BY <1>4 DEF vars, server, http, client, history
  <2> QED
    BY <1>1, <2>1 DEF ReplyInv
<1> QED
  BY <1>2, <1>3, <1>4 DEF Next

-----------------------------------------------------------------------------
(* The inductive invariant.                                                *)

LEMMA InitInv == Init => Tls10Inv
<1> SUFFICES ASSUME Init PROVE Tls10Inv
  OBVIOUS
<1>1. /\ spc = "hello" /\ cpc = "hello" /\ c2s = <<>> /\ s2c = <<>> /\ buf = <<>> /\ request = <<>>
      /\ got = <<>> /\ sent = 0
  BY DEF Init
<1>2. ~readActive /\ ~writeActive /\ ~cReadActive /\ ~cWriteActive
  BY Zenon DEF Init
<1>3. TypeOK
  BY InitTypes
<1>4. ServerInv /\ ClientInv
  BY <1>1, <1>2 DEF ServerInv, ClientInv, NoKeysYet, BeforeOurCcs, Fresh
<1>5. Len(c2s) = 0 /\ Len(s2c) = 0 /\ Len(buf) = 0
  BY <1>1
<1>6. ShapeInv /\ FinishedInv /\ ReadInv /\ WriteInv /\ ProtectInv /\ PendingInv /\ ScriptInv /\ ReplyInv
  BY <1>1, <1>2, <1>5 DEF ShapeInv, FinishedInv, ReadInv, WriteInv, ProtectInv, RepliesProtected,
     PendingInv, ScriptInv, ReplyInv, PastFinished
<1>7. RequestInv
  <2>1. PICK c : c = [i \in 0..0 |-> 0]
    OBVIOUS
  <2>2. c[0] = 0 /\ c \in [0..0 -> 0..ReqLen] /\ ReqLen \in Nat
    BY <2>1, LengthsAssumption
  <2>3. RequestCuts(<<>>, c, 0, 0)
    BY <2>1, <2>2 DEF RequestCuts, Cutting, Cuts
  <2>4. RequestSplit(c2s, Len(buf), sent)
    BY <1>1, <1>5, <2>3, RequestSplits
  <2>5. buf = Units(Len(buf))
    BY <1>1, <1>5 DEF Units
  <2> QED
    BY <1>1, <2>2, <2>4, <2>5 DEF RequestInv, RequestIntact
<1> QED
  BY <1>3, <1>4, <1>6, <1>7 DEF Tls10Inv

\* Tls10Inv is inductive: it holds when a connection is accepted, and every
\* step of the server, of the client, on the script or off it, and of the
\* network keeps it.
THEOREM Tls10Invariant == Spec => []Tls10Inv
<1>1. Init => Tls10Inv
  BY InitInv
<1>2. Tls10Inv /\ [Next]_vars => Tls10Inv'
  BY StepTypes, StepServerInv, StepClientInv, StepShapeInv, StepFinishedInv, StepReadInv, StepWriteInv,
     StepProtectInv, StepRequestInv, StepPendingInv, StepScriptInv, StepReplyInv
  DEF Tls10Inv
<1> QED
  BY <1>1, <1>2, PTL DEF Spec

\* Every variable keeps its type; in particular no step reads a field a record
\* of its kind does not have.
THEOREM Tls10TypeCorrect == Spec => []TypeOK
<1>1. Tls10Inv => TypeOK
  BY DEF Tls10Inv
<1> QED
  BY <1>1, Tls10Invariant, PTL

\* Once the server has accepted the client's Finished, both ends hold the same
\* master secret, made from the client's premaster and unaltered randoms, and
\* have seen the same messages (handshakeAndServe, decryptPremaster): for any
\* number of altered, stray and malformed records.
THEOREM FinishedMeansAgreement == Spec => []FinishedAgreement
<1>1. Tls10Inv => FinishedAgreement
  BY DEF Tls10Inv, FinishedInv, FinishedAgreement
<1> QED
  BY <1>1, Tls10Invariant, PTL

\* The next unaltered protected record always opens with the reader's key and
\* sequence number (decrypt, writeRecord): records of any number and kind may
\* have come before it.
THEOREM RecordLayersStayInStep == Spec => []RecordSync
<1>1. ASSUME Tls10Inv PROVE RecordSync
  <2>1. /\ TypeOK /\ ServerInv /\ ReadInv /\ WriteInv /\ readSeq \in Nat /\ cReadSeq \in Nat
        /\ c2s \in Seq(Record) /\ s2c \in Seq(Record)
    BY <1>1 DEF Tls10Inv, TypeOK
  <2>2. ASSUME NEW q \in Seq(Record), q # <<>>, NEW key, NEW n \in Nat, NumberedFrom(q, key, n)
        PROVE  Head(q).key = key /\ Head(q).seq = n
    <3>1. Head(q) = q[1] /\ 1 \in 1..Len(q)
      BY <2>2, RestOfTail
    <3>2. Numbered(q, 1, key, n + 1 - 1) /\ n + 1 - 1 = n
      BY <2>2, <3>1 DEF NumberedFrom
    <3> QED
      BY <3>1, <3>2 DEF Numbered
  <2>3. ASSUME readActive, spc # "closed", master = cMaster, c2s # <<>>, Head(c2s).alt = "no"
        PROVE  Opens(Head(c2s), readKey, readSeq)
    <3>1. NumberedFrom(c2s, KeyFor(cMaster, "c2s"), readSeq)
      BY <2>1, <2>3 DEF ReadInv
    <3>2. readKey = KeyFor(cMaster, "c2s")
      BY <2>1, <2>3 DEF ServerInv
    <3>3. Head(c2s).key = KeyFor(cMaster, "c2s") /\ Head(c2s).seq = readSeq
      BY <2>1, <2>2, <2>3, <3>1
    <3> QED
      BY <2>3, <3>2, <3>3 DEF Opens
  <2>4. ASSUME cReadActive, cpc # "closed", s2c # <<>>, Head(s2c).alt = "no"
        PROVE  ClientReadable(Head(s2c))
    <3>1. NumberedFrom(s2c, KeyFor(cMaster, "s2c"), cReadSeq)
      BY <2>1, <2>4 DEF WriteInv
    <3>2. Head(s2c).key = KeyFor(cMaster, "s2c") /\ Head(s2c).seq = cReadSeq
      BY <2>1, <2>2, <2>4, <3>1
    <3> QED
      BY <2>4, <3>2 DEF ClientReadable, Readable, Opens
  <2> QED
    BY <2>3, <2>4 DEF RecordSync
<1> QED
  BY <1>1, Tls10Invariant, PTL

\* Nothing is dispatched but the whole request of the client the handshake was
\* made with (serveHTTP, parseHTTPRequest), for any length of the request and
\* any way of cutting it into records.
THEOREM RequestsArriveIntact == Spec => []RequestIntact
<1>1. Tls10Inv => RequestIntact
  BY DEF Tls10Inv, RequestInv
<1> QED
  BY <1>1, Tls10Invariant, PTL

\* Neither the server's Finished nor a reply leaves in the clear, and no
\* sequence number is used twice (writeRecord, handshakeAndServe).
THEOREM NothingLeavesUnprotected == Spec => []RepliesProtected
<1>1. Tls10Inv => RepliesProtected
  BY DEF Tls10Inv, ProtectInv
<1> QED
  BY <1>1, Tls10Invariant, PTL

-----------------------------------------------------------------------------
(* The reply in flight.                                                    *)

LEMMA LeastNumber ==
  ASSUME NEW S \in SUBSET Nat, S # {}
  PROVE  \E n \in S : \A m \in S : n <= m
<1> DEFINE R == {ss \in Nat \X Nat : ss[1] < ss[2]}
<1>1. IsWellFoundedOn(R, Nat)
  BY NatLessThanWellFounded DEF OpToRel
<1> HIDE DEF R
<1>2. PICK x \in S : \A y \in S : ~(<<y, x>> \in R)
  BY <1>1, WFMin
<1>3. \A y \in S : ~(y < x)
  BY <1>2 DEF R
<1> QED
  BY <1>3

\* What record i adds to InFlight.
Piece(q, i) == IF q[i].ct = "app" THEN q[i].body.s ELSE <<>>

\* A function that satisfies the recursion of InFlight is the one it denotes.
LEMMA InFlightIs ==
  ASSUME NEW q, Len(q) \in Nat, NEW f,
         f = [i \in 0..Len(q) |-> IF i = 0 THEN <<>> ELSE f[i - 1] \o Piece(q, i)]
  PROVE  InFlight(q) = f[Len(q)]
<1> DEFINE F(h) == [i \in 0..Len(q) |-> IF i = 0 THEN <<>> ELSE h[i - 1] \o Piece(q, i)]
           g == CHOOSE h : h = F(h)
<1>1. f = F(f)
  OBVIOUS
<1>2. g = F(g)
  <2> HIDE DEF F
  <2> QED
    BY <1>1
<1>3. InFlight(q) = g[Len(q)]
  BY Zenon DEF InFlight, Piece
<1> HIDE DEF g
<1>4. \A i \in 0..Len(q) : g[i] = f[i]
  <2> DEFINE S == {i \in 0..Len(q) : g[i] # f[i]}
  <2> SUFFICES ASSUME S # {} PROVE FALSE
    OBVIOUS
  <2>1. S \in SUBSET Nat
    OBVIOUS
  <2>2. PICK n \in S : \A m \in S : n <= m
    <3> HIDE DEF S
    <3> QED
      BY <2>1, LeastNumber
  <2>3. n # 0
    BY <1>1, <1>2
  <2>4. n - 1 \in 0..Len(q) /\ g[n - 1] = f[n - 1]
    <3>1. n \in 0..Len(q)
      OBVIOUS
    <3>2. n - 1 \in 0..Len(q) /\ ~(n <= n - 1)
      BY <2>3, <3>1
    <3>3. n - 1 \notin S
      BY <2>2, <3>2
    <3> QED
      BY <3>2, <3>3
  <2> QED
    BY <1>1, <1>2, <2>3, <2>4
<1> QED
  BY <1>3, <1>4

\* A cut never goes back.
LEMMA CutsAscend ==
  ASSUME NEW q, Len(q) \in Nat, NEW N \in Nat, NEW c, Cutting(q, N, c), NEW k \in 0..Len(q)
  PROVE  c[0] <= c[k]
<1>1. \A i \in 0..Len(q) : c[i] \in Nat
  BY DEF Cutting
<1>2. \A i \in 1..Len(q) : c[i - 1] <= c[i]
  BY DEF Cutting, Cuts, Carries
<1> DEFINE S == {i \in 0..Len(q) : ~(c[0] <= c[i])}
<1> SUFFICES ASSUME S # {} PROVE FALSE
  OBVIOUS
<1>3. S \in SUBSET Nat
  OBVIOUS
<1>4. PICK n \in S : \A m \in S : n <= m
  <2> HIDE DEF S
  <2> QED
    BY <1>3, LeastNumber
<1>5. n \in 0..Len(q) /\ ~(c[0] <= c[n])
  OBVIOUS
<1>6. n # 0
  BY <1>1, <1>5
<1>7. n - 1 \in 0..Len(q) /\ n \in 1..Len(q) /\ n - 1 \notin S
  BY <1>4, <1>5, <1>6
<1>8. c[0] <= c[n - 1] /\ c[n - 1] <= c[n] /\ c[0] \in Nat /\ c[n - 1] \in Nat /\ c[n] \in Nat
  BY <1>1, <1>2, <1>7
<1> QED
  BY <1>5, <1>8

\* The records of q, joined, are the units from the first cut to the last.
LEMMA InFlightIsRun ==
  ASSUME NEW q, Len(q) \in Nat, NEW N \in Nat, NEW c, Cutting(q, N, c)
  PROVE  InFlight(q) = Run(c[0], c[Len(q)])
<1>1. PICK f : f = [i \in 0..Len(q) |-> Run(c[0], c[i])]
  OBVIOUS
<1>2. \A i \in 0..Len(q) : c[i] \in Nat
  BY DEF Cutting
<1>3. ASSUME NEW i \in 0..Len(q)
      PROVE  f[i] = IF i = 0 THEN <<>> ELSE f[i - 1] \o Piece(q, i)
  <2>1. CASE i = 0
    <3>1. Run(c[0], c[0]) = <<>>
      <4>1. c[0] \in Nat /\ c[0] <= c[0] /\ c[0] - c[0] = 0
        BY <1>2
      <4>2. Run(c[0], c[0]) \in Seq(Nat) /\ Len(Run(c[0], c[0])) = 0
        BY <4>1, RunsAreSeq
      <4> QED
        BY <4>2
    <3> QED
      BY <1>1, <2>1, <3>1
  <2>2. CASE i # 0
    <3>1. i - 1 \in 0..Len(q) /\ i \in 1..Len(q)
      BY <2>2
    <3>2. PICK a \in Nat, b \in Nat, d \in Nat : a = c[0] /\ b = c[i - 1] /\ d = c[i]
      BY <1>2, <3>1
    <3>3. a <= b /\ Carries(q[i], b, d)
      BY <3>1, <3>2, CutsAscend DEF Cutting, Cuts
    <3>4. Run(a, b) \o Piece(q, i) = Run(a, d)
      <4>1. CASE q[i].ct = "app"
        <5>1. Piece(q, i) = Run(b, d) /\ b <= d
          BY <3>3, <4>1 DEF Piece, Carries
        <5>2. Run(a, b) \o Run(b, d) = Run(a, d)
          BY <3>3, <5>1, RunsJoin
        <5> QED
          BY <5>1, <5>2
      <4>2. CASE q[i].ct # "app"
        <5>1. Piece(q, i) = <<>> /\ b = d
          BY <3>3, <4>2 DEF Piece, Carries
        <5>2. Run(a, b) \in Seq(Nat)
          BY <3>3, RunsAreSeq
        <5>3. Run(a, b) \o <<>> = Run(a, b)
          BY <5>2
        <5> QED
          BY <5>1, <5>3
      <4> QED
        BY <4>1, <4>2
    <3>5. f[i] = Run(a, d) /\ f[i - 1] = Run(a, b)
      BY <1>1, <3>1, <3>2
    <3> QED
      BY <2>2, <3>4, <3>5
  <2> QED
    BY <2>1, <2>2
<1>4. f = [i \in 0..Len(q) |-> IF i = 0 THEN <<>> ELSE f[i - 1] \o Piece(q, i)]
  BY <1>1, <1>3
<1>5. InFlight(q) = f[Len(q)]
  BY <1>4, InFlightIs
<1> QED
  BY <1>1, <1>5

\* The reply is conserved: what the client has read, what is on the way and
\* what is still to be written make up the reply exactly, in records of one to
\* MaxPlain units (the splitting loop of serveHTTP), for any length of the
\* reply and any maxPlaintext.
THEOREM RepliesArriveIntact == Spec => []ReplyIntact
<1>1. ASSUME Tls10Inv PROVE ReplyIntact
  <2>1. \A i \in 1..Len(s2c) : s2c[i].ct = "app" => Len(s2c[i].body.s) \in 1..MaxPlain
    BY <1>1 DEF Tls10Inv, ShapeInv
  <2>2. ASSUME request # <<>>, ~strayed PROVE got \o InFlight(s2c) \o resp = Units(RespLen)
    <3>1. ReplySplit(s2c, got, resp) /\ Len(s2c) \in Nat /\ RespLen \in Nat
      BY <1>1, <2>2, LengthsAssumption DEF Tls10Inv, TypeOK, ReplyInv
    <3>2. PICK c : ReplyCuts(s2c, c, got, resp)
      BY <3>1, ReplySplits
    <3>3. Cutting(s2c, RespLen, c) /\ got = Units(c[0]) /\ resp = Run(c[Len(s2c)], RespLen)
      BY <3>2 DEF ReplyCuts
    <3>4. PICK a \in Nat, b \in Nat : a = c[0] /\ b = c[Len(s2c)] /\ a <= b /\ b <= RespLen
      <4>1. c[0] <= c[Len(s2c)]
        BY <3>1, <3>3, CutsAscend
      <4> QED
        BY <3>1, <3>3, <4>1 DEF Cutting
    <3>5. InFlight(s2c) = Run(a, b)
      BY <3>1, <3>3, <3>4, InFlightIsRun
    <3>6. Units(a) \o Run(a, b) = Units(b) /\ Units(b) \o Run(b, RespLen) = Units(RespLen)
      BY <3>1, <3>4, RunExtends
    <3> QED
      BY <3>3, <3>4, <3>5, <3>6
  <2> QED
    BY <2>1, <2>2 DEF ReplyIntact
<1> QED
  BY <1>1, Tls10Invariant, PTL
=============================================================================
