--------------------------- MODULE RegionHintsProofs ---------------------------
(***************************************************************************)
(* Proofs about RegionHints, for every set of clients, regions, questions  *)
(* and every bound.  The inductive invariant says, besides the properties  *)
(* themselves, that everything in flight refers to a lookup that was made, *)
(* that a goroutine about to note a region has answered a redirected DNAS  *)
(* name, and that a client whose lookups do not overlap has at most one    *)
(* datagram or goroutine, which belongs to its last lookup.                *)
(***************************************************************************)
EXTENDS RegionHints, TLAPS

\* Everything in flight belongs to a lookup that was made.
KnownLookups ==
  /\ \A q \in queries : q.k \in 1..Len(asked[q.client])
  /\ \A h \in handlers : h.k \in 1..Len(asked[h.client])
  /\ \A a \in answers : a.k \in 1..Len(asked[a.client])
  /\ \A x \in conns : x.k \in 1..Len(asked[x.client])
  /\ \A c \in Clients : phase[c] # "idle" => Len(asked[c]) \in 1..Len(asked[c])

\* Where a goroutine stands tells what it has answered.
HandlerPosition ==
  \A h \in handlers :
    /\ h.pc = "note" => Notes(h.client, h.k) /\ [client |-> h.client, k |-> h.k] \in answers
    /\ h.pc = "forward" => Question(h.client, h.k) \notin Redirected

\* main leaves a default certificate that was loaded.
DefaultLoaded == defaultRegion \in certs

\* The invariant behind HintProvenance and CertIsLoaded.
SafetyInv ==
  TypeOK /\ KnownLookups /\ HandlerPosition /\ HintProvenance /\ DefaultLoaded /\ CertIsLoaded

\* A client has at most one datagram or goroutine, that of its last lookup.
Alone(c) ==
  /\ \A q1, q2 \in LiveQueries(c) : q1 = q2
  /\ \A h1, h2 \in LiveHandlers(c) : h1 = h2
  /\ LiveQueries(c) = {} \/ LiveHandlers(c) = {}
  /\ \A q \in LiveQueries(c) : q.k = Len(asked[c])
  /\ \A h \in LiveHandlers(c) : h.k = Len(asked[c])

\* An answered last lookup has left its hint, or its goroutine is about to.
CaughtUp(c) ==
  ([client |-> c, k |-> Len(asked[c])] \in answers /\ Notes(c, Len(asked[c])))
  => \/ hints[c] = [region |-> Region(c, Len(asked[c])), k |-> Len(asked[c])]
     \/ \E h \in LiveHandlers(c) : h.pc = "note"

SerialClients == \A c \in Clients : ~overlapped[c] => Alone(c) /\ CaughtUp(c)

\* A client told by the redirector has an answer to its last lookup.
ResolvedAnswered ==
  \A c \in Clients : (dnsOn /\ phase[c] = "resolved")
    => [client |-> c, k |-> Len(asked[c])] \in answers

SerialInv == SafetyInv /\ SerialClients /\ ResolvedAnswered

-----------------------------------------------------------------------------
(* Type correctness.                                                       *)

\* Every step of the redirector, the clients and the TLS side keeps the types.
LEMMA TypeStep == TypeOK /\ KnownLookups /\ [Next]_vars => TypeOK'
<1> SUFFICES ASSUME TypeOK, KnownLookups, [Next]_vars PROVE TypeOK'
  OBVIOUS
<1> USE RegionsAssumption, QuestionsAssumption DEF TypeOK, Phases, HandlerPcs
<1>1. ASSUME NEW c \in Clients, NEW q \in Questions, Lookup(c, q) PROVE TypeOK'
  <2> USE <1>1 DEF Lookup, SendQuery, server
  <2>1. Len(asked[c]) \in Nat /\ Append(asked[c], q) \in Seq(Questions)
    OBVIOUS
  <2>2. asked' \in [Clients -> Seq(Questions)]
    BY <2>1
  <2>3. queries' \subseteq [client : Clients, k : Nat, try : Nat]
    BY <2>1
  <2>4. overlapped' \in [Clients -> BOOLEAN]
    BY Zenon DEF LiveQueries, LiveHandlers
  <2>5. phase' \in [Clients -> Phases] /\ tries' \in [Clients -> Nat]
    OBVIOUS
  <2> QED
    BY <2>2, <2>3, <2>4, <2>5
<1>2. ASSUME NEW c \in Clients, Retry(c) PROVE TypeOK'
  BY <1>2 DEF Retry, SendQuery, LiveQueries, LiveHandlers, server
<1>3. ASSUME NEW c \in Clients, Resolve(c) PROVE TypeOK'
  BY <1>3 DEF Resolve, server
<1>4. ASSUME NEW c \in Clients, Accept(c) PROVE TypeOK'
  <2> USE <1>4 DEF Accept, server
  <2>1. conns' \subseteq [client : Clients, k : Nat, cert : Regions \cup {NoRegion}]
    OBVIOUS
  <2>2. phase' \in [Clients -> Phases]
    OBVIOUS
  <2> QED
    BY <2>1, <2>2
<1>5. ASSUME NEW q \in queries, Lose(q) PROVE TypeOK'
  BY <1>5 DEF Lose, server, console
<1>6. ASSUME NEW q \in queries, Receive(q) PROVE TypeOK'
  <2>1. handlers' \subseteq [client : Clients, k : Nat, try : Nat, pc : HandlerPcs]
    BY <1>6 DEF Receive
  <2> QED
    BY <1>6, <2>1 DEF Receive, server, console
<1>7. ASSUME NEW h \in handlers, Answer(h) PROVE TypeOK'
  <2>1. At(h, "note") \subseteq [client : Clients, k : Nat, try : Nat, pc : HandlerPcs]
    BY DEF At
  <2>2. handlers' \subseteq [client : Clients, k : Nat, try : Nat, pc : HandlerPcs]
    BY <1>7, <2>1 DEF Answer
  <2>3. answers' \subseteq [client : Clients, k : Nat]
    BY <1>7 DEF Answer, Answered
  <2> QED
    BY <1>7, <2>2, <2>3 DEF Answer, server, console
<1>8. ASSUME NEW h \in handlers, NoteRegion(h) PROVE TypeOK'
  <2>1. Region(h.client, h.k) \in Regions \cup {NoRegion}
    BY DEF KnownLookups, Region, Question
  <2>2. hints' \in [Clients -> [region : Regions \cup {NoRegion}, k : Nat]]
    BY <1>8, <2>1 DEF NoteRegion
  <2> QED
    BY <1>8, <2>2 DEF NoteRegion, server, console
<1>9. ASSUME NEW h \in handlers, Forward(h) PROVE TypeOK'
  BY <1>9 DEF Forward, At, server, console
<1>10. ASSUME NEW h \in handlers, UpstreamReply(h) PROVE TypeOK'
  BY <1>10 DEF UpstreamReply, Answered, server, console
<1>11. ASSUME NEW h \in handlers, ForwardFails(h) PROVE TypeOK'
  BY <1>11 DEF ForwardFails, server, console
<1>12. ASSUME NEW x \in conns, CertFor(x) PROVE TypeOK'
  BY <1>12 DEF CertFor, CertOf, server, console
<1>13. CASE UNCHANGED vars
  BY <1>13 DEF vars, server, console
<1> QED
  BY <1>1, <1>2, <1>3, <1>4, <1>5, <1>6, <1>7, <1>8, <1>9, <1>10, <1>11, <1>12, <1>13
     DEF Next, ClientStep, DnsStep, TlsStep

-----------------------------------------------------------------------------
(* Hints and certificates.                                                 *)

\* A lookup once made keeps its question: clients only add to what they asked.
LEMMA AskedGrows ==
  ASSUME TypeOK, [Next]_vars, NEW c \in Clients, NEW k \in 1..Len(asked[c])
  PROVE  /\ k \in 1..Len(asked'[c])
         /\ Question(c, k)' = Question(c, k)
         /\ Region(c, k)' = Region(c, k)
         /\ Notes(c, k)' <=> Notes(c, k)
<1>1. k \in 1..Len(asked'[c]) /\ asked'[c][k] = asked[c][k]
  <2>1. ASSUME NEW d \in Clients, NEW q \in Questions, Lookup(d, q)
        PROVE  k \in 1..Len(asked'[c]) /\ asked'[c][k] = asked[c][k]
    <3>1. asked[c] \in Seq(Questions)
      BY DEF TypeOK
    <3>2. CASE c = d
      <4>1. asked'[c] = Append(asked[c], q)
        BY <2>1, <3>2 DEF Lookup, TypeOK
      <4> QED
        BY <3>1, <4>1
    <3>3. CASE c # d
      <4>1. asked'[c] = asked[c]
        BY <2>1, <3>3 DEF Lookup, TypeOK
      <4> QED
        BY <4>1
    <3> QED
      BY <3>2, <3>3
  <2>2. asked' = asked => k \in 1..Len(asked'[c]) /\ asked'[c][k] = asked[c][k]
    OBVIOUS
  <2>3. (\E d \in Clients, q \in Questions : Lookup(d, q)) \/ asked' = asked
    BY DEF Next, ClientStep, DnsStep, TlsStep, vars, console, Retry, Resolve, Accept,
           Lose, Receive, Answer, NoteRegion, Forward, UpstreamReply, ForwardFails, CertFor
  <2> QED
    BY <2>1, <2>2, <2>3
<1>2. Question(c, k)' = Question(c, k)
  BY <1>1 DEF Question
<1>3. Region(c, k)' = Region(c, k)
  BY <1>2 DEF Region
<1>4. Notes(c, k)' <=> Notes(c, k)
  BY <1>2, <1>3 DEF Notes
<1> QED
  BY <1>1, <1>2, <1>3, <1>4

\* The configuration that main set up never changes.
LEMMA ServerFixed ==
  [Next]_vars => certs' = certs /\ defaultRegion' = defaultRegion /\ dnsOn' = dnsOn
BY DEF Next, ClientStep, DnsStep, TlsStep, vars, server, Lookup, Retry, Resolve, Accept,
       Lose, Receive, Answer, NoteRegion, Forward, UpstreamReply, ForwardFails, CertFor

\* No answer is ever taken back.
LEMMA AnswersGrow == [Next]_vars => answers \subseteq answers'
BY DEF Next, ClientStep, DnsStep, TlsStep, vars, Lookup, Retry, Resolve, Accept, Lose, Receive,
       Answer, NoteRegion, Forward, UpstreamReply, ForwardFails, CertFor, Answered

\* The part of SafetyInv about what is in flight.
LEMMA FlightStep ==
  TypeOK /\ KnownLookups /\ HandlerPosition /\ [Next]_vars => KnownLookups' /\ HandlerPosition'
<1> SUFFICES ASSUME TypeOK, KnownLookups, HandlerPosition, [Next]_vars
             PROVE  KnownLookups' /\ HandlerPosition'
  OBVIOUS
<1> DEFINE Made(S) == \A y \in S : y.client \in Clients /\ y.k \in 1..Len(asked'[y.client])
           Placed(h) == /\ h.client \in Clients /\ h.k \in 1..Len(asked'[h.client])
                        /\ h.pc = "note" => Notes(h.client, h.k)' /\ [client |-> h.client, k |-> h.k] \in answers'
                        /\ h.pc = "forward" => Question(h.client, h.k)' \notin Redirected
           Begun == \A c \in Clients : phase'[c] # "idle" => Len(asked'[c]) \in 1..Len(asked'[c])
           Goal == /\ Made(queries') /\ Made(answers') /\ Made(conns')
                   /\ \A h \in handlers' : Placed(h)
                   /\ Begun
<1>1. Made(queries) /\ Made(answers) /\ Made(conns) /\ \A h \in handlers : Placed(h)
  <2>1. Made(queries) /\ Made(answers) /\ Made(conns) /\ Made(handlers)
    BY AskedGrows DEF KnownLookups, TypeOK
  <2>2. ASSUME NEW h \in handlers PROVE Placed(h)
    <3>1. h.client \in Clients /\ h.k \in 1..Len(asked[h.client])
      BY DEF KnownLookups, TypeOK
    <3> QED
      BY <2>1, <3>1, AskedGrows, AnswersGrow DEF HandlerPosition
  <2> QED
    BY <2>1, <2>2
<1>2. \A c \in Clients : phase[c] # "idle" => Len(asked'[c]) \in 1..Len(asked'[c])
  <2> SUFFICES ASSUME NEW c \in Clients, phase[c] # "idle" PROVE Len(asked'[c]) \in 1..Len(asked'[c])
    OBVIOUS
  <2>1. Len(asked[c]) \in 1..Len(asked[c])
    BY DEF KnownLookups
  <2>2. Len(asked[c]) \in 1..Len(asked'[c]) /\ asked' \in [Clients -> Seq(Questions)]
    BY <2>1, AskedGrows, TypeStep DEF TypeOK
  <2> QED
    BY <2>2
<1> SUFFICES Goal
  BY DEF KnownLookups, HandlerPosition
<1>3. ASSUME NEW c \in Clients, NEW q \in Questions, Lookup(c, q) PROVE Goal
  <2>1. /\ Len(asked[c]) \in Nat
        /\ asked'[c] = Append(asked[c], q)
        /\ Len(asked'[c]) = Len(asked[c]) + 1
    BY <1>3 DEF Lookup, TypeOK
  <2>2. Made(queries')
    BY <1>1, <1>3, <2>1 DEF Lookup, SendQuery
  <2>3. Begun
    BY <1>2, <1>3, <2>1 DEF Lookup, TypeOK
  <2> QED
    BY <1>1, <1>3, <2>2, <2>3 DEF Lookup
<1>4. ASSUME NEW c \in Clients, Retry(c) PROVE Goal
  <2>1. Len(asked[c]) \in 1..Len(asked'[c])
    BY <1>4 DEF Retry, KnownLookups
  <2>2. Made(queries')
    BY <1>1, <1>4, <2>1 DEF Retry, SendQuery
  <2> QED
    BY <1>1, <1>2, <1>4, <2>2 DEF Retry
<1>5. ASSUME NEW c \in Clients, Resolve(c) PROVE Goal
  <2>1. Begun
    BY <1>2, <1>5 DEF Resolve, TypeOK
  <2> QED
    BY <1>1, <1>5, <2>1 DEF Resolve
<1>6. ASSUME NEW c \in Clients, Accept(c) PROVE Goal
  <2>1. Len(asked[c]) \in 1..Len(asked'[c])
    BY <1>6 DEF Accept, KnownLookups
  <2>2. Made(conns')
    BY <1>1, <1>6, <2>1 DEF Accept
  <2>3. Begun
    BY <1>2, <1>6 DEF Accept, TypeOK
  <2> QED
    BY <1>1, <1>6, <2>2, <2>3 DEF Accept
<1>7. ASSUME NEW q \in queries, Lose(q) PROVE Goal
  BY <1>1, <1>2, <1>7 DEF Lose, console
<1>8. ASSUME NEW q \in queries, Receive(q) PROVE Goal
  <2> DEFINE new == [client |-> q.client, k |-> q.k, try |-> q.try, pc |-> "parse"]
  <2>1. Placed(new)
    BY <1>1
  <2>2. \A h \in handlers' : h \in handlers \/ h = new
    BY <1>8 DEF Receive
  <2>3. \A h \in handlers' : Placed(h)
    BY <1>1, <2>1, <2>2
  <2> QED
    BY <1>1, <1>2, <1>8, <2>3 DEF Receive, console
<1>9. ASSUME NEW h \in handlers, Answer(h) PROVE Goal
  <2> DEFINE noter == [h EXCEPT !.pc = "note"]
             answer == [client |-> h.client, k |-> h.k]
  <2>0. /\ h.client \in Clients /\ h.k \in 1..Len(asked[h.client]) /\ h.k \in 1..Len(asked'[h.client])
        /\ noter.client = h.client /\ noter.k = h.k /\ noter.pc = "note"
    BY <1>1 DEF KnownLookups, TypeOK
  <2>1. answers' = answers \cup {answer}
    BY <1>9 DEF Answer, Answered
  <2>2. Made(answers')
    BY <1>1, <2>0, <2>1
  <2>3. Notes(h.client, h.k) => Placed(noter)
    BY <2>0, <2>1, AskedGrows
  <2>4. \A g \in handlers' : g \in handlers \/ (g = noter /\ Notes(h.client, h.k))
    BY <1>9 DEF Answer, At
  <2>5. \A g \in handlers' : Placed(g)
    BY <1>1, <2>3, <2>4
  <2> QED
    BY <1>1, <1>2, <1>9, <2>2, <2>5 DEF Answer, console
<1>10. ASSUME NEW h \in handlers, NoteRegion(h) PROVE Goal
  BY <1>1, <1>2, <1>10 DEF NoteRegion, console
<1>11. ASSUME NEW h \in handlers, Forward(h) PROVE Goal
  <2> DEFINE waiter == [h EXCEPT !.pc = "forward"]
  <2>0. /\ h.client \in Clients /\ h.k \in 1..Len(asked[h.client]) /\ h.k \in 1..Len(asked'[h.client])
        /\ waiter.client = h.client /\ waiter.k = h.k /\ waiter.pc = "forward"
    BY <1>1 DEF KnownLookups, TypeOK
  <2>1. Question(h.client, h.k)' \notin Redirected
    BY <1>11, <2>0, AskedGrows DEF Forward
  <2>2. Placed(waiter)
    BY <2>0, <2>1
  <2>3. \A g \in handlers' : g \in handlers \/ g = waiter
    BY <1>11 DEF Forward, At
  <2>4. \A g \in handlers' : Placed(g)
    BY <1>1, <2>2, <2>3
  <2> QED
    BY <1>1, <1>2, <1>11, <2>4 DEF Forward, console
<1>12. ASSUME NEW h \in handlers, UpstreamReply(h) PROVE Goal
  <2>1. Made(answers')
    BY <1>1, <1>12 DEF UpstreamReply, Answered
  <2> QED
    BY <1>1, <1>2, <1>12, <2>1 DEF UpstreamReply, console
<1>13. ASSUME NEW h \in handlers, ForwardFails(h) PROVE Goal
  BY <1>1, <1>2, <1>13 DEF ForwardFails, console
<1>14. ASSUME NEW x \in conns, CertFor(x) PROVE Goal
  <2>1. Made(conns')
    BY <1>1, <1>14 DEF CertFor, TypeOK
  <2> QED
    BY <1>1, <1>2, <1>14, <2>1 DEF CertFor, console
<1>15. CASE UNCHANGED vars
  BY <1>1, <1>2, <1>15 DEF vars, console
<1> QED
  BY <1>3, <1>4, <1>5, <1>6, <1>7, <1>8, <1>9, <1>10, <1>11, <1>12, <1>13, <1>14, <1>15
     DEF Next, ClientStep, DnsStep, TlsStep

\* Where a hint can come from: a NoteRegion step of the client's own goroutine.
LEMMA HintStep == SafetyInv /\ [Next]_vars => HintProvenance'
<1> SUFFICES ASSUME SafetyInv, [Next]_vars, NEW c \in Clients, hints'[c] # NoHint
             PROVE  /\ hints'[c].k \in 1..Len(asked'[c])
                    /\ Notes(c, hints[c].k)'
                    /\ hints'[c].region = Region(c, hints[c].k)'
                    /\ [client |-> c, k |-> hints'[c].k] \in answers'
  BY DEF HintProvenance, NoHint
<1>1. CASE hints'[c] = hints[c]
  <2>1. /\ hints[c].k \in 1..Len(asked[c]) /\ Notes(c, hints[c].k)
        /\ hints[c].region = Region(c, hints[c].k)
        /\ [client |-> c, k |-> hints[c].k] \in answers
    BY <1>1 DEF SafetyInv, HintProvenance
  <2>2. PICK k \in 1..Len(asked[c]) : k = hints[c].k
    BY <2>1
  <2>3. /\ k \in 1..Len(asked'[c]) /\ Notes(c, k)' /\ Region(c, k)' = Region(c, k)
        /\ [client |-> c, k |-> k] \in answers'
    BY <2>1, <2>2, AskedGrows, AnswersGrow DEF SafetyInv
  <2>4. hints'[c].k = k
    BY <1>1, <2>2
  <2>5. Notes(c, hints[c].k)' /\ Region(c, hints[c].k)' = Region(c, k)'
    BY <2>3, <2>4 DEF Notes, Region, Question
  <2> QED
    BY <1>1, <2>1, <2>2, <2>3, <2>4, <2>5
<1>2. ASSUME NEW h \in handlers, NoteRegion(h), hints'[c] # hints[c]
      PROVE  /\ hints'[c].k \in 1..Len(asked'[c])
             /\ Notes(c, hints[c].k)'
             /\ hints'[c].region = Region(c, hints[c].k)'
             /\ [client |-> c, k |-> hints'[c].k] \in answers'
  <2>1. h.client = c /\ hints'[c] = [region |-> Region(c, h.k), k |-> h.k]
    BY <1>2 DEF NoteRegion, SafetyInv, TypeOK
  <2>2. /\ h.k \in 1..Len(asked[c]) /\ Notes(c, h.k)
        /\ [client |-> c, k |-> h.k] \in answers
    BY <1>2, <2>1 DEF NoteRegion, SafetyInv, KnownLookups, HandlerPosition
  <2>3. asked' = asked /\ answers' = answers
    BY <1>2 DEF NoteRegion, console
  <2> QED
    BY <2>1, <2>2, <2>3 DEF Notes, Region, Question
<1>3. (\E h \in handlers : NoteRegion(h)) \/ hints' = hints
  BY DEF Next, ClientStep, DnsStep, TlsStep, vars, Lookup, Retry, Resolve, Accept,
         Lose, Receive, Answer, Forward, UpstreamReply, ForwardFails, CertFor
<1> QED
  BY <1>1, <1>2, <1>3

\* certFor falls back on the default, which is loaded.
LEMMA CertStep == SafetyInv /\ [Next]_vars => DefaultLoaded' /\ CertIsLoaded'
<1> SUFFICES ASSUME SafetyInv, [Next]_vars PROVE DefaultLoaded' /\ CertIsLoaded'
  OBVIOUS
<1>1. certs' = certs /\ defaultRegion' = defaultRegion
  BY ServerFixed
<1>2. ASSUME NEW x \in conns, CertFor(x) PROVE CertIsLoaded'
  <2>1. CertOf(hints[x.client]) \in certs
    BY DEF CertOf, SafetyInv, DefaultLoaded
  <2>2. [x EXCEPT !.cert = CertOf(hints[x.client])].cert = CertOf(hints[x.client])
    BY DEF SafetyInv, TypeOK
  <2> QED
    BY <1>1, <1>2, <2>1, <2>2 DEF CertFor, CertIsLoaded, SafetyInv
<1>3. ASSUME NEW c \in Clients, Accept(c) PROVE CertIsLoaded'
  BY <1>1, <1>3 DEF Accept, CertIsLoaded, SafetyInv
<1>4. conns' = conns => CertIsLoaded'
  BY <1>1 DEF CertIsLoaded, SafetyInv
<1>5. \/ \E x \in conns : CertFor(x)
      \/ \E c \in Clients : Accept(c)
      \/ conns' = conns
  BY DEF Next, ClientStep, DnsStep, TlsStep, vars, Lookup, Retry, Resolve,
         Lose, Receive, Answer, NoteRegion, Forward, UpstreamReply, ForwardFails
<1> QED
  BY <1>1, <1>2, <1>3, <1>4, <1>5 DEF DefaultLoaded, SafetyInv

\* What main leaves behind, with an empty hint table.
LEMMA SafetyInit == Init => SafetyInv
<1> SUFFICES ASSUME Init PROVE SafetyInv
  OBVIOUS
<1>1. DefaultLoaded
  BY DEF Init, DefaultsFor, DefaultLoaded
<1>2. TypeOK
  BY <1>1, RegionsAssumption DEF Init, TypeOK, DefaultLoaded, NoHint, Phases
<1> QED
  BY <1>1, <1>2 DEF Init, SafetyInv, KnownLookups, HandlerPosition, HintProvenance, CertIsLoaded

\* The invariant is kept by every step.
LEMMA SafetyStep == SafetyInv /\ [Next]_vars => SafetyInv'
BY TypeStep, FlightStep, HintStep, CertStep DEF SafetyInv

THEOREM SafetyHolds == Spec => []SafetyInv
BY SafetyInit, SafetyStep, PTL DEF Spec

\* Type correctness of the whole selection.
THEOREM TypeCorrect == Spec => []TypeOK
<1>1. SafetyInv => TypeOK
  BY DEF SafetyInv
<1> QED
  BY <1>1, SafetyHolds, PTL

\* Every hint goes back to a redirected, answered DNAS lookup of the same
\* client: goroutines of different clients never mix up the table.
THEOREM HintsHaveProvenance == Spec => []HintProvenance
<1>1. SafetyInv => HintProvenance
  BY DEF SafetyInv
<1> QED
  BY <1>1, SafetyHolds, PTL

\* certFor always returns a loaded certificate.
THEOREM CertsAreLoaded == Spec => []CertIsLoaded
<1>1. SafetyInv => CertIsLoaded
  BY DEF SafetyInv
<1> QED
  BY <1>1, SafetyHolds, PTL

-----------------------------------------------------------------------------
(* Serial lookups.                                                         *)

\* A query sent while another one is live marks the client.
LEMMA SendMarks ==
  ASSUME TypeOK, NEW c \in Clients, NEW k, NEW t, SendQuery(c, k, t)
  PROVE  /\ queries' = queries \cup {[client |-> c, k |-> k, try |-> t]}
         /\ ~overlapped'[c] => ~overlapped[c] /\ LiveQueries(c) = {} /\ LiveHandlers(c) = {}
         /\ \A d \in Clients \ {c} : overlapped'[d] = overlapped[d]
<1>1. overlapped'[c] = (overlapped[c] \/ LiveQueries(c) # {} \/ LiveHandlers(c) # {})
  BY DEF SendQuery, TypeOK
<1>2. \A d \in Clients \ {c} : overlapped'[d] = overlapped[d]
  BY DEF SendQuery, TypeOK
<1> QED
  BY <1>1, <1>2 DEF SendQuery

\* A query sent by a client without live ones.
LEMMA SendAlone ==
  ASSUME NEW c, NEW k, NEW t,
         LiveQueries(c) = {}, LiveHandlers(c) = {}, handlers' = handlers,
         queries' = queries \cup {[client |-> c, k |-> k, try |-> t]},
         k = Len(asked'[c])
  PROVE  Alone(c)'
<1>1. LiveHandlers(c)' = {}
  BY DEF LiveHandlers
<1>2. LiveQueries(c)' = {[client |-> c, k |-> k, try |-> t]}
  BY DEF LiveQueries
<1> QED
  BY <1>1, <1>2 DEF Alone

\* Another client's steps leave a client alone.
LEMMA OthersKeep ==
  ASSUME NEW c, Alone(c), CaughtUp(c),
         LiveQueries(c)' = LiveQueries(c), LiveHandlers(c)' = LiveHandlers(c),
         asked'[c] = asked[c], hints'[c] = hints[c],
         [client |-> c, k |-> Len(asked[c])] \in answers' => [client |-> c, k |-> Len(asked[c])] \in answers
  PROVE  Alone(c)' /\ CaughtUp(c)'
<1>1. Alone(c)'
  BY DEF Alone
<1>2. CaughtUp(c)'
  BY DEF CaughtUp, Notes, Region, Question
<1> QED
  BY <1>1, <1>2

\* Serial clients stay caught up, whoever moves.
LEMMA SerialStep == SafetyInv /\ SerialClients /\ [Next]_vars => SerialClients'
<1> SUFFICES ASSUME SafetyInv, SerialClients, [Next]_vars, NEW d \in Clients, ~overlapped'[d]
             PROVE  Alone(d)' /\ CaughtUp(d)'
  BY DEF SerialClients
<1> DEFINE Goal == Alone(d)' /\ CaughtUp(d)'
           last == [client |-> d, k |-> Len(asked[d])]
<1>0. ~overlapped[d] => Alone(d) /\ CaughtUp(d)
  BY DEF SerialClients
<1>1. ASSUME NEW c \in Clients, NEW q \in Questions, Lookup(c, q) PROVE Goal
  <2>1. SendQuery(c, Len(asked[c]) + 1, 1) /\ TypeOK
    BY <1>1 DEF Lookup, SafetyInv
  <2>2. handlers' = handlers /\ answers' = answers /\ hints' = hints
    BY <1>1 DEF Lookup
  <2>3. CASE c = d
    <3>1. LiveQueries(d) = {} /\ LiveHandlers(d) = {}
      BY <2>1, <2>3, SendMarks
    <3>2. Len(asked'[d]) = Len(asked[d]) + 1 /\ Len(asked[d]) \in Nat
      BY <1>1, <2>1, <2>3 DEF Lookup, TypeOK
    <3>3. Alone(d)'
      BY <2>1, <2>2, <2>3, <3>1, <3>2, SendAlone, SendMarks
    <3>4. [client |-> d, k |-> Len(asked[d]) + 1] \notin answers
      BY <3>2 DEF SafetyInv, KnownLookups
    <3> QED
      BY <2>2, <3>2, <3>3, <3>4 DEF CaughtUp
  <2>4. CASE c # d
    <3>1. ~overlapped[d] /\ queries' = queries \cup {[client |-> c, k |-> Len(asked[c]) + 1, try |-> 1]}
      BY <2>1, <2>4, SendMarks
    <3>2. LiveQueries(d)' = LiveQueries(d) /\ LiveHandlers(d)' = LiveHandlers(d)
      BY <2>2, <2>4, <3>1 DEF LiveQueries, LiveHandlers
    <3>3. asked'[d] = asked[d]
      BY <1>1, <2>1, <2>4 DEF Lookup, TypeOK
    <3> QED
      BY <1>0, <2>2, <3>1, <3>2, <3>3, OthersKeep
  <2> QED
    BY <2>3, <2>4
<1>2. ASSUME NEW c \in Clients, Retry(c) PROVE Goal
  <2>1. SendQuery(c, Len(asked[c]), tries[c] + 1) /\ TypeOK
    BY <1>2 DEF Retry, SafetyInv
  <2>2. handlers' = handlers /\ answers' = answers /\ hints' = hints /\ asked' = asked
    BY <1>2 DEF Retry
  <2>3. CASE c = d
    <3>1. ~overlapped[d] /\ LiveQueries(d) = {} /\ LiveHandlers(d) = {}
      BY <2>1, <2>3, SendMarks
    <3>2. Alone(d)'
      BY <2>1, <2>2, <2>3, <3>1, SendAlone, SendMarks
    <3> QED
      BY <1>0, <2>2, <3>1, <3>2 DEF CaughtUp, Notes, Region, Question
  <2>4. CASE c # d
    <3>1. ~overlapped[d] /\ queries' = queries \cup {[client |-> c, k |-> Len(asked[c]), try |-> tries[c] + 1]}
      BY <2>1, <2>4, SendMarks
    <3>2. LiveQueries(d)' = LiveQueries(d) /\ LiveHandlers(d)' = LiveHandlers(d)
      BY <2>2, <2>4, <3>1 DEF LiveQueries, LiveHandlers
    <3> QED
      BY <1>0, <2>2, <3>1, <3>2, OthersKeep
  <2> QED
    BY <2>3, <2>4
<1>3. CASE UNCHANGED <<hints, queries, handlers, answers, asked, overlapped>>
  <2>1. LiveQueries(d)' = LiveQueries(d) /\ LiveHandlers(d)' = LiveHandlers(d)
    BY <1>3 DEF LiveQueries, LiveHandlers
  <2> QED
    BY <1>0, <1>3, <2>1, OthersKeep
<1>4. ASSUME NEW q \in queries, Lose(q) PROVE Goal
  <2>1. LiveQueries(d)' \subseteq LiveQueries(d) /\ LiveHandlers(d)' = LiveHandlers(d)
    BY <1>4 DEF Lose, LiveQueries, LiveHandlers
  <2>2. ~overlapped[d] /\ asked' = asked /\ hints' = hints /\ answers' = answers
    BY <1>4 DEF Lose, console
  <2>3. Alone(d)'
    BY <1>0, <2>1, <2>2 DEF Alone
  <2> QED
    BY <1>0, <2>1, <2>2, <2>3 DEF CaughtUp, Notes, Region, Question
<1>5. ASSUME NEW q \in queries, Receive(q) PROVE Goal
  <2> DEFINE new == [client |-> q.client, k |-> q.k, try |-> q.try, pc |-> "parse"]
  <2>1. /\ ~overlapped[d] /\ asked' = asked /\ hints' = hints /\ answers' = answers
        /\ queries' = queries \ {q} /\ handlers' = handlers \cup {new}
    BY <1>5 DEF Receive, console
  <2>2. CASE q.client = d
    <3>1. LiveQueries(d) = {q} /\ LiveHandlers(d) = {} /\ q.k = Len(asked[d])
      BY <1>0, <1>5, <2>1, <2>2 DEF Alone, LiveQueries
    <3>2. LiveQueries(d)' = {} /\ LiveHandlers(d)' = {new}
      BY <2>1, <2>2, <3>1 DEF LiveQueries, LiveHandlers
    <3>3. Alone(d)'
      BY <2>1, <3>1, <3>2 DEF Alone
    <3> QED
      BY <1>0, <2>1, <3>1, <3>3 DEF CaughtUp, Notes, Region, Question
  <2>3. CASE q.client # d
    <3>1. LiveQueries(d)' = LiveQueries(d) /\ LiveHandlers(d)' = LiveHandlers(d)
      BY <2>1, <2>3 DEF LiveQueries, LiveHandlers
    <3> QED
      BY <1>0, <2>1, <3>1, OthersKeep
  <2> QED
    BY <2>2, <2>3
<1>6. ASSUME NEW h \in handlers, h.client = d, ~overlapped[d]
      PROVE  /\ LiveQueries(d) = {} /\ LiveHandlers(d) = {h} /\ h.k = Len(asked[d])
             /\ h \in [client : Clients, k : Nat, try : Nat, pc : HandlerPcs]
  BY <1>0, <1>6 DEF Alone, LiveHandlers, SafetyInv, TypeOK
<1>7. ASSUME NEW h \in handlers, queries' = queries, asked' = asked, ~overlapped[d], h.client # d,
             \/ handlers' = handlers \ {h}
             \/ \E pc \in HandlerPcs : handlers' = At(h, pc),
             answers' = answers \/ answers' = Answered(h),
             hints'[d] = hints[d]
      PROVE  Goal
  <2>1. LiveQueries(d)' = LiveQueries(d)
    BY <1>7 DEF LiveQueries
  <2>2. h \in [client : Clients, k : Nat, try : Nat, pc : HandlerPcs]
    BY DEF SafetyInv, TypeOK
  <2>3. LiveHandlers(d)' = LiveHandlers(d)
    BY <1>7, <2>2 DEF LiveHandlers, At
  <2>4. last \in answers' => last \in answers
    BY <1>7 DEF Answered
  <2> QED
    BY <1>0, <1>7, <2>1, <2>3, <2>4, OthersKeep
<1>8. ASSUME NEW h \in handlers, Answer(h) PROVE Goal
  <2>1. /\ ~overlapped[d] /\ asked' = asked /\ hints' = hints /\ queries' = queries
        /\ handlers' = IF Notes(h.client, h.k) THEN At(h, "note") ELSE handlers \ {h}
        /\ answers' = Answered(h)
    BY <1>8 DEF Answer, console
  <2>2. CASE h.client = d
    <3> DEFINE noter == [h EXCEPT !.pc = "note"]
    <3>1. noter.client = d /\ noter.k = Len(asked[d]) /\ noter.pc = "note"
      BY <1>6, <2>1, <2>2
    <3>2. LiveQueries(d)' = {}
      BY <1>6, <2>1, <2>2 DEF LiveQueries
    <3>3. CASE Notes(d, h.k)
      <4>1. LiveHandlers(d)' = {noter}
        BY <1>6, <2>1, <2>2, <3>1, <3>3 DEF LiveHandlers, At
      <4> QED
        BY <2>1, <3>1, <3>2, <4>1 DEF Alone, CaughtUp
    <3>4. CASE ~Notes(d, h.k)
      <4>1. LiveHandlers(d)' = {}
        BY <1>6, <2>1, <2>2, <3>4 DEF LiveHandlers
      <4>2. ~Notes(d, Len(asked[d]))'
        BY <1>6, <2>1, <2>2, <3>4 DEF Notes, Region, Question
      <4> QED
        BY <2>1, <3>2, <4>1, <4>2 DEF Alone, CaughtUp
    <3> QED
      BY <3>3, <3>4
  <2>3. CASE h.client # d
    BY <1>7, <2>1, <2>3 DEF HandlerPcs
  <2> QED
    BY <2>2, <2>3
<1>9. ASSUME NEW h \in handlers, NoteRegion(h) PROVE Goal
  <2>1. /\ ~overlapped[d] /\ asked' = asked /\ queries' = queries /\ answers' = answers
        /\ handlers' = handlers \ {h}
        /\ hints' = [hints EXCEPT ![h.client] = [region |-> Region(h.client, h.k), k |-> h.k]]
        /\ hints \in [Clients -> [region : Regions \cup {NoRegion}, k : Nat]]
    BY <1>9 DEF NoteRegion, console, SafetyInv, TypeOK
  <2>2. CASE h.client = d
    <3>1. LiveQueries(d)' = {} /\ LiveHandlers(d)' = {} /\ h.k = Len(asked[d])
      BY <1>6, <2>1, <2>2 DEF LiveQueries, LiveHandlers
    <3>2. hints'[d] = [region |-> Region(d, Len(asked[d])), k |-> Len(asked[d])]
      BY <2>1, <2>2, <3>1
    <3> QED
      BY <2>1, <3>1, <3>2 DEF Alone, CaughtUp, Region, Question
  <2>3. CASE h.client # d
    BY <1>7, <2>1, <2>3
  <2> QED
    BY <2>2, <2>3
<1>10. ASSUME NEW h \in handlers, Forward(h) \/ UpstreamReply(h) \/ ForwardFails(h) PROVE Goal
  <2>1. /\ ~overlapped[d] /\ asked' = asked /\ queries' = queries /\ hints' = hints
        /\ handlers' = At(h, "forward") \/ handlers' = handlers \ {h}
        /\ answers' = answers \/ answers' = Answered(h)
        /\ Question(h.client, h.k) \notin Redirected
    BY <1>10 DEF Forward, UpstreamReply, ForwardFails, console, SafetyInv, HandlerPosition
  <2>2. CASE h.client = d
    <3> DEFINE waiter == [h EXCEPT !.pc = "forward"]
    <3>1. waiter.client = d /\ waiter.k = Len(asked[d])
      BY <1>6, <2>1, <2>2
    <3>2. LiveQueries(d)' = {}
      BY <1>6, <2>1, <2>2 DEF LiveQueries
    <3>3. LiveHandlers(d)' = {} \/ LiveHandlers(d)' = {waiter}
      BY <1>6, <2>1, <2>2, <3>1 DEF LiveHandlers, At
    <3>4. ~Notes(d, Len(asked[d]))'
      BY <1>6, <2>1, <2>2 DEF Notes, Question
    <3> QED
      BY <2>1, <3>1, <3>2, <3>3, <3>4 DEF Alone, CaughtUp
  <2>3. CASE h.client # d
    BY <1>7, <2>1, <2>3 DEF HandlerPcs
  <2> QED
    BY <2>2, <2>3
<1>11. ASSUME NEW c \in Clients, Resolve(c) \/ Accept(c) PROVE Goal
  BY <1>3, <1>11 DEF Resolve, Accept
<1>12. ASSUME NEW x \in conns, CertFor(x) PROVE Goal
  BY <1>3, <1>12 DEF CertFor, console
<1>13. CASE UNCHANGED vars
  BY <1>3, <1>13 DEF vars, console
<1> QED
  BY <1>1, <1>2, <1>4, <1>5, <1>8, <1>9, <1>10, <1>11, <1>12, <1>13
     DEF Next, ClientStep, DnsStep, TlsStep

\* A client is told an address by the redirector only.
LEMMA ResolvedStep == SafetyInv /\ ResolvedAnswered /\ [Next]_vars => ResolvedAnswered'
<1> SUFFICES ASSUME SafetyInv, ResolvedAnswered, [Next]_vars,
                    NEW d \in Clients, dnsOn', phase'[d] = "resolved"
             PROVE  [client |-> d, k |-> Len(asked'[d])] \in answers'
  BY DEF ResolvedAnswered
<1>1. dnsOn /\ answers \subseteq answers'
  BY ServerFixed, AnswersGrow
<1>2. CASE phase'[d] = phase[d] /\ asked'[d] = asked[d]
  BY <1>1, <1>2 DEF ResolvedAnswered
<1>3. ASSUME NEW c \in Clients, NEW q \in Questions, Lookup(c, q)
      PROVE  [client |-> d, k |-> Len(asked'[d])] \in answers'
  BY <1>2, <1>3 DEF Lookup, SafetyInv, TypeOK
<1>4. ASSUME NEW c \in Clients, Resolve(c)
      PROVE  [client |-> d, k |-> Len(asked'[d])] \in answers'
  BY <1>1, <1>2, <1>4 DEF Resolve, SafetyInv, TypeOK
<1>5. ASSUME NEW c \in Clients, Accept(c)
      PROVE  [client |-> d, k |-> Len(asked'[d])] \in answers'
  BY <1>2, <1>5 DEF Accept, SafetyInv, TypeOK
<1>6. \/ \E c \in Clients, q \in Questions : Lookup(c, q)
      \/ \E c \in Clients : Resolve(c) \/ Accept(c)
      \/ phase' = phase /\ asked' = asked
  BY DEF Next, ClientStep, DnsStep, TlsStep, vars, console, Retry, Lose, Receive, Answer,
         NoteRegion, Forward, UpstreamReply, ForwardFails, CertFor
<1> QED
  BY <1>2, <1>3, <1>4, <1>5, <1>6

\* While a client's lookups do not overlap, its hint is that of its last lookup
\* as soon as the goroutine that answered it has finished: the stale hints TLC
\* finds all need an unfinished or an overlapping handler.
THEOREM SerialHintsAreFresh == Spec => []SerialHintIsFresh
<1>1. Init => SerialInv
  <2> SUFFICES ASSUME Init PROVE SerialClients /\ ResolvedAnswered
    BY SafetyInit DEF SerialInv
  <2>1. \A c \in Clients : Alone(c) /\ CaughtUp(c)
    BY DEF Init, Alone, CaughtUp, LiveQueries, LiveHandlers
  <2> QED
    BY <2>1 DEF Init, SerialClients, ResolvedAnswered
<1>2. SerialInv /\ [Next]_vars => SerialInv'
  BY SafetyStep, SerialStep, ResolvedStep DEF SerialInv
<1>3. SerialInv => SerialHintIsFresh
  BY DEF SerialInv, SerialClients, ResolvedAnswered, SerialHintIsFresh, CaughtUp
<1> QED
  BY <1>1, <1>2, <1>3, PTL DEF Spec

-----------------------------------------------------------------------------
(* Refinement.                                                             *)

\* Only certFor shows a certificate, and it adds exactly one.
LEMMA ServeStep ==
  ASSUME SafetyInv, SafetyInv', [Next]_vars
  PROVE  Choice!Next \/ UNCHANGED Choice!vars
<1>1. certs' = certs /\ defaultRegion' = defaultRegion
  BY ServerFixed
<1>2. ASSUME NEW c \in Clients, NEW q \in Questions, Lookup(c, q)
      PROVE  Choice!Next
  <2>1. Served' = Served
    BY <1>2 DEF Lookup, Served
  <2>2. Choice!Ask(c, q)
    BY <1>1, <1>2, <2>1 DEF Lookup, Choice!Ask
  <2> QED
    BY <2>2 DEF Choice!Next
<1>3. ASSUME NEW c \in Clients, Accept(c) PROVE UNCHANGED Choice!vars
  <2>1. Served' = Served
    BY <1>3 DEF Accept, Served
  <2> QED
    BY <1>1, <1>3, <2>1 DEF Accept, Choice!vars
<1>4. ASSUME NEW x \in conns, CertFor(x) PROVE Choice!Next
  <2> DEFINE cert == CertOf(hints[x.client])
             shown == [client |-> x.client, k |-> x.k, cert |-> cert]
  <2>1. x.client \in Clients /\ x.k \in 1..Len(asked[x.client])
    BY DEF SafetyInv, TypeOK, KnownLookups
  <2>2. cert \in certs /\ cert # NoRegion
    BY RegionsAssumption DEF CertOf, SafetyInv, DefaultLoaded, TypeOK
  <2>3. [x EXCEPT !.cert = cert] = shown
    <3>1. x \in [client : Clients, k : Nat, cert : Regions \cup {NoRegion}]
      BY DEF SafetyInv, TypeOK
    <3>2. \A v : [x EXCEPT !.cert = v] = [client |-> x.client, k |-> x.k, cert |-> v]
      BY <3>1
    <3> QED
      BY <3>2
  <2>4. Served' = Served \cup {shown}
    BY <1>4, <2>2, <2>3 DEF CertFor, Served
  <2>5. cert \in {defaultRegion} \cup Choice!Hinted(x.client)
    <3>1. CASE cert = defaultRegion
      BY <3>1
    <3>2. CASE cert = hints[x.client].region /\ cert # defaultRegion
      <4>1. hints[x.client] # NoHint
        BY <2>2, <3>2 DEF NoHint
      <4>2. PICK k \in 1..Len(asked[x.client]) :
              Notes(x.client, k) /\ cert = Region(x.client, k)
        BY <2>1, <3>2, <4>1 DEF SafetyInv, HintProvenance
      <4> QED
        BY <2>2, <4>2 DEF Choice!Hinted, Notes, Region, Question
    <3> QED
      BY <3>1, <3>2 DEF CertOf
  <2>6. asked' = asked
    BY <1>4 DEF CertFor, console
  <2>7. Choice!Serve(x.client, x.k, cert)
    BY <1>1, <2>1, <2>2, <2>4, <2>5, <2>6 DEF Choice!Serve
  <2> QED
    BY <2>1, <2>2, <2>7 DEF Choice!Next
<1>5. \/ \E c \in Clients, q \in Questions : Lookup(c, q)
      \/ \E c \in Clients : Accept(c)
      \/ \E x \in conns : CertFor(x)
      \/ conns' = conns /\ asked' = asked
  BY DEF Next, ClientStep, DnsStep, TlsStep, vars, console, Retry, Resolve, Lose, Receive,
         Answer, NoteRegion, Forward, UpstreamReply, ForwardFails
<1>6. conns' = conns /\ asked' = asked => UNCHANGED Choice!vars
  BY <1>1 DEF Served, Choice!vars
<1> QED
  BY <1>2, <1>3, <1>4, <1>5, <1>6

\* The DNS goroutines, the hint table and certFor together implement CertChoice.
THEOREM RefinesCertChoice == Spec => ImplementsCertChoice
<1>1. Init => Choice!Init
  BY SafetyInit DEF Init, Choice!Init, SafetyInv, DefaultLoaded, Served
<1>2. SafetyInv /\ SafetyInv' /\ [Next]_vars => [Choice!Next]_(Choice!vars)
  BY ServeStep
<1> QED
  BY <1>1, <1>2, SafetyHolds, PTL DEF Spec, ImplementsCertChoice, Choice!Spec
=============================================================================
