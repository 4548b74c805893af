------------------------------ MODULE RegionHints ------------------------------
(***************************************************************************)
(* Which certificate a console is shown.  A PS2 hello carries no SNI, so   *)
(* the server remembers, per client IP, the DNAS region the client         *)
(* resolved last (hints.go) and certFor reads that hint when a TLS         *)
(* connection arrives.  The two sides run in different goroutines:         *)
(*                                                                         *)
(*   - DNSServer.listen starts one goroutine per UDP datagram; handle      *)
(*     first sends the answer and only then records the region (dns.go);   *)
(*   - listenTLS10 starts one goroutine per connection, which calls        *)
(*     certFor before it reads anything from the client (tls10.go).        *)
(*                                                                         *)
(* One action per step between two points where another goroutine can run: *)
(* a socket operation or the mutex of regionHints.  A client stands for an *)
(* IP address.  The name of a query, its type and the redirect rules are   *)
(* abstracted to a question: Redirected holds the questions that lookup    *)
(* and buildAResponse answer, RegionOf what regionFromName extracts.       *)
(***************************************************************************)
EXTENDS Naturals, Sequences, FiniteSets

CONSTANTS
  Clients,      \* client IP addresses
  Regions,      \* region labels a DNAS name can carry
  CertRegions,  \* the regions main tries to load a certificate for
  NoRegion,     \* regionFromName's ok = false, and "no certificate chosen yet"
  Questions,    \* DNS questions a client may send
  Redirected,   \* the questions answered by a redirect rule
  RegionOf,     \* the region in a question's name, or NoRegion
  MaxLookups,   \* bound: lookups per client
  MaxTries      \* bound: datagrams per lookup (the resolver's retransmissions)

ASSUME RegionsAssumption ==
  /\ CertRegions \subseteq Regions
  /\ CertRegions # {}
  /\ NoRegion \notin Regions

ASSUME QuestionsAssumption ==
  /\ Redirected \subseteq Questions
  /\ RegionOf \in [Questions -> Regions \cup {NoRegion}]

ASSUME BoundsAssumption ==
  /\ MaxLookups \in Nat \ {0}
  /\ MaxTries \in Nat \ {0}

VARIABLES
  certs,          \* Server.certs: the regions whose certificate was loaded
  defaultRegion,  \* Server.defaultRegion
  dnsOn,          \* -dns given: the redirector runs and Server.Hints # nil
  hints,          \* regionHints.byIP: NoHint, or the region and its lookup
  queries,        \* UDP queries on their way to the redirector
  handlers,       \* goroutines in DNSServer.handle, with their position
  answers,        \* lookups for which an answer was sent to the client
  conns,          \* TLS connections; cert is NoRegion before certFor ran
  asked,          \* client: the questions it asked so far
  phase,          \* client: what it does about the last one
  tries,          \* client: datagrams sent for the last one
  overlapped      \* history: a query was sent while an earlier one was live

server == <<certs, defaultRegion, dnsOn>>
console == <<asked, phase, tries, overlapped>>
vars == <<server, hints, queries, handlers, answers, conns, console>>

NoHint == [region |-> NoRegion, k |-> 0]
Phases == {"idle", "waiting", "resolved", "connecting"}
HandlerPcs == {"parse", "note", "forward"}

TypeOK ==
  /\ certs \in SUBSET CertRegions
  /\ defaultRegion \in Regions
  /\ dnsOn \in BOOLEAN
  /\ hints \in [Clients -> [region : Regions \cup {NoRegion}, k : Nat]]
  /\ queries \subseteq [client : Clients, k : Nat, try : Nat]
  /\ handlers \subseteq [client : Clients, k : Nat, try : Nat, pc : HandlerPcs]
  /\ answers \subseteq [client : Clients, k : Nat]
  /\ conns \subseteq [client : Clients, k : Nat, cert : Regions \cup {NoRegion}]
  /\ asked \in [Clients -> Seq(Questions)]
  /\ phase \in [Clients -> Phases]
  /\ tries \in [Clients -> Nat]
  /\ overlapped \in [Clients -> BOOLEAN]

-----------------------------------------------------------------------------
(* Helpers of the server.                                                  *)

\* The question and the region of a client's k-th lookup.
Question(c, k) == asked[c][k]
Region(c, k) == RegionOf[Question(c, k)]

\* handle notes a region only after a redirected answer to a DNAS name.
Notes(c, k) == Question(c, k) \in Redirected /\ Region(c, k) # NoRegion

\* What main leaves in defaultRegion: the flag, or when no certificate of that
\* region was loaded whichever one Go's map iteration yields first.
DefaultsFor(flag, loaded) == IF flag \in loaded THEN {flag} ELSE loaded

\* certFor without the mutex operation: the hinted region's certificate if it
\* is loaded, the default otherwise.
CertOf(hint) ==
  IF dnsOn /\ hint.region \in certs THEN hint.region ELSE defaultRegion

\* Datagrams and handlers that are not finished yet.
LiveQueries(c) == {q \in queries : q.client = c}
LiveHandlers(c) == {h \in handlers : h.client = c}

-----------------------------------------------------------------------------
\* main: at least one certificate was loaded (log.Fatalf otherwise).
Init ==
  /\ certs \in SUBSET CertRegions \ {{}}
  /\ \E flag \in Regions : defaultRegion \in DefaultsFor(flag, certs)
  /\ dnsOn \in BOOLEAN
  /\ hints = [c \in Clients |-> NoHint]
  /\ queries = {}
  /\ handlers = {}
  /\ answers = {}
  /\ conns = {}
  /\ asked = [c \in Clients |-> <<>>]
  /\ phase = [c \in Clients |-> "idle"]
  /\ tries = [c \in Clients |-> 0]
  /\ overlapped = [c \in Clients |-> FALSE]

-----------------------------------------------------------------------------
(* The client: a console that resolves a name, then opens a connection.    *)

SendQuery(c, k, try) ==
  /\ queries' = queries \cup {[client |-> c, k |-> k, try |-> try]}
  /\ overlapped' = [overlapped EXCEPT
        ![c] = @ \/ LiveQueries(c) # {} \/ LiveHandlers(c) # {}]

\* A title resolves a name; whatever it did before is abandoned.
Lookup(c, q) ==
  /\ Len(asked[c]) < MaxLookups
  /\ asked' = [asked EXCEPT ![c] = Append(@, q)]
  /\ phase' = [phase EXCEPT ![c] = "waiting"]
  /\ tries' = [tries EXCEPT ![c] = 1]
  /\ SendQuery(c, Len(asked[c]) + 1, 1)
  /\ UNCHANGED <<server, hints, handlers, answers, conns>>

\* The console's resolver timed out and retransmits.
Retry(c) ==
  /\ phase[c] = "waiting"
  /\ tries[c] < MaxTries
  /\ tries' = [tries EXCEPT ![c] = @ + 1]
  /\ SendQuery(c, Len(asked[c]), tries[c] + 1)
  /\ UNCHANGED <<server, hints, handlers, answers, conns, asked, phase>>

\* A datagram is lost.
Lose(q) ==
  /\ q \in queries
  /\ queries' = queries \ {q}
  /\ UNCHANGED <<server, hints, handlers, answers, conns, console>>

\* The answer arrives; with -dns "" another resolver gave it.
Resolve(c) ==
  /\ phase[c] = "waiting"
  /\ dnsOn => [client |-> c, k |-> Len(asked[c])] \in answers
  /\ phase' = [phase EXCEPT ![c] = "resolved"]
  /\ UNCHANGED <<server, hints, queries, handlers, answers, conns, asked, tries, overlapped>>

\* The console connects to the address it got, which for a redirected name is
\* this server; listenTLS10 accepts and starts serveTLS10 in a goroutine.
Accept(c) ==
  /\ phase[c] = "resolved"
  /\ Question(c, Len(asked[c])) \in Redirected
  /\ phase' = [phase EXCEPT ![c] = "connecting"]
  /\ conns' = conns \cup {[client |-> c, k |-> Len(asked[c]), cert |-> NoRegion]}
  /\ UNCHANGED <<server, hints, queries, handlers, answers, asked, tries, overlapped>>

-----------------------------------------------------------------------------
(* The redirector.                                                         *)

\* listen: ReadFrom, copy the datagram, go handle.
Receive(q) ==
  /\ dnsOn
  /\ q \in queries
  /\ queries' = queries \ {q}
  /\ handlers' = handlers \cup
       {[client |-> q.client, k |-> q.k, try |-> q.try, pc |-> "parse"]}
  /\ UNCHANGED <<server, hints, answers, conns, console>>

Answered(h) == answers \cup {[client |-> h.client, k |-> h.k]}

At(h, to) == (handlers \ {h}) \cup {[h EXCEPT !.pc = to]}

\* Mutated form: the region of a name is noted whether or not a rule redirects it.
AnswerThenNoteAll(h) ==
  /\ h \in handlers /\ h.pc = "parse"
  /\ answers' = Answered(h)
  /\ handlers' = IF Region(h.client, h.k) # NoRegion THEN At(h, "note") ELSE handlers \ {h}
  /\ UNCHANGED <<server, hints, queries, conns, console>>

\* handle, redirected question: WriteTo; the goroutine goes on to note the
\* region of a DNAS name and is finished otherwise.
Answer(h) ==
  /\ h \in handlers /\ h.pc = "parse"
  /\ Question(h.client, h.k) \in Redirected
  /\ answers' = Answered(h)
  /\ handlers' = IF Notes(h.client, h.k) THEN At(h, "note") ELSE handlers \ {h}
  /\ UNCHANGED <<server, hints, queries, conns, console>>

\* Mutated form: the whole name is stored instead of its region label.
NoteName(h) ==
  /\ h \in handlers /\ h.pc = "note"
  /\ hints' = [hints EXCEPT ![h.client] = [region |-> Question(h.client, h.k), k |-> h.k]]
  /\ handlers' = handlers \ {h}
  /\ UNCHANGED <<server, queries, answers, conns, console>>

\* Mutated form: a client's first hint is never replaced.
NoteFirstRegion(h) ==
  /\ h \in handlers /\ h.pc = "note"
  /\ hints' = [hints EXCEPT ![h.client] =
        IF @ = NoHint THEN [region |-> Region(h.client, h.k), k |-> h.k] ELSE @]
  /\ handlers' = handlers \ {h}
  /\ UNCHANGED <<server, queries, answers, conns, console>>

\* Mutated form: the hint is stored for the wrong address.
NoteRegionForAll(h) ==
  /\ h \in handlers /\ h.pc = "note"
  /\ hints' = [c \in Clients |-> [region |-> Region(h.client, h.k), k |-> h.k]]
  /\ handlers' = handlers \ {h}
  /\ UNCHANGED <<server, queries, answers, conns, console>>

\* handle: Hints.set under the mutex, log, return.
NoteRegion(h) ==
  /\ h \in handlers /\ h.pc = "note"
  /\ hints' = [hints EXCEPT ![h.client] = [region |-> Region(h.client, h.k), k |-> h.k]]
  /\ handlers' = handlers \ {h}
  /\ UNCHANGED <<server, queries, answers, conns, console>>

\* handle, any other question: forward dials and writes to the upstream.
Forward(h) ==
  /\ h \in handlers /\ h.pc = "parse"
  /\ Question(h.client, h.k) \notin Redirected
  /\ handlers' = At(h, "forward")
  /\ UNCHANGED <<server, hints, queries, answers, conns, console>>

\* The upstream's response is relayed to the client.
UpstreamReply(h) ==
  /\ h \in handlers /\ h.pc = "forward"
  /\ answers' = Answered(h)
  /\ handlers' = handlers \ {h}
  /\ UNCHANGED <<server, hints, queries, conns, console>>

\* Mutated form: the upstream connection has no deadline.
NoDeadline(h) == FALSE /\ UNCHANGED vars

\* Dial, write or the 3 second read deadline failed: logged, no answer is sent.
ForwardFails(h) ==
  /\ h \in handlers /\ h.pc = "forward"
  /\ handlers' = handlers \ {h}
  /\ UNCHANGED <<server, hints, queries, answers, conns, console>>

-----------------------------------------------------------------------------
(* The TLS side.                                                           *)

\* Mutated form: the hinted region is used without looking whether a
\* certificate was loaded for it.
CertForUnchecked(x) ==
  /\ x \in conns /\ x.cert = NoRegion
  /\ LET r == hints[x.client].region
     IN  conns' = (conns \ {x}) \cup
           {[x EXCEPT !.cert = IF dnsOn /\ r # NoRegion THEN r ELSE defaultRegion]}
  /\ UNCHANGED <<server, hints, queries, handlers, answers, console>>

\* handshakeAndServe: certFor(ip), before the ClientHello is read.
CertFor(x) ==
  /\ x \in conns /\ x.cert = NoRegion
  /\ conns' = (conns \ {x}) \cup {[x EXCEPT !.cert = CertOf(hints[x.client])]}
  /\ UNCHANGED <<server, hints, queries, handlers, answers, console>>

ClientStep ==
  \/ \E c \in Clients, q \in Questions : Lookup(c, q)
  \/ \E c \in Clients : Retry(c) \/ Resolve(c) \/ Accept(c)

DnsStep ==
  \/ \E q \in queries : Lose(q) \/ Receive(q)
  \/ \E h \in handlers :
        Answer(h) \/ NoteRegion(h) \/ Forward(h) \/ UpstreamReply(h) \/ ForwardFails(h)

TlsStep == \E x \in conns : CertFor(x)

Next == ClientStep \/ DnsStep \/ TlsStep

Spec == Init /\ [][Next]_vars

\* The Go scheduler runs every runnable goroutine, and the deadline of forward
\* fires.  Nothing is assumed of the clients, the network or the upstream.
Handlers == [client : Clients, k : 1..MaxLookups, try : 1..MaxTries, pc : HandlerPcs]

Fairness ==
  /\ \A h \in Handlers :
       /\ WF_vars(Answer(h))
       /\ WF_vars(NoteRegion(h))
       /\ WF_vars(Forward(h))
       /\ WF_vars(ForwardFails(h))
  /\ \A c \in Clients, k \in 1..MaxLookups :
       WF_vars(CertFor([client |-> c, k |-> k, cert |-> NoRegion]))

FairSpec == Spec /\ Fairness

-----------------------------------------------------------------------------
(* What the selection guarantees.                                          *)

\* A stored hint is the region of a DNAS name that this very client resolved
\* through a redirect rule and was answered: no other client's lookup, no
\* forwarded name and no non-DNAS name can leave one (dns.go handle).
HintProvenance ==
  \A c \in Clients : hints[c] # NoHint =>
    /\ hints[c].k \in 1..Len(asked[c])
    /\ Notes(c, hints[c].k)
    /\ hints[c].region = Region(c, hints[c].k)
    /\ [client |-> c, k |-> hints[c].k] \in answers

\* Every connection is served a certificate that was loaded, so certFor never
\* hands handshakeAndServe a nil certificate (hints.go certFor, main.go).
CertIsLoaded ==
  \A x \in conns : x.cert # NoRegion => x.cert \in certs

\* While a client's lookups do not overlap, once the goroutine that answered
\* its DNAS lookup has finished, its hint is that lookup's region: the stale
\* hints of the two runs below need an unfinished or an overlapping handler.
SerialHintIsFresh ==
  \A c \in Clients :
    LET k == Len(asked[c])
    IN  (/\ dnsOn /\ ~overlapped[c] /\ phase[c] = "resolved"
         /\ LiveHandlers(c) = {} /\ Notes(c, k))
        => hints[c] = [region |-> Region(c, k), k |-> k]

\* Every goroutine started for a datagram finishes: the upstream may be silent
\* for ever, the deadline in forward ends the wait.
HandlersFinish == \A c \in Clients : []<>(LiveHandlers(c) = {})

\* The whole selection, DNS goroutines included, implements CertChoice: what a
\* client is shown is explained by its own earlier lookups alone.
Served == {x \in conns : x.cert # NoRegion}
Choice == INSTANCE CertChoice WITH served <- Served
ImplementsCertChoice == Choice!Spec

-----------------------------------------------------------------------------
(* What the README promises.                                               *)

\* The certificate a title expects after resolving a name of region r.
Matching(r) == IF r \in certs THEN r ELSE defaultRegion

\* README "Certificate region selection": the redirector notes the region and
\* "the next TLS connection from that IP gets the matching certificate".
NextConnectionMatches ==
  \A x \in conns : (dnsOn /\ x.cert # NoRegion /\ Notes(x.client, x.k))
    => x.cert = Matching(Region(x.client, x.k))

\* README: "Each new lookup overrides the previous one, so switching titles
\* just works": with all handlers finished, the hint is the last lookup's.
NewLookupOverrides ==
  \A c \in Clients :
    LET k == Len(asked[c])
    IN  (/\ dnsOn /\ k > 0 /\ Notes(c, k)
         /\ [client |-> c, k |-> k] \in answers
         /\ LiveQueries(c) = {} /\ LiveHandlers(c) = {})
        => hints[c].region = Region(c, k)
=============================================================================
