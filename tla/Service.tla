--------------------------------- MODULE Service -------------------------------
(***************************************************************************)
(* The running process: main's last part (proxy rules, the DNS goroutine,  *)
(* listenTLS10 with its accept loops and error channel) and the connection *)
(* goroutines from the hello to the reply: parsing, dispatch, the reverse  *)
(* proxy with its backends and limits, static files.  A goroutine that     *)
(* panics, and log.Fatal anywhere, end the process with everything in it.  *)
(*                                                                         *)
(* What happens between the hello and the request is Tls10's, how a DNAS   *)
(* query is answered Replay's, and which certificate is shown RegionHints'.*)
(***************************************************************************)
EXTENDS Parsing, LongestFirst, SequencesExt

CONSTANTS
  NAddrs,        \* number of -https addresses
  Conns,         \* connections open at a time
  ProxyArgs,     \* values -proxy may be given
  MaxProxies,    \* bound: -proxy flags
  Hellos, Exchanges, Requests,   \* what clients send
  MaxHave,       \* bound: bytes of a body that arrive
  Backends,      \* what a backend may answer
  MaxProxyBody,  \* maxProxyBody
  Nobody         \* no rule, no message, no reply

Addrs == 1..NAddrs
ProxyArg == [valid : BOOLEAN, prefix : Seq(STRING), target : STRING]
Asked == [v : {1}, line : BOOLEAN, cl : Int, path : Seq(STRING), sendable : BOOLEAN, endpoint : BOOLEAN]
Backend == [status : Nat, len : Nat, readable : BOOLEAN]

ASSUME ServiceAssumption ==
  /\ NAddrs \in Nat \ {0} /\ MaxProxies \in Nat /\ MaxHave \in Nat /\ MaxProxyBody \in Nat
  /\ ProxyArgs \subseteq ProxyArg
  /\ Hellos \subseteq HelloV2 \cup HelloV3 /\ Exchanges \subseteq KeyExchange
  /\ Requests \subseteq Asked /\ Backends \subseteq Backend
  /\ Nobody \notin ProxyArg \cup Asked \cup HelloV2 \cup HelloV3 \cup KeyExchange \cup Backend

VARIABLES
  given,    \* the -proxy flags
  dnsOn,    \* -dns is not empty
  proc,     \* "up", or why the process ended
  main,     \* where main stands
  proxies,  \* Server.Proxies
  dns,      \* the DNS goroutine
  bound,    \* addresses listened on so far
  loop,     \* the accept loop of each address
  errCh,    \* errors in the channel
  conn      \* the connection goroutines

setup == <<given, dnsOn, proxies>>
listeners == <<main, dns, bound, loop, errCh>>
vars == <<setup, proc, listeners, conn>>

Reply == [status : Nat, len : Nat, from : Backends \cup {Nobody}]
Idle == [pc |-> "idle", msg |-> Nobody, have |-> 0, rule |-> Nobody, reply |-> Nobody]
ConnPcs == {"idle", "hello", "cke", "request", "dispatch", "proxy", "reply", "panicked"}

TypeOK ==
  /\ given \in Seq(ProxyArgs) /\ dnsOn \in BOOLEAN
  /\ proc \in {"up", "fatal", "panic"}
  /\ main \in {"proxies", "dns", "listen", "wait"}
  /\ proxies \in Seq(ProxyArgs)
  /\ dns \in {"off", "binding", "serving"}
  /\ bound \in 0..NAddrs
  /\ loop \in [Addrs -> {"none", "accepting", "ended"}]
  /\ errCh \in 0..NAddrs
  /\ conn \in [Conns -> [pc : ConnPcs, msg : Hellos \cup Exchanges \cup Requests \cup {Nobody}, have : 0..MaxHave,
                         rule : ProxyArgs \cup {Nobody},
                         reply : Reply \cup {Nobody}]]
  /\ \A c \in Conns : conn[c].rule # Nobody /\ conn[c].reply # Nobody => conn[c].reply.len <= MaxProxyBody

Init ==
  /\ given \in BoundedSeq(ProxyArgs, MaxProxies) /\ dnsOn \in BOOLEAN
  /\ proc = "up" /\ main = "proxies" /\ proxies = <<>>
  /\ dns = "off" /\ bound = 0
  /\ loop = [a \in Addrs |-> "none"] /\ errCh = 0
  /\ conn = [c \in Conns |-> Idle]

\* log.Fatal: the process ends and its goroutines with it.
Fatal == proc' = "fatal" /\ conn' = [c \in Conns |-> Idle]

-----------------------------------------------------------------------------
(* main.                                                                   *)

\* Mutated form: the rules stay in the order of the flags.
SortProxiesNot ==
  /\ main' = "dns" /\ proxies' = given /\ UNCHANGED <<proc, conn>>

SortProxies ==
  /\ \E p \in [DOMAIN given -> DOMAIN given] :
       /\ LongestFirst(p, [i \in DOMAIN given |-> Len(given[i].prefix)])
       /\ proxies' = Reordered(given, p)
  /\ main' = "dns" /\ UNCHANGED <<proc, conn>>

\* parseProxyRules; main ends on an invalid flag.
ParseProxyRules ==
  /\ proc = "up" /\ main = "proxies"
  /\ IF \E i \in DOMAIN given : ~given[i].valid
     THEN Fatal /\ UNCHANGED <<main, proxies>>
     ELSE SortProxies
  /\ UNCHANGED <<given, dnsOn, dns, bound, loop, errCh>>

\* The redirector starts in a goroutine of its own.
StartDNS ==
  /\ proc = "up" /\ main = "dns"
  /\ main' = "listen"
  /\ dns' = IF dnsOn THEN "binding" ELSE "off"
  /\ UNCHANGED <<setup, proc, bound, loop, errCh, conn>>

\* DNSServer.listen: a read error is logged, only ListenPacket can fail.
DnsListen ==
  /\ proc = "up" /\ dns = "binding"
  /\ \/ dns' = "serving" /\ UNCHANGED <<proc, conn>>
     \/ Fatal /\ UNCHANGED dns
  /\ UNCHANGED <<setup, main, bound, loop, errCh>>

\* Mutated form: an address that cannot be listened on is skipped.
ListenFailsSkipped ==
  /\ proc = "up" /\ main = "listen" /\ bound < NAddrs
  /\ bound' = bound + 1
  /\ UNCHANGED <<setup, proc, main, dns, loop, errCh, conn>>

\* listenTLS10: an address cannot be listened on; the loops of the earlier ones
\* are already running.
ListenFails ==
  /\ proc = "up" /\ main = "listen" /\ bound < NAddrs
  /\ Fatal
  /\ UNCHANGED <<setup, listeners>>

\* listenTLS10: the next address and its accept loop, or the wait for an error.
Listen ==
  /\ proc = "up" /\ main = "listen"
  /\ \/ /\ bound < NAddrs
        /\ bound' = bound + 1 /\ loop' = [loop EXCEPT ![bound + 1] = "accepting"]
        /\ UNCHANGED main
     \/ bound = NAddrs /\ main' = "wait" /\ UNCHANGED <<bound, loop>>
  /\ UNCHANGED <<setup, proc, dns, errCh, conn>>

\* Accept fails: the channel has room for an error of every loop.
AcceptFails(a) ==
  /\ proc = "up" /\ loop[a] = "accepting" /\ errCh < NAddrs
  /\ loop' = [loop EXCEPT ![a] = "ended"]
  /\ errCh' = errCh + 1
  /\ UNCHANGED <<setup, proc, main, dns, bound, conn>>

\* Mutated form: main waits for the last loop to end.
ReceiveErrorOfAll ==
  /\ proc = "up" /\ main = "wait" /\ errCh = NAddrs
  /\ errCh' = errCh - 1
  /\ Fatal
  /\ UNCHANGED <<setup, main, dns, bound, loop>>

\* listenTLS10 returns the first error, and main ends.
ReceiveError ==
  /\ proc = "up" /\ main = "wait" /\ errCh > 0
  /\ errCh' = errCh - 1
  /\ Fatal
  /\ UNCHANGED <<setup, main, dns, bound, loop>>

-----------------------------------------------------------------------------
(* A connection.                                                           *)

Accept(a, c) ==
  /\ proc = "up" /\ loop[a] = "accepting" /\ conn[c].pc = "idle"
  /\ conn' = [conn EXCEPT ![c].pc = "hello"]
  /\ UNCHANGED <<setup, proc, listeners>>

At(c, pc) == proc = "up" /\ conn[c].pc = pc

\* A parser's verdict on message m: an error closes the connection, a panic
\* ends the process; otherwise the connection goes on as ok or more says.
Verdict(c, verdict, m, ok, more) ==
  /\ conn' =
       CASE verdict = "ok"    -> [conn EXCEPT ![c] = ok]
         [] verdict = "more"  -> [conn EXCEPT ![c] = more]
         [] verdict = "error" -> [conn EXCEPT ![c] = Idle]
         [] verdict = "panic" -> [[d \in Conns |-> Idle] EXCEPT ![c].pc = "panicked", ![c].msg = m]
  /\ proc' = IF verdict = "panic" THEN "panic" ELSE proc
  /\ UNCHANGED <<setup, listeners>>

ReadClientHello(c, h) ==
  /\ At(c, "hello")
  /\ Verdict(c, readClientHello(h), h, [conn[c] EXCEPT !.pc = "cke"], conn[c])

\* The key exchange, and with it the rest of the handshake.
ReadKeyExchange(c, x) ==
  /\ At(c, "cke")
  /\ Verdict(c, decryptPremaster(x), x, [conn[c] EXCEPT !.pc = "request"], conn[c])

Parse(c, r, have) ==
  Verdict(c, parseHTTPRequest(r, have), r,
          [conn[c] EXCEPT !.pc = "dispatch", !.msg = r, !.have = r.cl],
          [conn[c] EXCEPT !.msg = r, !.have = have])

\* serveHTTP: the header is there, with have bytes of the body.
ReadRequest(c, r, have) ==
  /\ At(c, "request") /\ conn[c].msg = Nobody
  /\ Parse(c, r, have)

\* serveHTTP: another record of the body.
ReadMore(c) ==
  /\ At(c, "request") /\ conn[c].msg # Nobody /\ conn[c].have < MaxHave
  /\ Parse(c, conn[c].msg, conn[c].have + 1)

\* The client closes, or the handshake fails.
Leave(c) ==
  /\ At(c, "hello") \/ At(c, "cke") \/ At(c, "request")
  /\ conn' = [conn EXCEPT ![c] = Idle]
  /\ UNCHANGED <<setup, proc, listeners>>

-----------------------------------------------------------------------------
(* dispatch.                                                               *)

Replied(c, status, len, from) ==
  /\ conn' = [conn EXCEPT ![c].pc = "reply", ![c].reply = [status |-> status, len |-> len, from |-> from]]
  /\ UNCHANGED <<setup, proc, listeners>>

\* proxyFor: the first rule whose prefix the path has.
Applies(rule, path) == IsPrefix(rule.prefix, path)
First(path, i) ==
  /\ i \in DOMAIN proxies /\ Applies(proxies[i], path)
  /\ \A j \in 1..(i - 1) : ~Applies(proxies[j], path)
Proxied(c) == \E i \in DOMAIN proxies : Applies(proxies[i], conn[c].msg.path)

\* A rule comes before the DNAS endpoints and the files.
DispatchToProxy(c) ==
  /\ At(c, "dispatch")
  /\ \E i \in DOMAIN proxies :
       /\ First(conn[c].msg.path, i)
       /\ conn' = [conn EXCEPT ![c].pc = "proxy", ![c].rule = proxies[i]]
  /\ UNCHANGED <<setup, proc, listeners>>

\* A DNAS query always has a reply with status 200; its contents are Replay's.
DispatchToReplay(c) ==
  /\ At(c, "dispatch") /\ ~Proxied(c) /\ conn[c].msg.endpoint
  /\ Replied(c, 200, 1, Nobody)

\* serveStatic: the file, or 404 if it cannot be read or is outside.
DispatchToFile(c) ==
  /\ At(c, "dispatch") /\ ~Proxied(c) /\ ~conn[c].msg.endpoint
  /\ Replied(c, 200, 1, Nobody) \/ Replied(c, 404, 0, Nobody)

\* proxy: a method or URL that cannot be made into a request.
BadRequest(c) ==
  /\ At(c, "proxy") /\ ~conn[c].msg.sendable
  /\ Replied(c, 400, 0, Nobody)

\* Mutated form: the client has no Timeout.
NoTimeout(c) ==
  /\ At(c, "proxy") /\ FALSE
  /\ Replied(c, 502, 0, Nobody)

\* The backend refuses, or says nothing until the Timeout of proxyClient.
BackendFails(c) ==
  /\ At(c, "proxy") /\ conn[c].msg.sendable
  /\ Replied(c, 502, 0, Nobody)

\* Mutated form: the limit is the largest body allowed.
ReadBodyShort(b) == IF b.len < MaxProxyBody THEN b.len ELSE MaxProxyBody

\* ReadAll through a LimitReader of one byte more than allowed.
ReadBody(b) == IF b.len < MaxProxyBody + 1 THEN b.len ELSE MaxProxyBody + 1

\* Mutated form: the size of the body is not checked.
BodyRefusedNever(b) == ~b.readable

\* The body breaks off, runs into the Timeout or is too large.
BodyRefused(b) == ~b.readable \/ ReadBody(b) > MaxProxyBody

\* The backend's status (redirects too) and body, with a new Content-Length.
BackendAnswers(c, b) ==
  /\ At(c, "proxy") /\ conn[c].msg.sendable
  /\ IF BodyRefused(b) THEN Replied(c, 502, 0, b) ELSE Replied(c, b.status, ReadBody(b), b)

\* The reply goes out, or the client is gone; either way the connection ends.
WriteReply(c) ==
  /\ At(c, "reply")
  /\ conn' = [conn EXCEPT ![c] = Idle]
  /\ UNCHANGED <<setup, proc, listeners>>

-----------------------------------------------------------------------------

MainStep == ParseProxyRules \/ StartDNS \/ ListenFails \/ Listen \/ ReceiveError

Listener(a) == AcceptFails(a) \/ \E c \in Conns : Accept(a, c)

Reads(c) ==
  \/ \E h \in Hellos : ReadClientHello(c, h)
  \/ \E x \in Exchanges : ReadKeyExchange(c, x)
  \/ \E r \in Requests, have \in 0..MaxHave : ReadRequest(c, r, have)
  \/ ReadMore(c) \/ Leave(c)

Answers(c) == DispatchToProxy(c) \/ DispatchToReplay(c) \/ DispatchToFile(c) \/ BadRequest(c) \/ BackendFails(c)

Next ==
  \/ MainStep \/ DnsListen
  \/ \E a \in Addrs : Listener(a)
  \/ \E c \in Conns : Reads(c) \/ Answers(c) \/ WriteReply(c) \/ \E b \in Backends : BackendAnswers(c, b)

Spec == Init /\ [][Next]_vars

\* main goes on, and so does a connection that has its request: what a backend
\* leaves open its Timeout decides.  Clients and listeners may do nothing.
FairSpec == Spec /\ WF_vars(MainStep) /\ \A c \in Conns : WF_vars(Answers(c))

-----------------------------------------------------------------------------
(* What the process guarantees.                                            *)

\* Whatever a client sends, one of two messages only can bring the process
\* down: a v3 hello that ends before its session id, and a request with a
\* negative Content-Length.
OnlyKnownPanics ==
  proc = "panic" =>
    \E c \in Conns :
      /\ conn[c].pc = "panicked"
      /\ \/ conn[c].msg.v = 3 /\ conn[c].msg.len = 38
         \/ conn[c].msg.v = 1 /\ conn[c].msg.cl < 0

\* A process that runs serves every address it was given, or knows of an error
\* it will end with: none is silently without an accept loop, neither after a
\* failed Listen nor after a failed Accept.
EveryAddressServed ==
  (proc = "up" /\ main = "wait" /\ errCh = 0) => \A a \in Addrs : loop[a] = "accepting"

\* The end of an accept loop ends the process, also while main still listens on
\* further addresses.
LoopEndIsFatal == (\E a \in Addrs : loop[a] = "ended") ~> proc # "up"

\* Among the flags as given, no matching one is more specific than the rule a
\* request goes by, nor as specific and earlier; without a rule none matches.
Better(j, i) ==
  Len(given[j].prefix) > Len(given[i].prefix) \/ (given[j].prefix = given[i].prefix /\ j < i)
RoutedByLongestPrefix ==
  \A c \in Conns :
    /\ conn[c].rule # Nobody =>
         \E i \in DOMAIN given :
           /\ given[i] = conn[c].rule /\ Applies(given[i], conn[c].msg.path)
           /\ \A j \in DOMAIN given : Applies(given[j], conn[c].msg.path) => ~Better(j, i)
    /\ (conn[c].rule = Nobody /\ conn[c].reply # Nobody) =>
         \A j \in DOMAIN given : ~Applies(given[j], conn[c].msg.path)

\* A backend's reply reaches the client whole or is replaced by 502: never cut
\* off at the limit, nor where the backend broke off.
ProxyReplyWhole ==
  \A c \in Conns :
    (conn[c].reply # Nobody /\ conn[c].reply.from # Nobody) =>
      LET b == conn[c].reply.from
      IN  \/ b.readable /\ conn[c].reply.status = b.status /\ conn[c].reply.len = b.len
          \/ conn[c].reply.status = 502 /\ conn[c].reply.len = 0

\* Every complete request gets a reply while the process lives, whatever its
\* backend does.
RequestsAnswered ==
  \A c \in Conns : conn[c].pc = "dispatch" ~> (conn[c].pc = "reply" \/ proc # "up")

-----------------------------------------------------------------------------
(* What a comment and an error message promise.                            *)

\* readClientHello: "tls: short ClientHello" for a hello without its fixed
\* fields, the length of the session id the last of them.
ShortHelloRefused ==
  \A c \in Conns :
    (conn[c].msg # Nobody /\ conn[c].msg.v = 3 /\ conn[c].msg.len - 4 < 35) => proc # "panic"

\* parseHTTPRequest: "returns (true, req) once the full request is buffered",
\* whatever number Atoi makes of its Content-Length.
BufferedRequestReturned ==
  \A c \in Conns : (conn[c].msg # Nobody /\ conn[c].msg.v = 1) => conn[c].pc # "panicked"
=============================================================================
