------------------------------ MODULE ServiceProofs ----------------------------
(***************************************************************************)
(* Proofs about Parsing and Service, for any addresses, connections,       *)
(* flags, messages and backends.                                           *)
(***************************************************************************)
EXTENDS Service, LongestFirstProofs

-----------------------------------------------------------------------------
(* The parsers.                                                            *)

Verdicts == {"ok", "error", "more", "panic"}

\* The checks of readClientHello's SSLv2 form cover each of its slices.
LEMMA V2Verdict ==
  ASSUME NEW h \in HelloV2
  PROVE  ReadV2(h) \in {"ok", "error"}
<1>1. h.len \in Nat /\ h.csl \in Nat /\ h.sil \in Nat /\ h.cl \in Nat
  BY DEF HelloV2
<1> QED
  BY <1>1 DEF ReadV2, ChallengeInRange, Sliceable

\* The v3 form reads out of range at one length only.
LEMMA V3Verdict ==
  ASSUME NEW h \in HelloV3
  PROVE  /\ ReadV3(h) \in {"ok", "error", "panic"}
         /\ ReadV3(h) = "panic" => h.len = 38
<1>1. h.len \in Nat /\ h.sid \in Nat /\ h.cs \in Nat
  BY DEF HelloV3
<1> QED
  BY <1>1 DEF ReadV3, Sliceable

LEMMA HelloVerdict ==
  ASSUME NEW h \in HelloV2 \cup HelloV3
  PROVE  /\ readClientHello(h) \in {"ok", "error", "panic"}
         /\ readClientHello(h) = "panic" => h.v = 3 /\ h.len = 38
<1>1. CASE h \in HelloV2
  <2>1. h.v = 2
    BY <1>1 DEF HelloV2
  <2> QED
    BY <1>1, <2>1, V2Verdict DEF readClientHello
<1>2. CASE h \in HelloV3
  <2>1. h.v = 3
    BY <1>2 DEF HelloV3
  <2> QED
    BY <1>2, <2>1, V3Verdict DEF readClientHello
<1> QED
  BY <1>1, <1>2

LEMMA ExchangeVerdict ==
  ASSUME NEW x \in KeyExchange
  PROVE  decryptPremaster(x) \in {"ok", "error"}
<1>1. x.len \in Nat /\ x.enc \in Nat
  BY DEF KeyExchange
<1> QED
  BY <1>1 DEF decryptPremaster, Sliceable

\* A complete request's body lies in what has arrived, unless its length is
\* negative.
LEMMA RequestVerdict ==
  ASSUME NEW r \in Asked, NEW have \in Nat
  PROVE  /\ parseHTTPRequest(r, have) \in {"ok", "more", "panic"}
         /\ parseHTTPRequest(r, have) = "ok" => r.cl \in 0..have
         /\ parseHTTPRequest(r, have) = "panic" => r.v = 1 /\ r.cl < 0
<1>1. r.v = 1 /\ r.cl \in Int
  BY DEF Asked
<1> QED
  BY <1>1 DEF parseHTTPRequest, Sliceable

-----------------------------------------------------------------------------
(* The order of the rules.                                                 *)

\* proxyFor takes the rule no matching flag is better than.
LEMMA Routing ==
  ASSUME given \in Seq(ProxyArgs), NEW path, NEW p \in [DOMAIN given -> DOMAIN given],
         LongestFirst(p, [i \in DOMAIN given |-> Len(given[i].prefix)]),
         proxies = Reordered(given, p)
  PROVE  /\ \A i \in DOMAIN proxies : First(path, i) =>
              \E g \in DOMAIN given :
                /\ given[g] = proxies[i] /\ Applies(given[g], path)
                /\ \A j \in DOMAIN given : Applies(given[j], path) => ~Better(j, g)
         /\ (\A i \in DOMAIN proxies : ~Applies(proxies[i], path)) =>
              \A j \in DOMAIN given : ~Applies(given[j], path)
<1> DEFINE len == Len(given)
           lens == [i \in DOMAIN given |-> Len(given[i].prefix)]
<1>1. len \in Nat /\ DOMAIN given = 1..len /\ p \in [1..len -> 1..len]
  OBVIOUS
<1>2. lens \in [1..len -> Nat]
  <2>1. \A i \in DOMAIN given : given[i] \in ProxyArg
    BY ServiceAssumption
  <2>2. \A i \in DOMAIN given : given[i].prefix \in Seq(STRING)
    BY <2>1 DEF ProxyArg
  <2> QED
    BY <1>1, <2>2
<1>3. \A j \in 1..len : \E i \in 1..len : p[i] = j
  BY <1>1, <1>2, SortReachesAll
<1>4. DOMAIN proxies = 1..len /\ \A i \in 1..len : proxies[i] = given[p[i]]
  BY <1>1 DEF Reordered
<1>5. \A i \in 1..len : lens[i] = Len(given[i].prefix)
  BY <1>1
<1>6. LongestFirst(p, lens) /\ DOMAIN lens = 1..len
  BY <1>1
<1> HIDE DEF len, lens
<1>7. ASSUME NEW i \in 1..len, First(path, i)
      PROVE  \E g \in 1..len :
               /\ given[g] = proxies[i] /\ Applies(given[g], path)
               /\ \A j \in 1..len : Applies(given[j], path) => ~Better(j, g)
  <2>1. p[i] \in 1..len /\ given[p[i]] = proxies[i] /\ Applies(given[p[i]], path)
    BY <1>1, <1>4, <1>7 DEF First
  <2>2. ASSUME NEW j \in 1..len, Applies(given[j], path) PROVE ~Better(j, p[i])
    <3>1. PICK q \in 1..len : p[q] = j
      BY <1>3
    <3>2. Applies(proxies[q], path)
      BY <1>4, <2>2, <3>1
    <3>3. ~(q < i)
      BY <3>2, <1>7 DEF First
    <3>4. CASE q = i
      <4>1. j = p[i]
        BY <3>1, <3>4
      <4>2. ~(lens[j] > lens[j]) /\ ~(j < j)
        BY <1>2
      <4> QED
        BY <1>5, <4>1, <4>2 DEF Better
    <3>5. CASE i < q
      <4>1. lens[p[i]] > lens[j] \/ (lens[p[i]] = lens[j] /\ p[i] < j)
        BY <1>6, <3>1, <3>5 DEF LongestFirst
      <4>2. lens[p[i]] \in Nat /\ lens[j] \in Nat
        BY <1>1, <1>2
      <4>3. ~(lens[j] > lens[p[i]])
        BY <4>1, <4>2
      <4>4. lens[j] = lens[p[i]] => ~(j < p[i])
        BY <2>1, <4>1, <4>2
      <4>5. given[j].prefix = given[p[i]].prefix => lens[j] = lens[p[i]]
        BY <1>5, <2>1
      <4> QED
        BY <1>5, <2>1, <4>3, <4>4, <4>5 DEF Better
    <3> QED
      BY <3>3, <3>4, <3>5
  <2> QED
    BY <2>1, <2>2
<1>8. (\A i \in 1..len : ~Applies(proxies[i], path)) => \A j \in 1..len : ~Applies(given[j], path)
  BY <1>3, <1>4
<1> QED
  BY <1>1, <1>4, <1>7, <1>8

-----------------------------------------------------------------------------
(* The inductive invariant.                                                *)

ConnSet ==
  [pc : ConnPcs, msg : Hellos \cup Exchanges \cup Requests \cup {Nobody}, have : 0..MaxHave,
   rule : ProxyArgs \cup {Nobody}, reply : Reply \cup {Nobody}]

\* What a connection has got by the time it stands where it stands.
Phase(s) ==
  /\ s.pc \in {"idle", "hello", "cke"} => s.msg = Nobody
  /\ s.pc = "request" => s.msg \in Requests \cup {Nobody}
  /\ s.pc \in {"dispatch", "proxy", "reply"} => s.msg \in Requests
  /\ s.pc \notin {"proxy", "reply"} => s.rule = Nobody
  /\ s.pc = "proxy" => s.rule # Nobody
  /\ s.pc # "reply" => s.reply = Nobody

Fits(s) == s.rule # Nobody /\ s.reply # Nobody => s.reply.len <= MaxProxyBody

IsWhole(s) ==
  (s.reply # Nobody /\ s.reply.from # Nobody) =>
    LET b == s.reply.from
    IN  \/ b.readable /\ s.reply.status = b.status /\ s.reply.len = b.len
        \/ s.reply.status = 502 /\ s.reply.len = 0

Routed(s) ==
  /\ s.rule # Nobody =>
       \E i \in DOMAIN given :
         /\ given[i] = s.rule /\ Applies(given[i], s.msg.path)
         /\ \A j \in DOMAIN given : Applies(given[j], s.msg.path) => ~Better(j, i)
  /\ (s.rule = Nobody /\ s.reply # Nobody) =>
       \A j \in DOMAIN given : ~Applies(given[j], s.msg.path)

Good(s) == s \in ConnSet /\ Phase(s) /\ Fits(s) /\ IsWhole(s) /\ Routed(s)
ConnInv == conn \in [Conns -> ConnSet] /\ \A c \in Conns : Good(conn[c])

\* Start-up: nobody is served before the rules are in order.
SetupInv ==
  /\ given \in Seq(ProxyArgs) /\ dnsOn \in BOOLEAN /\ proxies \in Seq(ProxyArgs)
  /\ main = "proxies" => bound = 0 /\ \A c \in Conns : conn[c].pc = "idle"
  /\ main = "dns" => bound = 0
  /\ main # "proxies" =>
       \E p \in [DOMAIN given -> DOMAIN given] :
         /\ LongestFirst(p, [i \in DOMAIN given |-> Len(given[i].prefix)])
         /\ proxies = Reordered(given, p)

\* The listeners: a loop that has ended has left its error in the channel.
ListenInv ==
  /\ proc \in {"up", "fatal", "panic"}
  /\ main \in {"proxies", "dns", "listen", "wait"} /\ dns \in {"off", "binding", "serving"}
  /\ bound \in 0..NAddrs /\ loop \in [Addrs -> {"none", "accepting", "ended"}] /\ errCh \in 0..NAddrs
  /\ main = "wait" => bound = NAddrs
  /\ \A a \in Addrs : a <= bound <=> loop[a] # "none"
  /\ proc = "up" => \A a \in Addrs : loop[a] = "ended" => errCh > 0

ServiceInv == SetupInv /\ ListenInv /\ ConnInv /\ OnlyKnownPanics

LEMMA IdleIsGood == Good(Idle)
<1>1. Idle \in ConnSet
  BY ServiceAssumption DEF Idle, ConnSet, ConnPcs
<1>2. Phase(Idle) /\ Fits(Idle) /\ IsWhole(Idle) /\ Routed(Idle)
  BY DEF Idle, Phase, Fits, IsWhole, Routed
<1> QED
  BY <1>1, <1>2 DEF Good

\* The invariant has what the properties say.
LEMMA InvImplies ==
  ServiceInv => TypeOK /\ OnlyKnownPanics /\ EveryAddressServed /\ RoutedByLongestPrefix /\ ProxyReplyWhole
<1> SUFFICES ASSUME ServiceInv
             PROVE  TypeOK /\ OnlyKnownPanics /\ EveryAddressServed /\ RoutedByLongestPrefix /\ ProxyReplyWhole
  OBVIOUS
<1>1. TypeOK
  BY DEF ServiceInv, SetupInv, ListenInv, ConnInv, Good, Fits, ConnSet, TypeOK
<1>2. EveryAddressServed
  <2> SUFFICES ASSUME proc = "up", main = "wait", errCh = 0, NEW a \in Addrs PROVE loop[a] = "accepting"
    BY DEF EveryAddressServed
  <2>1. a <= bound
    BY ServiceAssumption DEF ServiceInv, ListenInv, Addrs
  <2>2. loop[a] # "none" /\ loop[a] # "ended" /\ loop[a] \in {"none", "accepting", "ended"}
    BY <2>1 DEF ServiceInv, ListenInv
  <2> QED
    BY <2>2
<1>3. RoutedByLongestPrefix
  BY DEF ServiceInv, ConnInv, Good, Routed, RoutedByLongestPrefix
<1>4. ProxyReplyWhole
  BY DEF ServiceInv, ConnInv, Good, IsWhole, ProxyReplyWhole
<1> QED
  BY <1>1, <1>2, <1>3, <1>4 DEF ServiceInv

LEMMA InitEstablishes == Init => ServiceInv
<1> SUFFICES ASSUME Init PROVE ServiceInv
  OBVIOUS
<1>1. given \in Seq(ProxyArgs)
  BY ServiceAssumption DEF Init, BoundedSeq, SeqOf
<1>2. \A c \in Conns : conn[c] = Idle
  BY DEF Init
<1>3. ConnInv
  BY <1>2, IdleIsGood DEF Init, ConnInv, Good
<1>4. SetupInv
  BY <1>1, <1>2 DEF Init, SetupInv, Idle
<1>5. ListenInv
  BY ServiceAssumption DEF Init, ListenInv, Addrs
<1>6. OnlyKnownPanics
  BY DEF Init, OnlyKnownPanics
<1> QED
  BY <1>3, <1>4, <1>5, <1>6 DEF ServiceInv

-----------------------------------------------------------------------------
(* Frames: what a step of main or of a connection leaves alone.            *)

\* Good only looks at the record and at the flags, which never change.
LEMMA GoodFrame ==
  ASSUME given' = given, NEW d, Good(conn'[d])
  PROVE  Good(conn[d])'
<1>1. (conn[d] \in ConnSet /\ Phase(conn[d]) /\ Fits(conn[d]))'
  BY DEF Good, Phase, Fits, ConnSet, ConnPcs, Reply
<1>2. IsWhole(conn[d])'
  BY DEF Good, IsWhole
<1>3. Routed(conn[d])'
  BY DEF Good, Routed, Applies, Better
<1> QED
  BY <1>1, <1>2, <1>3 DEF Good

\* One connection moves to s.
LEMMA ConnStep ==
  ASSUME ServiceInv, proc = "up", UNCHANGED <<setup, proc, listeners>>,
         NEW c \in Conns, NEW s, Good(s), main # "proxies" \/ s.pc = "idle",
         conn' = [conn EXCEPT ![c] = s]
  PROVE  ServiceInv'
<1>1. given' = given /\ proxies' = proxies /\ dnsOn' = dnsOn
  BY DEF setup
<1>2. conn' \in [Conns -> ConnSet] /\ \A d \in Conns : conn'[d] = IF d = c THEN s ELSE conn[d]
  BY DEF ServiceInv, ConnInv, Good
<1>3. \A d \in Conns : Good(conn'[d])
  BY <1>2 DEF ServiceInv, ConnInv
<1>4. ConnInv'
  <2>1. \A d \in Conns : Good(conn[d])'
    BY <1>1, <1>3, GoodFrame
  <2> QED
    BY <1>2, <2>1 DEF ConnInv, ConnSet, ConnPcs, Reply
<1>5. SetupInv'
  BY <1>1, <1>2 DEF ServiceInv, SetupInv, listeners
<1>6. ListenInv'
  BY DEF ServiceInv, ListenInv, listeners
<1>7. OnlyKnownPanics'
  BY DEF OnlyKnownPanics
<1> QED
  BY <1>4, <1>5, <1>6, <1>7 DEF ServiceInv

\* No connection moves.
LEMMA ConnFrame ==
  ASSUME ServiceInv, UNCHANGED <<given, conn>>
  PROVE  ConnInv'
<1>1. \A d \in Conns : Good(conn'[d])
  BY DEF ServiceInv, ConnInv
<1>2. \A d \in Conns : Good(conn[d])'
  BY <1>1, GoodFrame
<1> QED
  BY <1>2 DEF ServiceInv, ConnInv, ConnSet, ConnPcs, Reply

\* log.Fatal, wherever it is called.
LEMMA FatalKeeps ==
  ASSUME ServiceInv, Fatal, UNCHANGED <<setup, main, dns, bound, loop>>, errCh' \in 0..NAddrs
  PROVE  ServiceInv'
<1>1. given' = given /\ proxies' = proxies /\ dnsOn' = dnsOn /\ proc' = "fatal"
  BY DEF setup, Fatal
<1>2. \A d \in Conns : conn'[d] = Idle
  BY DEF Fatal
<1>3. ConnInv'
  <2>1. \A d \in Conns : Good(conn[d])'
    BY <1>1, <1>2, IdleIsGood, GoodFrame
  <2>2. conn' \in [Conns -> ConnSet]
    BY IdleIsGood DEF Fatal, Good
  <2> QED
    BY <2>1, <2>2 DEF ConnInv, ConnSet, ConnPcs, Reply
<1>4. SetupInv'
  <2>1. \A d \in Conns : conn'[d].pc = "idle"
    BY <1>2 DEF Idle
  <2> QED
    BY <1>1, <2>1 DEF ServiceInv, SetupInv
<1>5. ListenInv'
  BY <1>1 DEF ServiceInv, ListenInv
<1>6. OnlyKnownPanics'
  BY <1>1 DEF OnlyKnownPanics
<1> QED
  BY <1>3, <1>4, <1>5, <1>6 DEF ServiceInv

-----------------------------------------------------------------------------
(* main and the listeners.                                                 *)

LEMMA ParseProxyRulesKeeps == ServiceInv /\ ParseProxyRules => ServiceInv'
<1> SUFFICES ASSUME ServiceInv, ParseProxyRules PROVE ServiceInv'
  OBVIOUS
<1>0. /\ proc = "up" /\ main = "proxies" /\ UNCHANGED <<given, dnsOn, dns, bound, loop, errCh>>
      /\ errCh \in 0..NAddrs
  BY DEF ParseProxyRules, ServiceInv, ListenInv
<1>1. CASE \E i \in DOMAIN given : ~given[i].valid
  <2>1. Fatal /\ UNCHANGED <<main, proxies>>
    BY <1>1 DEF ParseProxyRules
  <2> QED
    BY <1>0, <2>1, FatalKeeps DEF setup
<1>2. CASE ~\E i \in DOMAIN given : ~given[i].valid
  <2>0. SortProxies
    BY <1>2 DEF ParseProxyRules
  <2>1. PICK p \in [DOMAIN given -> DOMAIN given] :
          /\ LongestFirst(p, [i \in DOMAIN given |-> Len(given[i].prefix)])
          /\ proxies' = Reordered(given, p)
    BY <2>0 DEF SortProxies
  <2>2. main' = "dns" /\ UNCHANGED <<proc, conn>>
    BY <2>0 DEF SortProxies
  <2>3. proxies' \in Seq(ProxyArgs)
    <3>1. given \in Seq(ProxyArgs)
      BY DEF ServiceInv, SetupInv
    <3>2. \A i \in DOMAIN given : given[p[i]] \in ProxyArgs
      BY <3>1
    <3> QED
      BY <2>1, <3>1, <3>2 DEF Reordered
  <2>4. ConnInv'
    BY <1>0, <2>2, ConnFrame
  <2>5. SetupInv'
    BY <1>0, <2>1, <2>2, <2>3 DEF ServiceInv, SetupInv
  <2>6. ListenInv'
    BY <1>0, <2>2 DEF ServiceInv, ListenInv
  <2>7. OnlyKnownPanics'
    BY <1>0, <2>2 DEF OnlyKnownPanics
  <2> QED
    BY <2>4, <2>5, <2>6, <2>7 DEF ServiceInv
<1> QED
  BY <1>1, <1>2

LEMMA StartDNSKeeps == ServiceInv /\ StartDNS => ServiceInv'
<1> SUFFICES ASSUME ServiceInv, StartDNS PROVE ServiceInv'
  OBVIOUS
<1>1. ConnInv'
  BY ConnFrame DEF StartDNS, setup
<1>2. SetupInv'
  BY DEF StartDNS, setup, ServiceInv, SetupInv
<1>3. ListenInv'
  BY DEF StartDNS, ServiceInv, ListenInv
<1>4. OnlyKnownPanics'
  BY DEF StartDNS, OnlyKnownPanics
<1> QED
  BY <1>1, <1>2, <1>3, <1>4 DEF ServiceInv

LEMMA DnsListenKeeps == ServiceInv /\ DnsListen => ServiceInv'
<1> SUFFICES ASSUME ServiceInv, DnsListen PROVE ServiceInv'
  OBVIOUS
<1>1. CASE Fatal /\ UNCHANGED dns
  BY <1>1, FatalKeeps DEF DnsListen, ServiceInv, ListenInv
<1>2. CASE dns' = "serving" /\ UNCHANGED <<proc, conn>>
  <2>1. ConnInv'
    BY <1>2, ConnFrame DEF DnsListen, setup
  <2>2. SetupInv'
    BY <1>2 DEF DnsListen, setup, ServiceInv, SetupInv
  <2>3. ListenInv'
    BY <1>2 DEF DnsListen, ServiceInv, ListenInv
  <2>4. OnlyKnownPanics'
    BY <1>2 DEF DnsListen, OnlyKnownPanics
  <2> QED
    BY <2>1, <2>2, <2>3, <2>4 DEF ServiceInv
<1> QED
  BY <1>1, <1>2 DEF DnsListen

LEMMA ListenKeeps == ServiceInv /\ Listen => ServiceInv'
<1> SUFFICES ASSUME ServiceInv, Listen PROVE ServiceInv'
  OBVIOUS
<1>1. ConnInv'
  BY ConnFrame DEF Listen, setup
<1>2. SetupInv'
  BY DEF Listen, setup, ServiceInv, SetupInv
<1>3. ListenInv'
  <2>0. /\ bound \in 0..NAddrs /\ NAddrs \in Nat /\ loop \in [Addrs -> {"none", "accepting", "ended"}]
        /\ \A a \in Addrs : a <= bound <=> loop[a] # "none"
        /\ \A a \in Addrs : loop[a] = "ended" => errCh > 0
    BY ServiceAssumption DEF ServiceInv, ListenInv, Listen
  <2>1. CASE /\ bound < NAddrs
             /\ bound' = bound + 1 /\ loop' = [loop EXCEPT ![bound + 1] = "accepting"]
             /\ UNCHANGED main
    <3>1. /\ bound + 1 \in Addrs /\ loop' \in [Addrs -> {"none", "accepting", "ended"}]
          /\ \A a \in Addrs : loop'[a] = IF a = bound + 1 THEN "accepting" ELSE loop[a]
      BY <2>0, <2>1 DEF Addrs
    <3>2. \A a \in Addrs : a <= bound' <=> loop'[a] # "none"
      BY <2>0, <2>1, <3>1 DEF Addrs
    <3> QED
      BY <2>0, <2>1, <3>1, <3>2 DEF Listen, ServiceInv, ListenInv
  <2>2. CASE bound = NAddrs /\ main' = "wait" /\ UNCHANGED <<bound, loop>>
    BY <2>2 DEF Listen, ServiceInv, ListenInv
  <2> QED
    BY <2>1, <2>2 DEF Listen
<1>4. OnlyKnownPanics'
  BY DEF Listen, OnlyKnownPanics
<1> QED
  BY <1>1, <1>2, <1>3, <1>4 DEF ServiceInv

LEMMA AcceptFailsKeeps == \A a \in Addrs : ServiceInv /\ AcceptFails(a) => ServiceInv'
<1> SUFFICES ASSUME NEW a \in Addrs, ServiceInv, AcceptFails(a) PROVE ServiceInv'
  OBVIOUS
<1>1. ConnInv'
  BY ConnFrame DEF AcceptFails, setup
<1>2. SetupInv'
  BY DEF AcceptFails, setup, ServiceInv, SetupInv
<1>3. ListenInv'
  <2>1. errCh' \in 0..NAddrs /\ errCh' > 0
    BY ServiceAssumption DEF AcceptFails, ServiceInv, ListenInv
  <2>2. /\ loop' \in [Addrs -> {"none", "accepting", "ended"}]
        /\ \A b \in Addrs : loop'[b] # "none" <=> loop[b] # "none"
    BY DEF AcceptFails, ServiceInv, ListenInv
  <2> QED
    BY <2>1, <2>2 DEF AcceptFails, ServiceInv, ListenInv
<1>4. OnlyKnownPanics'
  BY DEF AcceptFails, OnlyKnownPanics
<1> QED
  BY <1>1, <1>2, <1>3, <1>4 DEF ServiceInv

LEMMA MainStepKeeps == ServiceInv /\ MainStep => ServiceInv'
<1> SUFFICES ASSUME ServiceInv, MainStep PROVE ServiceInv'
  OBVIOUS
<1>1. CASE ListenFails
  BY <1>1, FatalKeeps DEF ListenFails, listeners, ServiceInv, ListenInv
<1>2. CASE ReceiveError
  <2>1. errCh' \in 0..NAddrs
    BY <1>2, ServiceAssumption DEF ReceiveError, ServiceInv, ListenInv
  <2> QED
    BY <1>2, <2>1, FatalKeeps DEF ReceiveError
<1> QED
  BY <1>1, <1>2, ParseProxyRulesKeeps, StartDNSKeeps, ListenKeeps DEF MainStep

-----------------------------------------------------------------------------
(* The connections.                                                        *)

\* A connection that is open has a running process behind it with its rules.
LEMMA Open ==
  ASSUME ServiceInv, NEW c \in Conns, NEW at \in ConnPcs \ {"idle"}, At(c, at)
  PROVE  /\ proc = "up" /\ main # "proxies" /\ Good(conn[c]) /\ conn[c] \in ConnSet /\ conn[c].pc = at
BY DEF ServiceInv, SetupInv, ConnInv, At

LEMMA AcceptKeeps == \A a \in Addrs, c \in Conns : ServiceInv /\ Accept(a, c) => ServiceInv'
<1> SUFFICES ASSUME NEW a \in Addrs, NEW c \in Conns, ServiceInv, Accept(a, c) PROVE ServiceInv'
  OBVIOUS
<1> DEFINE s == [conn[c] EXCEPT !.pc = "hello"]
<1>1. conn[c] \in ConnSet /\ Good(conn[c]) /\ conn[c].pc = "idle" /\ conn \in [Conns -> ConnSet]
  BY DEF ServiceInv, ConnInv, Accept
<1>2. main # "proxies"
  BY ServiceAssumption DEF Accept, ServiceInv, SetupInv, ListenInv, Addrs
<1>3. conn' = [conn EXCEPT ![c] = s]
  BY <1>1 DEF Accept
<1>4. Good(s)
  BY <1>1 DEF Good, ConnSet, ConnPcs, Phase, Fits, IsWhole, Routed
<1> QED
  BY <1>2, <1>3, <1>4, ConnStep DEF Accept

\* What a parser may say and what that makes of the connection.
LEMMA VerdictKeeps ==
  ASSUME ServiceInv, proc = "up", main # "proxies", NEW c \in Conns,
         NEW verdict \in Verdicts, NEW ok, NEW more,
         NEW msg \in Hellos \cup Exchanges \cup Requests,
         Verdict(c, verdict, msg, ok, more),
         verdict = "ok" => Good(ok), verdict = "more" => Good(more),
         verdict = "panic" => (msg.v = 3 /\ msg.len = 38) \/ (msg.v = 1 /\ msg.cl < 0)
  PROVE  ServiceInv'
<1>0. UNCHANGED <<setup, listeners>>
  BY DEF Verdict
<1>1. CASE verdict = "ok"
  BY <1>1, ConnStep DEF Verdict
<1>2. CASE verdict = "more"
  BY <1>2, ConnStep DEF Verdict
<1>3. CASE verdict = "error"
  BY <1>3, ConnStep, IdleIsGood DEF Verdict
<1>4. CASE verdict = "panic"
  <2> DEFINE s == [Idle EXCEPT !.pc = "panicked", !.msg = msg]
  <2>1. proc' = "panic" /\ given' = given /\ proxies' = proxies /\ dnsOn' = dnsOn
    BY <1>0, <1>4 DEF Verdict, setup
  <2>2. \A d \in Conns : conn'[d] = IF d = c THEN s ELSE Idle
    BY <1>4 DEF Verdict
  <2>3. s \in ConnSet /\ s.pc = "panicked" /\ s.msg = msg /\ s.rule = Nobody /\ s.reply = Nobody
    <3>1. Idle \in ConnSet /\ Idle.rule = Nobody /\ Idle.reply = Nobody
      BY IdleIsGood DEF Good, Idle
    <3> QED
      BY <3>1 DEF ConnSet, ConnPcs
  <2>4. Good(s)
    BY <2>3 DEF Good, Phase, Fits, IsWhole, Routed
  <2>5. conn' \in [Conns -> ConnSet]
    <3>1. conn' = [[d \in Conns |-> Idle] EXCEPT ![c].pc = "panicked", ![c].msg = msg]
      BY <1>4 DEF Verdict
    <3>2. conn' = [d \in Conns |-> IF d = c THEN s ELSE Idle]
      BY <3>1
    <3> HIDE DEF s
    <3> QED
      BY <3>2, <2>3, IdleIsGood DEF Good
  <2> HIDE DEF s
  <2>6. ConnInv'
    <3>1. \A d \in Conns : Good(conn[d])'
      BY <2>1, <2>2, <2>4, IdleIsGood, GoodFrame
    <3> QED
      BY <2>5, <3>1 DEF ConnInv, ConnSet, ConnPcs, Reply
  <2>7. SetupInv'
    BY <1>0, <2>1 DEF ServiceInv, SetupInv, listeners
  <2>8. ListenInv'
    BY <1>0, <2>1 DEF ServiceInv, ListenInv, listeners
  <2>9. OnlyKnownPanics'
    <3>1. conn'[c].pc = "panicked" /\ conn'[c].msg = msg
      BY <2>2, <2>3
    <3> QED
      BY <1>4, <3>1 DEF OnlyKnownPanics
  <2> QED
    BY <2>6, <2>7, <2>8, <2>9 DEF ServiceInv
<1> QED
  BY <1>1, <1>2, <1>3, <1>4 DEF Verdicts

LEMMA ReadClientHelloKeeps ==
  \A c \in Conns, h \in Hellos : ServiceInv /\ ReadClientHello(c, h) => ServiceInv'
<1> SUFFICES ASSUME NEW c \in Conns, NEW h \in Hellos, ServiceInv, ReadClientHello(c, h) PROVE ServiceInv'
  OBVIOUS
<1> DEFINE ok == [conn[c] EXCEPT !.pc = "cke"]
           verdict == readClientHello(h)
<1>1. proc = "up" /\ main # "proxies" /\ Good(conn[c]) /\ conn[c] \in ConnSet /\ conn[c].pc = "hello"
  BY Open DEF ReadClientHello, ConnPcs
<1>2. verdict \in {"ok", "error", "panic"} /\ (verdict = "panic" => h.v = 3 /\ h.len = 38)
  BY ServiceAssumption, HelloVerdict
<1>3. Good(ok)
  BY <1>1 DEF Good, ConnSet, ConnPcs, Phase, Fits, IsWhole, Routed
<1>4. Verdict(c, verdict, h, ok, conn[c])
  BY DEF ReadClientHello
<1> HIDE DEF ok, verdict
<1> QED
  BY <1>1, <1>2, <1>3, <1>4, VerdictKeeps DEF Verdicts

LEMMA ReadKeyExchangeKeeps ==
  \A c \in Conns, x \in Exchanges : ServiceInv /\ ReadKeyExchange(c, x) => ServiceInv'
<1> SUFFICES ASSUME NEW c \in Conns, NEW x \in Exchanges, ServiceInv, ReadKeyExchange(c, x) PROVE ServiceInv'
  OBVIOUS
<1> DEFINE ok == [conn[c] EXCEPT !.pc = "request"]
           verdict == decryptPremaster(x)
<1>1. proc = "up" /\ main # "proxies" /\ Good(conn[c]) /\ conn[c] \in ConnSet /\ conn[c].pc = "cke"
  BY Open DEF ReadKeyExchange, ConnPcs
<1>2. verdict \in {"ok", "error"}
  BY ServiceAssumption, ExchangeVerdict
<1>3. Good(ok)
  BY <1>1 DEF Good, ConnSet, ConnPcs, Phase, Fits, IsWhole, Routed
<1>4. Verdict(c, verdict, x, ok, conn[c])
  BY DEF ReadKeyExchange
<1> HIDE DEF ok, verdict
<1> QED
  BY <1>1, <1>2, <1>3, <1>4, VerdictKeeps DEF Verdicts

LEMMA ParseKeeps ==
  ASSUME ServiceInv, NEW c \in Conns, At(c, "request"), NEW r \in Requests, NEW have \in 0..MaxHave,
         Parse(c, r, have)
  PROVE  ServiceInv'
<1> DEFINE ok == [conn[c] EXCEPT !.pc = "dispatch", !.msg = r, !.have = r.cl]
           more == [conn[c] EXCEPT !.msg = r, !.have = have]
           verdict == parseHTTPRequest(r, have)
<1>0. MaxHave \in Nat /\ have \in Nat /\ r \in Asked
  BY ServiceAssumption
<1>1. proc = "up" /\ main # "proxies" /\ Good(conn[c]) /\ conn[c] \in ConnSet /\ conn[c].pc = "request"
  BY Open DEF ConnPcs
<1>2. /\ verdict \in {"ok", "more", "panic"}
      /\ verdict = "ok" => r.cl \in 0..MaxHave
      /\ verdict = "panic" => r.v = 1 /\ r.cl < 0
  BY <1>0, RequestVerdict
<1>3. verdict = "ok" => Good(ok)
  BY <1>1, <1>2 DEF Good, ConnSet, ConnPcs, Phase, Fits, IsWhole, Routed
<1>4. Good(more)
  BY <1>1 DEF Good, ConnSet, ConnPcs, Phase, Fits, IsWhole, Routed
<1>5. Verdict(c, verdict, r, ok, more)
  BY DEF Parse
<1> HIDE DEF ok, more, verdict
<1> QED
  BY <1>1, <1>2, <1>3, <1>4, <1>5, VerdictKeeps DEF Verdicts

LEMMA ReadsKeep == \A c \in Conns : ServiceInv /\ Reads(c) => ServiceInv'
<1> SUFFICES ASSUME NEW c \in Conns, ServiceInv, Reads(c) PROVE ServiceInv'
  OBVIOUS
<1>1. ASSUME NEW r \in Requests, NEW have \in 0..MaxHave, ReadRequest(c, r, have) PROVE ServiceInv'
  BY <1>1, ParseKeeps DEF ReadRequest
<1>2. CASE ReadMore(c)
  <2>1. At(c, "request") /\ Good(conn[c]) /\ conn[c] \in ConnSet /\ conn[c].pc = "request"
    BY <1>2, Open DEF ReadMore, ConnPcs
  <2>2. conn[c].msg \in Requests
    BY <1>2, <2>1 DEF ReadMore, Good, Phase
  <2>3. conn[c].have + 1 \in 0..MaxHave
    BY <1>2, <2>1, ServiceAssumption DEF ReadMore, ConnSet
  <2>4. Parse(c, conn[c].msg, conn[c].have + 1)
    BY <1>2 DEF ReadMore
  <2> QED
    BY <2>1, <2>2, <2>3, <2>4, ParseKeeps
<1>3. CASE Leave(c)
  BY <1>3, ConnStep, IdleIsGood DEF Leave, At, Idle
<1> QED
  BY <1>1, <1>2, <1>3, ReadClientHelloKeeps, ReadKeyExchangeKeeps DEF Reads

\* The flags and the rules in their order, once a connection is open.
LEMMA SortedRules ==
  ASSUME ServiceInv, main # "proxies"
  PROVE  /\ given \in Seq(ProxyArgs) /\ proxies \in Seq(ProxyArgs)
         /\ \E p \in [DOMAIN given -> DOMAIN given] :
              /\ LongestFirst(p, [i \in DOMAIN given |-> Len(given[i].prefix)])
              /\ proxies = Reordered(given, p)
BY DEF ServiceInv, SetupInv

LEMMA DispatchToProxyKeeps == \A c \in Conns : ServiceInv /\ DispatchToProxy(c) => ServiceInv'
<1> SUFFICES ASSUME NEW c \in Conns, ServiceInv, DispatchToProxy(c) PROVE ServiceInv'
  OBVIOUS
<1>1. /\ proc = "up" /\ main # "proxies" /\ Good(conn[c]) /\ conn[c] \in ConnSet /\ conn[c].pc = "dispatch"
      /\ conn \in [Conns -> ConnSet]
  BY Open DEF DispatchToProxy, ConnPcs, ServiceInv, ConnInv
<1>2. PICK i \in DOMAIN proxies :
        /\ First(conn[c].msg.path, i)
        /\ conn' = [conn EXCEPT ![c].pc = "proxy", ![c].rule = proxies[i]]
  BY DEF DispatchToProxy
<1> DEFINE s == [conn[c] EXCEPT !.pc = "proxy", !.rule = proxies[i]]
<1>3. conn' = [conn EXCEPT ![c] = s]
  BY <1>1, <1>2
<1>4. proxies[i] \in ProxyArgs /\ proxies[i] # Nobody
  BY <1>1, SortedRules, ServiceAssumption
<1>5. \E g \in DOMAIN given :
        /\ given[g] = proxies[i] /\ Applies(given[g], conn[c].msg.path)
        /\ \A j \in DOMAIN given : Applies(given[j], conn[c].msg.path) => ~Better(j, g)
  BY <1>1, <1>2, SortedRules, Routing
<1>6. /\ s \in ConnSet /\ s.pc = "proxy" /\ s.msg = conn[c].msg /\ s.msg \in Requests
      /\ s.rule = proxies[i] /\ s.reply = Nobody
  BY <1>1, <1>4 DEF Good, Phase, ConnSet, ConnPcs
<1> HIDE DEF s
<1>7. Good(s)
  BY <1>4, <1>5, <1>6 DEF Good, Phase, Fits, IsWhole, Routed
<1> QED
  BY <1>1, <1>3, <1>7, ConnStep DEF DispatchToProxy

\* A reply is put together.
LEMMA RepliedKeeps ==
  ASSUME ServiceInv, NEW c \in Conns, NEW at \in {"dispatch", "proxy"}, At(c, at),
         NEW status \in Nat, NEW len \in Nat, NEW from \in Backends \cup {Nobody},
         Replied(c, status, len, from),
         at = "dispatch" => ~Proxied(c),
         at = "proxy" => len <= MaxProxyBody,
         from # Nobody => \/ from.readable /\ status = from.status /\ len = from.len
                          \/ status = 502 /\ len = 0
  PROVE  ServiceInv'
<1> DEFINE a == [status |-> status, len |-> len, from |-> from]
           s == [conn[c] EXCEPT !.pc = "reply", !.reply = a]
<1>1. /\ proc = "up" /\ main # "proxies" /\ Good(conn[c]) /\ conn[c] \in ConnSet /\ conn[c].pc = at
      /\ conn \in [Conns -> ConnSet]
  BY Open DEF ConnPcs, ServiceInv, ConnInv
<1>2. conn' = [conn EXCEPT ![c] = s]
  BY <1>1 DEF Replied
<1>3. a \in Reply /\ a.status = status /\ a.len = len /\ a.from = from
  BY DEF Reply
<1> HIDE DEF a
<1>4. /\ s \in ConnSet /\ s.pc = "reply" /\ s.msg = conn[c].msg /\ s.msg \in Requests
      /\ s.rule = conn[c].rule /\ s.reply = a
  BY <1>1, <1>3 DEF Good, Phase, ConnSet, ConnPcs
<1> HIDE DEF s
<1>5. Phase(s)
  BY <1>4 DEF Phase
<1>6. Fits(s) /\ IsWhole(s)
  BY <1>1, <1>3, <1>4 DEF Fits, IsWhole, Good, Phase
<1>7. Routed(s)
  <2>1. CASE at = "dispatch"
    <3>1. \A j \in DOMAIN given : ~Applies(given[j], conn[c].msg.path)
      BY <1>1, <2>1, SortedRules, Routing DEF Proxied
    <3>2. s.rule = Nobody
      BY <1>1, <1>4, <2>1 DEF Good, Phase
    <3> QED
      BY <1>4, <3>1, <3>2 DEF Routed
  <2>2. CASE at = "proxy"
    BY <1>1, <1>4, <2>2 DEF Good, Phase, Routed
  <2> QED
    BY <2>1, <2>2
<1>8. Good(s)
  BY <1>4, <1>5, <1>6, <1>7 DEF Good
<1> QED
  BY <1>1, <1>2, <1>8, ConnStep DEF Replied

LEMMA AnswersKeep == \A c \in Conns : ServiceInv /\ Answers(c) => ServiceInv'
<1> SUFFICES ASSUME NEW c \in Conns, ServiceInv, Answers(c) PROVE ServiceInv'
  OBVIOUS
<1>0. MaxProxyBody \in Nat
  BY ServiceAssumption
<1>1. CASE DispatchToReplay(c)
  BY <1>1, RepliedKeeps DEF DispatchToReplay
<1>2. CASE DispatchToFile(c)
  BY <1>2, RepliedKeeps DEF DispatchToFile
<1>3. CASE BadRequest(c)
  BY <1>0, <1>3, RepliedKeeps DEF BadRequest
<1>4. CASE BackendFails(c)
  BY <1>0, <1>4, RepliedKeeps DEF BackendFails
<1> QED
  BY <1>1, <1>2, <1>3, <1>4, DispatchToProxyKeeps DEF Answers

LEMMA BackendAnswersKeeps ==
  \A c \in Conns, b \in Backends : ServiceInv /\ BackendAnswers(c, b) => ServiceInv'
<1> SUFFICES ASSUME NEW c \in Conns, NEW b \in Backends, ServiceInv, BackendAnswers(c, b) PROVE ServiceInv'
  OBVIOUS
<1>0. /\ MaxProxyBody \in Nat /\ b.status \in Nat /\ b.len \in Nat /\ At(c, "proxy")
  BY ServiceAssumption DEF Backend, BackendAnswers
<1>1. CASE BodyRefused(b)
  <2>1. Replied(c, 502, 0, b)
    BY <1>1 DEF BackendAnswers
  <2> QED
    BY <1>0, <2>1, RepliedKeeps
<1>2. CASE ~BodyRefused(b)
  <2>1. b.readable /\ ReadBody(b) = b.len /\ b.len <= MaxProxyBody
    BY <1>0, <1>2 DEF BodyRefused, ReadBody
  <2>2. Replied(c, b.status, b.len, b)
    BY <1>2, <2>1 DEF BackendAnswers
  <2> QED
    BY <1>0, <2>1, <2>2, RepliedKeeps
<1> QED
  BY <1>1, <1>2

LEMMA WriteReplyKeeps == \A c \in Conns : ServiceInv /\ WriteReply(c) => ServiceInv'
BY ConnStep, IdleIsGood DEF WriteReply, At, Idle

-----------------------------------------------------------------------------
(* What follows.                                                           *)

LEMMA StepKeeps == ServiceInv /\ [Next]_vars => ServiceInv'
<1> SUFFICES ASSUME ServiceInv, [Next]_vars PROVE ServiceInv'
  OBVIOUS
<1>1. CASE UNCHANGED vars
  <2>1. UNCHANGED <<given, conn>>
    BY <1>1 DEF vars, setup
  <2>2. SetupInv' /\ ListenInv' /\ OnlyKnownPanics'
    BY <1>1 DEF vars, setup, listeners, ServiceInv, SetupInv, ListenInv, OnlyKnownPanics
  <2> QED
    BY <2>1, <2>2, ConnFrame DEF ServiceInv
<1>2. ASSUME NEW a \in Addrs, Listener(a) PROVE ServiceInv'
  BY <1>2, AcceptFailsKeeps, AcceptKeeps DEF Listener
<1>3. ASSUME NEW c \in Conns, Reads(c) \/ Answers(c) \/ WriteReply(c) \/ \E b \in Backends : BackendAnswers(c, b)
      PROVE  ServiceInv'
  BY <1>3, ReadsKeep, AnswersKeep, WriteReplyKeeps, BackendAnswersKeeps
<1> QED
  BY <1>1, <1>2, <1>3, MainStepKeeps, DnsListenKeeps DEF Next

\* The inductive invariant: where main, the listeners and each connection stand
\* says what they have.
THEOREM ServiceInvariant == Spec => []ServiceInv
<1>1. Init => ServiceInv
  BY InitEstablishes
<1>2. ServiceInv /\ [Next]_vars => ServiceInv'
  BY StepKeeps
<1> QED
  BY <1>1, <1>2, PTL DEF Spec

\* Process, listeners and connections keep their types, and no proxied reply is
\* larger than maxProxyBody.
THEOREM ServiceTypeCorrect == Spec => []TypeOK
BY ServiceInvariant, InvImplies, PTL

\* A client can bring the process down with two messages only: the v3 hello of
\* 38 bytes and the negative Content-Length.  Every other slice and index of the
\* parsers is covered by the checks before it.
THEOREM PanicsAreKnown == Spec => []OnlyKnownPanics
BY ServiceInvariant, InvImplies, PTL

\* listenTLS10 never goes on without one of its addresses.
THEOREM AddressesAreServed == Spec => []EveryAddressServed
BY ServiceInvariant, InvImplies, PTL

\* The stable sort of parseProxyRules and the first match of proxyFor together
\* choose the most specific flag, the earlier of two equal ones.
THEOREM LongestPrefixRoutes == Spec => []RoutedByLongestPrefix
BY ServiceInvariant, InvImplies, PTL

\* proxy relays a backend's body whole or answers 502.
THEOREM ProxyRepliesAreWhole == Spec => []ProxyReplyWhole
BY ServiceInvariant, InvImplies, PTL
=============================================================================
