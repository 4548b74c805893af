# TLA+ models of dnasrep

dnasrep replaces the DNAS authentication servers for PlayStation 2 titles: a
DNS redirector sends the console to it, a hand-written TLS 1.0 server speaks the
console's SSLv2-flavoured handshake, and captured replies are replayed over it.
This directory holds TLA+ models of that program, the TLC configurations that
check them and TLAPS proofs. Line numbers refer to the Go files at the root of
the repository.

## The system

| Component | State | Operations | Interacts with |
| --- | --- | --- | --- |
| DNS redirector (`dns.go`) | none of its own; one goroutine per datagram | `listen`, `handle`, `lookup`, `forward`, `parseQuestion`, `buildAResponse` | answers consoles, asks an upstream resolver (3 s deadline), writes the hints |
| Region hints (`hints.go`) | `byIP`: the region each client IP resolved last, under a mutex | `set`, `get`, `regionFromName`, `certFor` | written by DNS goroutines, read by TLS goroutines |
| TLS 1.0 server (`tls10.go`) | per connection: transcript, keys, IVs, sequence numbers, active flags | handshake, record layer, `readAppData`, `serveHTTP` | `certFor` before the hello is read; `dispatch` for the request |
| Packet replay (`dnas.go`, `dispatch`) | files of the gateway directory, read per request | `loadReply`, `connectReply`, `othersReply`, `missingPacketReply`, `successReply`, `errorRaw` | the operator edits the files while the server runs |
| Rules and configuration (`config.go`) | the rule list, fixed at start | `loadDNSConfig`, `rulesFromSuffixes`, `dedupeRules`, `sortRulesLongestFirst`, `successMode` | read by `lookup` and `dispatch` |
| Proxy and static files (`proxy.go`, `serveStatic`) | none | `parseProxyRules`, `proxyFor`, `proxy`, `serveStatic` | HTTP backends, the docroot |
| Start-up and listeners (`main.go`, `https.go`, `listenTLS10`) | certificates, default region, listeners, error channel | flag parsing, certificate loading, `Accept` loops | everything |
| Certificate generator (`tools/gencerts`) | the files of the certificate directory | CA key, CA certificate and leaves, one file after the other | the server reads the files when it starts |

What is hard here: DNS and TLS goroutines share the hint table and nothing
orders them against the console's packets; the TLS server must keep hashes, keys
and sequence numbers in step with a client it cannot negotiate with; a reply
depends on up to four files read one after the other; a panic in any connection
ends the process, and so does the end of any listener; the precedence of rules
is the product of several passes over them; certificates are replaced in place,
file by file. `PROJECT.json` lists these hazards at their lines.

## Modules

| Module | Models |
| --- | --- |
| `RegionHints` | redirector goroutines, hint table, `certFor`, and the consoles (external) |
| `CertChoice` | what the selection promises, abstractly |
| `MCRegionHints` | the names used by TLC |
| `RegionHintsProofs` | proofs about `RegionHints` |
| `Tls10` | one TLS connection, both ends and the network between |
| `Tls10Proofs` | proofs about `Tls10` |
| `Replay` | one DNAS query against a directory that changes |
| `ReplayProofs` | proofs about `Replay` |
| `Redirector` | the rule table from flags and `dns.config`, and one datagram through `handle` |
| `MCRedirector` | lines, suffixes and datagrams used by TLC |
| `RedirectorProofs` | proofs about `Redirector`: the rule table and both walks |
| `RedirectorWireProofs` | proof of what `handle` as a whole does with a datagram |
| `LongestFirst` | the order of both rule tables (DNS and proxy) |
| `LongestFirstProofs` | what that order gives both tables, used by the proofs about each |
| `Parsing` | the length arithmetic of hello, key exchange and request |
| `Service` | the process: start, listeners, connections, dispatch, reverse proxy; uses `Parsing` and `LongestFirst` |
| `MCService` | flags, messages and backends used by TLC |
| `ServiceProofs` | proofs about `Parsing` and `Service` |
| `Certs` | the certificate directory, gencerts and the server's start |
| `MCCerts` | the regions used by TLC |
| `CertsProofs` | proofs about `Certs` |

Definitions called "Mutated form" are deliberately wrong variants of the
definition that follows them, used to confirm that a property notices the bug;
no specification refers to them.

### RegionHints

State: `certs`, `defaultRegion` and `dnsOn` are what `main` leaves in `Server`;
`hints` is `regionHints.byIP` (the region, and as a history value which lookup
left it); `queries` are datagrams on the way; `handlers` are goroutines inside
`handle` with their position; `answers` and `conns` are the answers sent and the
connections accepted. An action ends where another goroutine can run: a socket
operation or the mutex.

| Action | Code |
| --- | --- |
| `Receive` | `listen`: ReadFrom, copy, `go handle` |
| `Answer` | `handle`: parse, rule found, WriteTo |
| `NoteRegion` | `handle`: `Hints.set`, which comes after WriteTo |
| `Forward`, `UpstreamReply`, `ForwardFails` | `forward`: the query goes out, the answer is relayed, or dial, write or deadline fail |
| `Accept`, `CertFor` | `listenTLS10` and the first lines of `handshakeAndServe` |
| `Lookup`, `Retry`, `Resolve`, `Lose` | console and UDP: a lookup abandons the previous one, datagrams are repeated and lost |

Names, query types and redirect rules are a set of questions with the subset the
redirector answers itself and the region each carries. With the redirector off
(`-dns ""`) another resolver answers and there is no hint table.

### Tls10

Each direction is a FIFO of records with room for `Window` records. One server
action per socket operation; the server is a single goroutine. The client is the
one of `tls10_test.go` (SSLv2 or v3 hello), and may also send a malformed hello
or key exchange, an RSA ciphertext that does not decrypt, alerts, handshake
messages out of turn and empty records, or close at any moment; the network may
alter records. Cryptography is symbolic: a key is the premaster and the two
randoms as their owner saw them plus a direction, a record opens only with its
key, its position and unaltered bytes, `verify_data` is its label, key and
transcript. The chance of a wrong key producing valid padding and MAC, or of
ciphertext looking like the expected plaintext message, is ignored.

HTTP bytes are units: a request is complete after `ReqLen`, a reply has
`RespLen`, a record holds at most `MaxPlain`.

### Replay

One action per `os.ReadFile`; between two of them the operator may change a file
(`Edit`), also to a partial copy. Files are lengths, replies are the file they
came from, byte 1 (the DNAS operation) and the encryption passes applied. The
lengths TLC uses lie on both sides of every bound in the code: 35 and 52 for
`packetName`, 308 for `deriveKeys`, 328 for the envelope, 2 for relabelling.
Unreadable and absent files are the same: every error of ReadFile is. The
directory of a request is either inside the docroot or rejected by `gwDirFor`
(`inside`). Each index and slice of `dnas.go` stands directly behind the length
check that protects it, so a check that fails is an error path here and there is
no path to a panic. A file shorter than two bytes names no operation.

### Redirector

Start-up is one step per line, suffix or rule: `ReadLine`, `ReadFails` and
`ConfigRead` (`loadDNSConfig` and what `main` makes of its errors, a file that
cannot be opened or read included), `AddSuffix`, `Dedupe`, `SortRules`. Then one datagram is handled, one step per iteration of each loop:
`ParseHeader`, `ParseLabel`, `RefuseLabel`, `ParseType` (`parseQuestion`),
`LookupRule` (`lookup`), `CheckIP`, `SkipLabel`, `BuildAnswer`
(`buildAResponse`). Handlers only read the table, so one datagram is the general
case; how handlers interleave is `RegionHints`' subject. Names are sequences of
bytes, with case and dots as the code treats them (bytes above 127 are left
alone, where Go would replace invalid UTF-8). Each index and slice
of `dns.go` stands directly behind its own length check, so there is no path to
a panic; what can go wrong is that a check refuses too much or accepts too
little, which `RedirectedExactly` is about. Of the header only QDCOUNT is kept.

### Service and Parsing

`main` stands at `proxies`, `dns`, `listen` or `wait` (the receive from `errCh`);
`loop` is the accept goroutine of each address, `errCh` the number of errors in
the channel, `conn` the connection goroutines, `proc` whether the process runs
or how it ended. `Fatal` and a panic take every goroutine with them.

| Action | Code |
| --- | --- |
| `ParseProxyRules` | `parseProxyRules` and the `log.Fatal` behind it |
| `StartDNS`, `DnsListen` | the DNS goroutine; only `ListenPacket` can fail |
| `Listen`, `ListenFails`, `ReceiveError` | `listenTLS10` up to its return, which ends `main` |
| `Accept`, `AcceptFails` | the accept loop of an address |
| `ReadClientHello`, `ReadKeyExchange` | the parsers of the handshake; what lies between them is `Tls10`'s |
| `ReadRequest`, `ReadMore`, `Leave` | the loop of `serveHTTP` |
| `DispatchToProxy`, `DispatchToReplay`, `DispatchToFile` | `dispatch`; rules come before endpoints and files |
| `BadRequest`, `BackendFails`, `BackendAnswers` | the ways out of `proxy` |
| `WriteReply` | the end of `serveHTTP`, sent or not |

`Parsing` has the parsers as operators on lengths: each check and each slice of
the code in its order, with verdict `ok`, `error`, `more` or `panic`. A
connection slot is reused, so the number of connections over time is not
bounded.

### Certs

The files are `caKey`, `caCert`, `leaf` and `leafKey`; `os.WriteFile` is two
steps, so that a file may be left empty or cut off. `gencerts` goes through
`LoadOrCreateCAKey`, `WriteCACert` and `WriteLeaf` for each region and may be
stopped anywhere (`Crash`, which also stands for a failed write). The server
reads the chain (`LoadChain`), then each region (`LoadRegion`) to which it adds
the chain certificate by certificate (`AppendChain`), and may do so in between. The initial directory is the shipped one or parts of it: originals
signed with a CA key nobody has. That writes reach the disk in the order they
were made is assumed.

## Runs

| Run | Bounds | Shows |
| --- | --- | --- |
| `hints_serial` | 1 console, 2 lookups of 2 datagrams, 5 kinds of question | hints have a legitimate origin, a console with serial lookups has the hint of its last one, DNS goroutines end |
| `hints_two_clients` | 2 consoles, 2 lookups each | consoles do not influence each other, certificates are loaded ones, `CertChoice` is implemented |
| `hints_race` (violation) | 1 console, 1 lookup | answer before hint: README "the next TLS connection from that IP gets the matching certificate" is not guaranteed |
| `hints_order` (violation) | 1 console, 2 lookups | handlers out of order: README "Each new lookup overrides the previous one" is not guaranteed |
| `tls_exchange` | request of 3 units, reply of 4 in records of 2, window 2, 2 alterations, 2 extra records | agreement at Finished, record layers in step, request and reply intact and protected; a script-abiding client gets its reply, a departed client frees the goroutine |
| `replay` | lengths as above, 1 edit during the request | the right capture, for the right operation and borrowed in order; over connect encrypted in both regions or not sent (a partly copied file is sent over others as it is); the fallbacks |
| `redirector` | tables of up to 2 lines and 2 suffixes, 2 IPv4 and 1 IPv6 address, datagrams cut off anywhere, a buffer they may exceed | exactly the whole A questions for redirected names are answered, by the most specific rule in the promised precedence; the answer has exactly the question; every walk ends; no half-read configuration |
| `service` | 2 addresses, 2 connections, up to 2 of 4 proxy flags, lengths on both sides of every check, backend bodies around the limit | what can end the process and that a dead listener does; routing; whole replies; an answer for every request |
| `service_hello` (violation) | the same | a v3 hello one byte too short for its session id is not refused as "short ClientHello" but panics |
| `service_length` (violation) | the same | a negative Content-Length passes the check of `parseHTTPRequest` ("returns (true, req) once the full request is buffered") and panics at the slice of the body |
| `certs` | 3 regions, 3 runs of gencerts | the CA key is kept, a finished run leaves a complete set, later interruptions leave nothing that does not fit, the server shows chains without duplicates that verify |
| `replay_titles` (violation) | one length each | `config.go` says fallback applies "when a title has no capture at all"; it applies per query |

One more divergence was read in the code and has no run, as it needs none: the
comments at `dns.go:169` and `dns.go:170` announce "QR=1, AA=1, keep RD, set RA",
while the byte `0x81 | query[2]&1` sets QR and RD always and AA never.

Why the bounds are enough: a hint race needs two handlers of one client, which
two lookups (or a lookup and its retransmission) give; influence between clients
needs two of them. The record layer has no state beyond two counters per
direction, so a request in up to three records and a reply in two exercise
every transition, the exact multiple of `MaxPlain` included. A request reads at
most five files, and an edit matters only for the next reads. A precedence
conflict needs two rules for a name, from either source and of either length.
The lengths of hellos and requests lie on both sides of each comparison in
`Parsing`. Two listeners give the case of one that fails while the other is
bound or serves. Three runs of gencerts give a first run that stops, one that
goes through and one that stops after it.

All runs switch the deadlock check off: consoles stop after `MaxLookups`,
and a connection or a request ends. That nobody waits for ever is what
`HandlersFinish`, `ServerReturns`, `ExchangeCompletes`, `HandlerDecides`,
`LoopEndIsFatal` and `RequestsAnswered` check.

## Fairness

`RegionHints!FairSpec`: every goroutine inside `handle` and `certFor` is
eventually scheduled, and the deadline of `forward` fires; nothing is assumed of
consoles, network and upstream. `Tls10!ServerFairSpec`: the connection's
goroutine runs when it can. `Tls10!FairSpec` adds that the client goes on with
its script, which `ExchangeCompletes` needs and `ServerReturns` does not use:
there is no deadline on a connection, so a silent client holds its goroutine.
`Redirector!FairSpec`: `main` and the handler's goroutine, which do not block
between two steps, go on. `Service!FairSpec`: `main` goes on binding and
receiving, and a connection that has its request goes on; if its backend does
not answer, the 30 s Timeout of `proxyClient` ends the wait (`BackendFails`).
Nothing is assumed of clients, of backends, or of listeners failing. `Certs` has
no liveness property.

## Proofs

`RegionHintsProofs` proves, for all constants that satisfy the named
assumptions (certificates are of known regions, at least one region, question
sets consistent):

- `TypeCorrect`, `HintsHaveProvenance`, `CertsAreLoaded`: the properties the
  runs check, from the inductive invariant `SafetyInv`. Type correctness alone is
  not inductive: noting a region indexes the client's questions, so `KnownLookups`
  (everything in flight belongs to a lookup that was made) is needed; provenance
  needs `HandlerPosition` (a goroutine about to note a region has answered a
  redirected DNAS name); `CertsAreLoaded` needs that `main` leaves a loaded default.
- `SerialHintsAreFresh` from `SerialInv`, which adds that a client without
  overlapping lookups has at most one datagram or goroutine, that of its last
  lookup (`Alone`), and that an answered lookup has left its hint or still has its
  goroutine at `NoteRegion` (`CaughtUp`).
- `RefinesCertChoice`: initial states map to initial states; `Lookup` is an `Ask`
  step, `CertFor` a `Serve` step, everything else a stutter.

`ReplayProofs` proves every invariant of the `replay` run for all sets of request
and file lengths and any number of edits: `ReplayTypeCorrect`,
`CapturesAreReplayed`, `CapturesAlwaysLeaveWhole`, `SuccessReplacesErrors`,
`FallbackReachesAll` and `BorrowsInOrder`. The properties speak of the answer, so the
inductive invariant `ReplayInv` says for each file about to be read why the
request got there: a packet is looked up only for a well-formed request and a
borrowed one only if the better ones were not there all along (`PathToPacket`),
success.raw only in always mode or after every candidate was missed
(`PathToSuccess`), and, undisturbed, error.raw only if the best capture cannot
be sent or there is none and no success.raw for fallback (`PathToError`). An edit
keeps all of it because it only enlarges the set of files that were not there
all along.

`ServiceProofs` proves every invariant of the `service` run for any number of
addresses and connections, any flags and messages and any size limit:
`ServiceTypeCorrect`, `PanicsAreKnown`, `AddressesAreServed`,
`LongestPrefixRoutes` and `ProxyRepliesAreWhole`. The lemmas `V2Verdict`,
`V3Verdict`, `ExchangeVerdict` and `RequestVerdict` say which verdicts each parser
has; `Routing` says what sort and first match together choose, for which
`SortReachesAll` (of `LongestFirstProofs`) shows by the pigeonhole principle that
a stable sort loses no rule. The inductive invariant `ServiceInv` adds what each connection has by the
time it stands where it stands (`Phase`), that nobody is served before the rules
are sorted (`SetupInv`), and that an accept loop that has ended has left its error
in the channel (`ListenInv`).

`CertsProofs` proves every property of the `certs` run for any list of distinct
regions and any number of runs of gencerts and starts of the server:
`CertsTypeCorrect`, `ReissuesAreComplete`, `LaterCrashesLeaveNoMix`,
`ChainsHaveEachCAOnce`, `ShownChainsVerify` and the action property
`CAKeyStays`. The properties speak of finished runs and whole files; the
inductive invariant `CertsInv` says what is on disk while a run is under way
(`GenInv`: the CA key is the run's own, the CA certificate and the leaves before
the current region stem from this run) and that after a finished run one key has
signed whatever is whole (`OneCA`), because `CAKeyStays` leaves later runs no
other. What the server holds (`ServerInv`) is tied to that key rather than to the
files, which is why files changing under it do no harm. The proof assumes that
the markers `Missing` and `Cut` are not file contents (`MarkersAssumption`).

`RedirectorProofs` proves every invariant of the `redirector` run for any
`dns.config`, suffixes, addresses, buffer and datagrams: `RedirectorTypeCorrect`,
`AnswersEchoTheirQuestion`, `SpecificRulesWin`, `WholeConfigServed` and, in
`RedirectorWireProofs`, `HandleRedirectsExactly`. The inductive invariant `RedirectorInv` follows the table
through its passes and the datagram through both walks:

- `ConfigInv`: the lines read so far were well formed and have their rules;
- `TableInv`: of the rules given so far the table has the first for each suffix,
  and once it serves longer suffixes come first. Sorting keeps the former because
  of `SortReachesAll`;
- `FoundInv`: no rule before the one `lookup` stands at matches. With `TableInv`
  this makes the first match the most specific and earliest rule;
- `WalkInv`: the offsets `parseQuestion` passed. `buildAResponse` starts from the
  same offset and can only go on to the next of them, so it ends at the same root
  label; there, the first walk has already checked that four bytes follow.

`HandleRedirectsExactly` relates the datagram to the outcome without mention of
either walk: "a whole A question" says that some set of label offsets and a root
offset divide the bytes (`AQuestion`). Its invariant `WireInv` says that the
labels passed so far are such a set, and that any set there could be agrees with
them as far as they go. A refused label or type then refutes every set, and a
name that was read is the only one the bytes spell. The other half is that
the table decides the address: two rules that win for a name give the same one
(`WinnerIsUnique`), and `lookup` finds one (`FoundWins`) or there is none
(`NoneCovers`).

`Tls10Proofs` proves every invariant of the `tls_exchange` run for requests,
replies and records of any length, any window and any number of alterations and
stray records: `Tls10TypeCorrect`, `FinishedMeansAgreement`,
`RecordLayersStayInStep`, `RequestsArriveIntact`, `NothingLeavesUnprotected` and
`RepliesArriveIntact`. Lengths and window are positive (`LengthsAssumption`,
`BoundsAssumption`), and cryptography is symbolic as described above. The inductive
invariant `Tls10Inv` has four layers:

- where each end stands: which keys and active sides it has (`ServerInv`,
  `ClientInv`), and what the content type of a record says about its body
  (`ShapeInv`);
- agreement: a Finished on the way to the server was made from the master secret
  and the transcript the client still has (`FinishedInv`). The server accepts it
  only if both equal its own, so an alteration of any earlier message, which is
  in exactly one of the two transcripts, shows here;
- numbering: behind a ChangeCipherSpec in a queue, or from the head of the queue
  once it is read, records carry the sender's key and consecutive numbers, and
  the sender's counter is the reader's plus the length of the queue (`ReadInv`,
  `WriteInv`). This is what `RecordSync` says of the head, in a form every record
  keeps while it moves up; `ProtectInv` adds what cannot be on the wire before the
  server's ChangeCipherSpec;
- data: the request is cut at some points over the buffer, the records on the way
  and what is not sent yet (`RequestInv`), and the reply likewise the other way
  (`ReplyInv`, with `PendingInv` and `ScriptInv` for when there is one). A step
  moves a cut or adds one. The cuts are a witness under an existential quantifier
  because record boundaries depend on what the client chose.

Most steps of the argument do not look at the twenty-odd actions but at a digest
of them: what a step does to a queue (`Rest`, `Longer`) and to its counters
(`ServerReads`, `ServerMoves`, `ClientMoves`, `ClientReading`). `InFlight` in
`ReplyIntact` is a recursive function; that it joins the records to the run of
units the cuts describe is shown with a least counterexample
(`LeastNumber`), which needs no induction principle with an operator parameter.

The parts of both invariants hold in TLC as well, under the constants of the
runs; for `WalkInv` the offsets were drawn from a finite set and tables had at
most one line and one suffix.

Only model-checked: liveness (`HandlersFinish`, `ServerReturns`,
`ExchangeCompletes`, `HandlerDecides`, `LoopEndIsFatal`, `RequestsAnswered`),
which is beyond the prover. Every invariant, the action property `CAKeyIsKept` and
the refinement of `CertChoice` are both model-checked and proved.

## Not modelled

Cryptographic primitives (symbolic; `capture_test.go` checks them against a real
handshake), logging and error texts (`describeRecord`, `unexpected`), the header
filter of the proxy and the cleaning of static paths (string functions without
state), the fixed fields of DNS answers and of certificates (TTL, names, dates,
serial numbers), and the contents of upstream and backend answers. Loss of power
between a write and the disk is not part of `Certs`.

## Plan

Every component but the cryptographic primitives is modelled, and every safety
property of the runs is proved. What is left:

1. an abstract specification of one exchange (agree, ask, answer, part) that
   `Tls10` implements, with `FinishedAgreement`, `RequestInv` and `ReplyInv` as the
   facts the mapping rests on;
2. shorter proofs about `Tls10` where two directions repeat one argument.
