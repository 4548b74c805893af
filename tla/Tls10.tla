--------------------------------- MODULE Tls10 ---------------------------------
(***************************************************************************)
(* One connection of the hand-written TLS 1.0 server (tls10.go): the       *)
(* handshake, the record layer and the single HTTP exchange it carries,    *)
(* against a client that behaves like the one in tls10_test.go or strays   *)
(* from it (alerts, unexpected messages, malformed messages, an RSA        *)
(* ciphertext that does not decrypt, closing at any moment).               *)
(*                                                                         *)
(* Each direction of the TCP connection is a FIFO of records; at most      *)
(* Window records wait unread before conn.Write blocks.  The server is one *)
(* goroutine, so one action covers what it does between two socket         *)
(* operations.  Cryptography is symbolic:                                  *)
(*   - a message is its type, whether it parses (v) and what happened to   *)
(*     its bytes in flight (alt);                                          *)
(*   - a transcript is the sequence of messages hashed into it;            *)
(*   - a master secret is the premaster and the two randoms as the owner   *)
(*     saw them; a key is the master secret and the direction it protects; *)
(*   - verify_data is its label, master secret and transcript;             *)
(*   - seq stands for the record sequence number and the CBC residue, which *)
(*     are initialised together and both advance once per record.          *)
(* HTTP bytes are units: a request is complete after ReqLen of them, the   *)
(* reply has RespLen, a record carries at most MaxPlain (maxPlaintext).    *)
(***************************************************************************)
EXTENDS Naturals, Sequences

CONSTANTS
  ReqLen,     \* units after which parseHTTPRequest finds a complete request
  RespLen,    \* units of the reply that dispatch returns
  MaxPlain,   \* units per record (maxPlaintext)
  Window,     \* records the TCP connection buffers before Write blocks
  MaxFaults,  \* bound: records altered in flight
  MaxExtras,  \* bound: alerts, stray handshake records and empty data records
  NoKey       \* an unprotected record; keys not set up yet

ASSUME LengthsAssumption ==
  /\ ReqLen \in Nat \ {0}
  /\ RespLen \in Nat \ {0}
  /\ MaxPlain \in Nat \ {0}

ASSUME BoundsAssumption ==
  /\ Window \in Nat \ {0}
  /\ MaxFaults \in Nat
  /\ MaxExtras \in Nat

VARIABLES
  spc,          \* server: where handshakeAndServe / serveHTTP stands
  transcript,   \* server: tls10Conn.transcript
  cRandom,      \* server: did clientRandom arrive as sent ("no") or altered
  master,       \* server: the master secret, NoKey before ClientKeyExchange
  readActive, readSeq, readKey,     \* server: read side of the record layer
  writeActive, writeSeq, writeKey,  \* server: write side
  buf,          \* server: application data accumulated by serveHTTP
  request,      \* server: what was handed to dispatch, <<>> before
  resp,         \* server: the part of the reply not written yet
  c2s, s2c,     \* the two directions of the TCP connection
  cpc,          \* client: where it stands
  cTranscript,  \* client: its transcript
  sRandom,      \* client: did serverRandom arrive as sent
  cMaster,      \* client: its master secret
  cReadActive, cReadSeq, cWriteActive, cWriteSeq,  \* client: record layer
  sent,         \* client: request units sent so far
  got,          \* client: reply units received so far
  faults,       \* records altered so far
  extras,       \* alerts, stray and empty records sent so far
  strayed       \* history: the client or the network left the script

handshake == <<transcript, cRandom, master>>
readSide == <<readActive, readSeq, readKey>>
writeSide == <<writeActive, writeSeq, writeKey>>
http == <<buf, request, resp>>
server == <<spc, handshake, readSide, writeSide, http>>
client == <<cpc, cTranscript, sRandom, cMaster, cReadActive, cReadSeq,
            cWriteActive, cWriteSeq, sent, got, extras>>
history == <<faults, strayed>>
vars == <<server, client, c2s, s2c, history>>

ServerPcs == {"hello", "sendHello", "sendCert", "sendDone", "keyExchange", "ccs",
              "finished", "sendCcs", "sendFinished", "app", "reply", "closed"}
ClientPcs == {"hello", "flight", "keyExchange", "ccs", "finished",
              "awaitCcs", "awaitFinished", "request", "closed"}
HsTypes == {"v2hello", "v3hello", "serverHello", "certificate", "helloDone",
            "keyExchange", "fin", "junk"}
Variants == {"ok", "malformed", "noCipher", "undecryptable"}
Alterations == {"no", "random", "other", "broken"}

\* What goes into a transcript, and into a master secret.
Entry == [t : HsTypes, v : Variants, alt : Alterations]
Master == [pm : {"client", "server"}, cr : BOOLEAN, sr : BOOLEAN]
Key == [m : Master, dir : {"c2s", "s2c"}]

\* The four kinds of record content.
HsBody == [t : HsTypes \ {"fin"}, v : Variants]
FinBody == [t : {"fin"}, who : {"client", "server"}, m : Master, tr : Seq(Entry)]
DataBody == [t : {"data"}, s : Seq(Nat)]
PlainBody == [t : {"ccs", "alert"}]
Record == [ct : {"v2", "handshake", "ccs", "alert", "app"},
           body : HsBody \cup FinBody \cup DataBody \cup PlainBody,
           key : Key \cup {NoKey}, seq : Nat, alt : Alterations]

TypeOK ==
  /\ spc \in ServerPcs
  /\ transcript \in Seq(Entry)
  /\ cRandom \in BOOLEAN
  /\ master \in Master \cup {NoKey}
  /\ readActive \in BOOLEAN /\ readSeq \in Nat /\ readKey \in Key \cup {NoKey}
  /\ writeActive \in BOOLEAN /\ writeSeq \in Nat /\ writeKey \in Key \cup {NoKey}
  /\ buf \in Seq(Nat) /\ request \in Seq(Nat) /\ resp \in Seq(Nat)
  /\ c2s \in Seq(Record) /\ s2c \in Seq(Record)
  /\ cpc \in ClientPcs
  /\ cTranscript \in Seq(Entry)
  /\ sRandom \in BOOLEAN
  /\ cMaster \in Master \cup {NoKey}
  /\ cReadActive \in BOOLEAN /\ cReadSeq \in Nat
  /\ cWriteActive \in BOOLEAN /\ cWriteSeq \in Nat
  /\ sent \in Nat /\ got \in Seq(Nat)
  /\ faults \in Nat /\ extras \in Nat /\ strayed \in BOOLEAN

-----------------------------------------------------------------------------
(* The record layer, shared by both ends (tls10Conn).                      *)

Hs(t, v) == [t |-> t, v |-> v]
Fin(who, m, tr) == [t |-> "fin", who |-> who, m |-> m, tr |-> tr]
Data(s) == [t |-> "data", s |-> s]
Plain(t) == [t |-> t]
Units(n) == [i \in 1..n |-> i]

\* writeRecord: in the clear, or MACed and encrypted once the side is active.
Protect(ct, body, active, key, seq) ==
  [ct |-> ct, body |-> body, alt |-> "no",
   key |-> IF active THEN key ELSE NoKey, seq |-> IF active THEN seq ELSE 0]

\* decrypt: padding and MAC are right only for this key, this position in the
\* stream and unaltered bytes.
Opens(r, key, seq) == r.key = key /\ r.seq = seq /\ r.alt = "no"

\* readRecord succeeds: a fragment is passed on as it is before the read side
\* is active and decrypted afterwards.
Readable(r, active, key, seq) == active => Opens(r, key, seq)

\* The record holds handshake message t and the reader can tell so.
IsHandshake(r, t, active) ==
  r.ct = "handshake" /\ r.body.t = t /\ (active \/ r.key = NoKey)

\* The transcript entry for a message as it was read.
Seen(r) == [t |-> r.body.t, v |-> r.body.v, alt |-> r.alt]
Sent(t) == [t |-> t, v |-> "ok", alt |-> "no"]

\* prf10 over premaster and randoms; setupKeys splits the key block so that one
\* end reads what the other writes.
MasterOf(pm, cr, sr) == [pm |-> pm, cr |-> cr, sr |-> sr]
KeyFor(m, dir) == [m |-> m, dir |-> dir]

-----------------------------------------------------------------------------
Init ==
  /\ spc = "hello" /\ transcript = <<>> /\ cRandom = FALSE /\ master = NoKey
  /\ readActive = FALSE /\ readSeq = 0 /\ readKey = NoKey
  /\ writeActive = FALSE /\ writeSeq = 0 /\ writeKey = NoKey
  /\ buf = <<>> /\ request = <<>> /\ resp = <<>>
  /\ c2s = <<>> /\ s2c = <<>>
  /\ cpc = "hello" /\ cTranscript = <<>> /\ sRandom = FALSE /\ cMaster = NoKey
  /\ cReadActive = FALSE /\ cReadSeq = 0 /\ cWriteActive = FALSE /\ cWriteSeq = 0
  /\ sent = 0 /\ got = <<>>
  /\ faults = 0 /\ extras = 0 /\ strayed = FALSE

-----------------------------------------------------------------------------
(* The server: handshakeAndServe and serveHTTP.                            *)

\* serveTLS10: any error or the end of the exchange closes the connection.
Close == spc' = "closed"

\* A write succeeds while there is room; to a closed client it may still
\* succeed (the kernel buffers) or fail, and then the goroutine returns.
CanWrite == Len(s2c) < Window
WriteFails ==
  /\ cpc = "closed"
  /\ spc \in {"sendHello", "sendCert", "sendDone", "sendCcs", "sendFinished", "reply"}
  /\ Close
  /\ UNCHANGED <<handshake, readSide, writeSide, http, client, c2s, s2c, history>>

\* Mutated form: serveHTTP goes on reading when readAppData fails.
ReadEOFInHandshake ==
  /\ cpc = "closed" /\ c2s = <<>>
  /\ spc \in {"hello", "keyExchange", "ccs", "finished"}
  /\ Close
  /\ UNCHANGED <<handshake, readSide, writeSide, http, client, c2s, s2c, history>>

\* readRecord or Peek at the end of the stream.
ReadEOF ==
  /\ cpc = "closed" /\ c2s = <<>>
  /\ spc \in {"hello", "keyExchange", "ccs", "finished", "app"}
  /\ Close
  /\ UNCHANGED <<handshake, readSide, writeSide, http, client, c2s, s2c, history>>

\* A hello of either kind, well formed as far as the length check before it is
\* added to the transcript; HelloOK adds the later checks (fields within the
\* body, our cipher suite among the offered ones).
HelloFramed(r) ==
  /\ \/ r.ct = "v2" /\ r.body.t = "v2hello"
     \/ IsHandshake(r, "v3hello", readActive)
  /\ r.body.v # "malformed" /\ r.alt # "broken"
HelloOK(r) == HelloFramed(r) /\ r.body.v = "ok"

\* Mutated form: what crypto/tls does, hashing the hello it parsed as v3.
HelloEntryV3(r) == [Seen(r) EXCEPT !.t = "v3hello"]

\* Mutated form: the record header is hashed with the message.
HelloEntryRecord(r) == r

\* The PS2 hashes the raw v2 hello body, so that is what goes into the transcript.
HelloEntry(r) == Seen(r)

\* readClientHello, SSLv2-compatible or v3.
ReadClientHello ==
  /\ spc = "hello" /\ c2s # <<>>
  /\ c2s' = Tail(c2s)
  /\ LET r == Head(c2s)
     IN  /\ transcript' = IF HelloFramed(r) THEN Append(transcript, HelloEntry(r)) ELSE transcript
         /\ IF HelloOK(r)
            THEN cRandom' = (r.alt = "random") /\ spc' = "sendHello"
            ELSE Close /\ UNCHANGED cRandom
  /\ UNCHANGED <<master, readSide, writeSide, http, client, s2c, history>>

\* writeHandshake: into the transcript, then onto the wire.
WriteHandshake(t) ==
  /\ CanWrite
  /\ transcript' = Append(transcript, Sent(t))
  /\ s2c' = Append(s2c, Protect("handshake", Hs(t, "ok"), writeActive, writeKey, writeSeq))

Flight(from, t, to) ==
  /\ spc = from
  /\ WriteHandshake(t)
  /\ spc' = to
  /\ UNCHANGED <<cRandom, master, readSide, writeSide, http, client, c2s, history>>

SendServerHello == Flight("sendHello", "serverHello", "sendCert")
SendCertificate == Flight("sendCert", "certificate", "sendDone")
SendServerHelloDone == Flight("sendDone", "helloDone", "keyExchange")

\* decryptPremaster: on any RSA failure a random premaster takes the client's place.
Premaster(r) == IF r.body.v = "ok" /\ r.alt # "random" THEN "client" ELSE "server"

\* setupKeys.
SetupKeys(m) ==
  /\ readKey' = KeyFor(m, "c2s")
  /\ writeKey' = KeyFor(m, "s2c")

\* Read ClientKeyExchange; keys are derived but not used yet.
ReadKeyExchange ==
  /\ spc = "keyExchange" /\ c2s # <<>>
  /\ c2s' = Tail(c2s)
  /\ LET r == Head(c2s)
         m == MasterOf(Premaster(r), cRandom, FALSE)
     IN  \/ /\ ~IsHandshake(r, "keyExchange", readActive)
            /\ Close /\ UNCHANGED <<transcript, master, readKey, writeKey>>
         \/ /\ IsHandshake(r, "keyExchange", readActive)
            /\ transcript' = Append(transcript, Seen(r))
            /\ IF r.body.v = "malformed" \/ r.alt = "broken"
               THEN Close /\ UNCHANGED <<master, readKey, writeKey>>
               ELSE master' = m /\ SetupKeys(m) /\ spc' = "ccs"
  /\ UNCHANGED <<cRandom, readActive, readSeq, writeActive, writeSeq, http, client, s2c, history>>

\* Read ChangeCipherSpec (its content is not looked at): the read side is active.
ReadChangeCipherSpec ==
  /\ spc = "ccs" /\ c2s # <<>>
  /\ c2s' = Tail(c2s)
  /\ IF Head(c2s).ct = "ccs" /\ Head(c2s).alt # "broken"
     THEN readActive' = TRUE /\ readSeq' = 0 /\ spc' = "finished"
     ELSE Close /\ UNCHANGED <<readActive, readSeq>>
  /\ UNCHANGED <<handshake, readKey, writeSide, http, client, s2c, history>>

\* Mutated form: the verify_data is checked for its label and key only.
FinishedOKAnyTranscript(r) ==
  IsHandshake(r, "fin", readActive) /\ r.body.who = "client" /\ r.body.m = master

\* The client's Finished carries the verify_data of our own transcript.
FinishedOK(r) ==
  IsHandshake(r, "fin", readActive) /\ r.body = Fin("client", master, transcript)

\* Read and compare the client's Finished, then add it to the transcript.
ReadFinished ==
  /\ spc = "finished" /\ c2s # <<>>
  /\ c2s' = Tail(c2s)
  /\ LET r == Head(c2s)
     IN  IF Readable(r, readActive, readKey, readSeq)
         THEN /\ readSeq' = readSeq + 1
              /\ IF FinishedOK(r)
                 THEN transcript' = Append(transcript, Sent("fin")) /\ spc' = "sendCcs"
                 ELSE Close /\ UNCHANGED transcript
         ELSE Close /\ UNCHANGED <<readSeq, transcript>>
  /\ UNCHANGED <<cRandom, master, readActive, readKey, writeSide, http, client, s2c, history>>

\* Mutated form: the write side stays in the clear.
SendChangeCipherSpecOnly ==
  /\ spc = "sendCcs" /\ CanWrite
  /\ s2c' = Append(s2c, Protect("ccs", Plain("ccs"), writeActive, writeKey, writeSeq))
  /\ spc' = "sendFinished"
  /\ UNCHANGED <<handshake, readSide, writeSide, http, client, c2s, history>>

\* Our ChangeCipherSpec, itself in the clear, then the write side is active.
SendChangeCipherSpec ==
  /\ spc = "sendCcs" /\ CanWrite
  /\ s2c' = Append(s2c, Protect("ccs", Plain("ccs"), writeActive, writeKey, writeSeq))
  /\ writeActive' = TRUE /\ writeSeq' = 0
  /\ spc' = "sendFinished"
  /\ UNCHANGED <<handshake, readSide, writeKey, http, client, c2s, history>>

\* Mutated form: the sequence number is not advanced.
WriteRecordSameSeq(ct, body) ==
  /\ CanWrite
  /\ s2c' = Append(s2c, Protect(ct, body, writeActive, writeKey, writeSeq))
  /\ writeSeq' = writeSeq

\* writeRecord on the active write side.
WriteRecord(ct, body) ==
  /\ CanWrite
  /\ s2c' = Append(s2c, Protect(ct, body, writeActive, writeKey, writeSeq))
  /\ writeSeq' = writeSeq + (IF writeActive THEN 1 ELSE 0)

\* Our Finished, over the transcript that includes the client's.
SendFinished ==
  /\ spc = "sendFinished"
  /\ WriteRecord("handshake", Fin("server", master, transcript))
  /\ spc' = "app"
  /\ UNCHANGED <<handshake, readSide, writeActive, writeKey, http, client, c2s, history>>

\* Mutated form: Content-Length is ignored.
CompleteEarly(n) == n >= 1

\* parseHTTPRequest: the headers and Content-Length bytes of body are there.
Complete(n) == n >= ReqLen

\* readAppData and the accumulation loop of serveHTTP: application data is
\* added and, when the request is complete, dispatched; an alert or a record
\* that does not open ends the exchange; any other record is skipped.
ReadApp ==
  /\ spc = "app" /\ c2s # <<>>
  /\ c2s' = Tail(c2s)
  /\ LET r == Head(c2s)
         all == buf \o r.body.s
     IN  \/ /\ ~Readable(r, readActive, readKey, readSeq)
            /\ Close /\ UNCHANGED <<readSeq, http>>
         \/ /\ Readable(r, readActive, readKey, readSeq)
            /\ readSeq' = readSeq + 1
            /\ \/ /\ r.ct = "app"
                  /\ buf' = all
                  /\ IF Complete(Len(all))
                     THEN request' = all /\ resp' = Units(RespLen) /\ spc' = "reply"
                     ELSE UNCHANGED <<request, resp, spc>>
               \/ r.ct = "alert" /\ Close /\ UNCHANGED http
               \/ r.ct \notin {"app", "alert"} /\ UNCHANGED <<http, spc>>
  /\ UNCHANGED <<handshake, readActive, readKey, writeSide, client, s2c, history>>

\* Mutated form: no limit on the plaintext of a record.
ChunkAll(n) == n

\* The plaintext of the next reply record.
Chunk(n) == IF n > MaxPlain THEN MaxPlain ELSE n

\* One record of the reply; after the last one serveHTTP returns and the
\* connection is closed.
WriteReply ==
  /\ spc = "reply"
  /\ LET n == Chunk(Len(resp))
     IN  /\ WriteRecord("app", Data(SubSeq(resp, 1, n)))
         /\ resp' = SubSeq(resp, n + 1, Len(resp))
         /\ spc' = IF n = Len(resp) THEN "closed" ELSE "reply"
  /\ UNCHANGED <<handshake, readSide, writeActive, writeKey, buf, request, client, c2s, history>>

ServerStep ==
  \/ WriteFails \/ ReadEOF
  \/ ReadClientHello \/ SendServerHello \/ SendCertificate \/ SendServerHelloDone
  \/ ReadKeyExchange \/ ReadChangeCipherSpec \/ ReadFinished
  \/ SendChangeCipherSpec \/ SendFinished \/ ReadApp \/ WriteReply

-----------------------------------------------------------------------------
(* The client: the console, as tls10_test.go plays it.                     *)

ClientCanWrite == Len(c2s) < Window

\* The client's writeRecord.
ClientWrite(ct, body) ==
  /\ ClientCanWrite
  /\ c2s' = Append(c2s, Protect(ct, body, cWriteActive, KeyFor(cMaster, "c2s"), cWriteSeq))
  /\ cWriteSeq' = cWriteSeq + (IF cWriteActive THEN 1 ELSE 0)

\* A hello of either kind; one that is malformed or lacks our cipher strays.
ClientSendHello(t, v) ==
  /\ cpc = "hello"
  /\ ClientWrite(IF t = "v2hello" THEN "v2" ELSE "handshake", Hs(t, v))
  /\ cTranscript' = Append(cTranscript, [t |-> t, v |-> v, alt |-> "no"])
  /\ cpc' = "flight"
  /\ strayed' = (strayed \/ v # "ok")
  /\ UNCHANGED <<server, sRandom, cMaster, cReadActive, cReadSeq, cWriteActive,
                 sent, got, extras, s2c, faults>>

\* Read one message of the server's flight.
ClientReadFlight ==
  /\ cpc = "flight" /\ s2c # <<>>
  /\ s2c' = Tail(s2c)
  /\ LET r == Head(s2c)
     IN  IF r.ct = "handshake" /\ r.alt # "broken"
         THEN /\ cTranscript' = Append(cTranscript, Seen(r))
              /\ sRandom' = IF r.body.t = "serverHello" THEN r.alt = "random" ELSE sRandom
              /\ cpc' = IF r.body.t = "helloDone" THEN "keyExchange" ELSE "flight"
         ELSE cpc' = "closed" /\ UNCHANGED <<cTranscript, sRandom>>
  /\ UNCHANGED <<server, cMaster, cReadActive, cReadSeq, cWriteActive, cWriteSeq,
                 sent, got, extras, c2s, history>>

\* Send ClientKeyExchange and derive the keys.
ClientSendKeyExchange(v) ==
  /\ cpc = "keyExchange"
  /\ ClientWrite("handshake", Hs("keyExchange", v))
  /\ cTranscript' = Append(cTranscript, [t |-> "keyExchange", v |-> v, alt |-> "no"])
  /\ cMaster' = MasterOf("client", FALSE, sRandom)
  /\ cpc' = "ccs"
  /\ strayed' = (strayed \/ v # "ok")
  /\ UNCHANGED <<server, sRandom, cReadActive, cReadSeq, cWriteActive,
                 sent, got, extras, s2c, faults>>

ClientSendChangeCipherSpec ==
  /\ cpc = "ccs" /\ ClientCanWrite
  /\ c2s' = Append(c2s, Protect("ccs", Plain("ccs"), FALSE, NoKey, 0))
  /\ cWriteActive' = TRUE /\ cWriteSeq' = 0
  /\ cpc' = "finished"
  /\ UNCHANGED <<server, cTranscript, sRandom, cMaster, cReadActive, cReadSeq,
                 sent, got, extras, s2c, history>>

ClientSendFinished ==
  /\ cpc = "finished"
  /\ ClientWrite("handshake", Fin("client", cMaster, cTranscript))
  /\ cTranscript' = Append(cTranscript, Sent("fin"))
  /\ cpc' = "awaitCcs"
  /\ UNCHANGED <<server, sRandom, cMaster, cReadActive, cReadSeq, cWriteActive,
                 sent, got, extras, s2c, history>>

ClientReadChangeCipherSpec ==
  /\ cpc = "awaitCcs" /\ s2c # <<>>
  /\ s2c' = Tail(s2c)
  /\ IF Head(s2c).ct = "ccs" /\ Head(s2c).alt # "broken"
     THEN cReadActive' = TRUE /\ cReadSeq' = 0 /\ cpc' = "awaitFinished"
     ELSE cpc' = "closed" /\ UNCHANGED <<cReadActive, cReadSeq>>
  /\ UNCHANGED <<server, cTranscript, sRandom, cMaster, cWriteActive, cWriteSeq,
                 sent, got, extras, c2s, history>>

\* The client's readRecord of the head of s2c succeeds.
ClientReadable(r) == Readable(r, cReadActive, KeyFor(cMaster, "s2c"), cReadSeq)

\* Read and compare the server's Finished.
ClientReadFinished ==
  /\ cpc = "awaitFinished" /\ s2c # <<>>
  /\ s2c' = Tail(s2c)
  /\ LET r == Head(s2c)
     IN  IF /\ ClientReadable(r) /\ IsHandshake(r, "fin", cReadActive)
            /\ r.body = Fin("server", cMaster, cTranscript)
         THEN cReadSeq' = cReadSeq + 1 /\ cpc' = "request"
         ELSE cpc' = "closed" /\ UNCHANGED cReadSeq
  /\ UNCHANGED <<server, cTranscript, sRandom, cMaster, cReadActive, cWriteActive,
                 cWriteSeq, sent, got, extras, c2s, history>>

\* The next n units of the request in a record of their own.  An empty record
\* (n = 0) may come before the request is complete.
ClientSendRequest(n) ==
  /\ cpc = "request" /\ sent < ReqLen /\ sent + n <= ReqLen
  /\ n = 0 => extras < MaxExtras
  /\ ClientWrite("app", Data([i \in 1..n |-> sent + i]))
  /\ sent' = sent + n
  /\ extras' = extras + (IF n = 0 THEN 1 ELSE 0)
  /\ UNCHANGED <<server, cpc, cTranscript, sRandom, cMaster, cReadActive, cReadSeq,
                 cWriteActive, got, s2c, history>>

\* Read one record of the reply.
ClientReadReply ==
  /\ cpc = "request" /\ s2c # <<>>
  /\ s2c' = Tail(s2c)
  /\ LET r == Head(s2c)
     IN  IF ClientReadable(r) /\ r.ct = "app"
         THEN cReadSeq' = cReadSeq + 1 /\ got' = got \o r.body.s /\ UNCHANGED cpc
         ELSE cpc' = "closed" /\ UNCHANGED <<cReadSeq, got>>
  /\ UNCHANGED <<server, cTranscript, sRandom, cMaster, cReadActive, cWriteActive,
                 cWriteSeq, sent, extras, c2s, history>>

\* The end of the stream.
ClientReadEOF ==
  /\ spc = "closed" /\ s2c = <<>>
  /\ cpc \in {"flight", "awaitCcs", "awaitFinished", "request"}
  /\ cpc' = "closed"
  /\ UNCHANGED <<server, cTranscript, sRandom, cMaster, cReadActive, cReadSeq,
                 cWriteActive, cWriteSeq, sent, got, extras, c2s, s2c, history>>

\* A write to a connection the server has closed may fail.
ClientWriteFails ==
  /\ spc = "closed" /\ cpc \in {"keyExchange", "ccs", "finished", "request"}
  /\ cpc = "request" => sent < ReqLen
  /\ cpc' = "closed"
  /\ UNCHANGED <<server, cTranscript, sRandom, cMaster, cReadActive, cReadSeq,
                 cWriteActive, cWriteSeq, sent, got, extras, c2s, s2c, history>>

ClientStep ==
  \/ \E t \in {"v2hello", "v3hello"} : \E v \in {"ok", "malformed", "noCipher"} :
        ClientSendHello(t, v)
  \/ ClientReadFlight
  \/ \E v \in {"ok", "malformed", "undecryptable"} : ClientSendKeyExchange(v)
  \/ ClientSendChangeCipherSpec \/ ClientSendFinished
  \/ ClientReadChangeCipherSpec \/ ClientReadFinished
  \/ \E n \in 0..ReqLen : ClientSendRequest(n)
  \/ ClientReadReply \/ ClientReadEOF \/ ClientWriteFails

\* An alert, or a handshake message out of turn.
ClientStrays(ct, body) ==
  /\ cpc # "closed" /\ extras < MaxExtras
  /\ ClientWrite(ct, body)
  /\ extras' = extras + 1 /\ strayed' = TRUE
  /\ UNCHANGED <<server, cpc, cTranscript, sRandom, cMaster, cReadActive, cReadSeq,
                 cWriteActive, sent, got, s2c, faults>>

\* The console is switched off or the title gives up.
ClientCloses ==
  /\ cpc # "closed"
  /\ cpc' = "closed" /\ strayed' = TRUE
  /\ UNCHANGED <<server, cTranscript, sRandom, cMaster, cReadActive, cReadSeq,
                 cWriteActive, cWriteSeq, sent, got, extras, c2s, s2c, faults>>

-----------------------------------------------------------------------------
(* The network.                                                            *)

Altered(q, i, a) == [q EXCEPT ![i].alt = a]

\* One record is altered in flight.
Alter(a) ==
  /\ faults < MaxFaults
  /\ \/ \E i \in 1..Len(c2s) : c2s' = Altered(c2s, i, a) /\ UNCHANGED s2c
     \/ \E i \in 1..Len(s2c) : s2c' = Altered(s2c, i, a) /\ UNCHANGED c2s
  /\ faults' = faults + 1 /\ strayed' = TRUE
  /\ UNCHANGED <<server, client>>

\* TCP: closing with unread input resets the connection, and what the peer has
\* not read yet is lost.
TcpReset ==
  /\ spc = "closed" /\ c2s # <<>> /\ s2c # <<>>
  /\ s2c' = <<>>
  /\ UNCHANGED <<server, client, c2s, history>>

Strays ==
  \/ ClientStrays("alert", Plain("alert"))
  \/ ClientStrays("handshake", Hs("junk", "ok"))
  \/ ClientCloses
  \/ \E a \in Alterations \ {"no"} : Alter(a)
  \/ TcpReset

Next == ServerStep \/ ClientStep \/ Strays

Spec == Init /\ [][Next]_vars

\* The connection's goroutine runs whenever it can; nothing is assumed of the
\* client.  serveTLS10 sets no deadline, so a silent client may hold it.
ServerFairSpec == Spec /\ WF_vars(ServerStep)

\* In addition the client goes on with its script, and a read that can make
\* progress is made: the setting of TestFullV2Handshake.
FairSpec == ServerFairSpec /\ WF_vars(ClientStep)

-----------------------------------------------------------------------------
(* What one connection guarantees.                                         *)

PastFinished == spc \in {"sendCcs", "sendFinished", "app", "reply"}

\* Once the server has accepted the client's Finished, both ends hold the same
\* master secret, made from the client's premaster and unaltered randoms, and
\* have seen the same messages: a hello, flight or key exchange altered on the
\* way, a failed RSA decryption or a message out of turn never gets this far
\* (handshakeAndServe, decryptPremaster).
FinishedAgreement ==
  PastFinished =>
    /\ master = MasterOf("client", FALSE, FALSE) /\ cMaster = master
    /\ transcript = cTranscript

\* The two record layers never drift apart: while the server reads protected
\* records under agreed keys, the next unaltered record opens with the server's
\* key and sequence number, whatever mix of data, empty, handshake and alert
\* records came before; and likewise for the client.  A drift would show as a
\* "bad record MAC" on an honest connection (decrypt, writeRecord).
RecordSync ==
  /\ (/\ readActive /\ spc # "closed" /\ master = cMaster
      /\ c2s # <<>> /\ Head(c2s).alt = "no")
     => Opens(Head(c2s), readKey, readSeq)
  /\ (/\ cReadActive /\ cpc # "closed" /\ s2c # <<>> /\ Head(s2c).alt = "no")
     => ClientReadable(Head(s2c))

\* Nothing is dispatched but a whole request of the client the handshake was
\* made with, in order and without the bytes of any skipped record, however it
\* was cut into records (serveHTTP, parseHTTPRequest).
RequestIntact ==
  request # <<>> => request = Units(ReqLen) /\ sent = ReqLen /\ cpc \in {"request", "closed"}

\* The application data in the records of q, joined.
InFlight(q) ==
  LET joined[i \in 0..Len(q)] ==
        IF i = 0 THEN <<>>
        ELSE joined[i - 1] \o (IF q[i].ct = "app" THEN q[i].body.s ELSE <<>>)
  IN  joined[Len(q)]

\* The reply is conserved: what the client has read, what is on the way and
\* what is still to be written make up the reply exactly, in records that each
\* hold between one unit and MaxPlain of them (the splitting loop of serveHTTP).
ReplyIntact ==
  /\ (request # <<>> /\ ~strayed) => got \o InFlight(s2c) \o resp = Units(RespLen)
  /\ \A i \in 1..Len(s2c) : s2c[i].ct = "app" => Len(s2c[i].body.s) \in 1..MaxPlain

\* Neither the server's Finished nor a reply leaves in the clear, and no two
\* records on the wire are protected under one sequence number: after its
\* ChangeCipherSpec everything the server sends is numbered consecutively
\* (writeRecord, handshakeAndServe).
RepliesProtected ==
  \A i \in 1..Len(s2c) :
    /\ (s2c[i].ct = "app" \/ s2c[i].body.t = "fin") => s2c[i].key = KeyFor(master, "s2c")
    /\ s2c[i].key # NoKey => s2c[i].seq + (Len(s2c) - i) + 1 = writeSeq

\* A client that goes away never leaves the connection's goroutine behind.
ServerReturns == cpc = "closed" ~> spc = "closed"

\* A client that keeps to the script gets the whole reply: the handshake never
\* deadlocks and the two ends agree on hashes, keys and sequence numbers.
ExchangeCompletes == <>(strayed \/ (got = Units(RespLen) /\ spc = "closed"))
=============================================================================
