--------------------------------- MODULE Replay --------------------------------
(***************************************************************************)
(* The reply to one DNAS query (dnas.go, and dispatch in tls10.go): the    *)
(* captured reply of the title is looked up in the gateway's packets/      *)
(* directory, an install query may borrow another capture, the connect     *)
(* endpoints encrypt two regions of it, and success.raw or error.raw stand *)
(* in when there is none.                                                  *)
(*                                                                         *)
(* Every os.ReadFile is a step of its own.  Between two of them the        *)
(* operator may add, remove or replace a file (captures are dropped into a *)
(* running server), possibly leaving a partly copied one.  A connection    *)
(* carries one request, and requests only read files, so they do not       *)
(* disturb each other: one request against every docroot is the general    *)
(* case.                                                                   *)
(*                                                                         *)
(* Bytes are abstracted to lengths and to byte 1, the DNAS operation; a    *)
(* file is its length, a reply is the file it came from, its byte 1 and    *)
(* the encryption passes applied to it, in order.  One title and gateway.  *)
(***************************************************************************)
EXTENDS Naturals, Sequences

CONSTANTS
  ReqLens,   \* lengths of request bodies
  FileLens,  \* lengths of files
  Missing,   \* os.ReadFile fails
  MaxEdits   \* bound: changes the operator makes

ASSUME LensAssumption ==
  /\ ReqLens \subseteq Nat
  /\ FileLens \subseteq Nat
  /\ Missing \notin Nat

ASSUME EditsAssumption == MaxEdits \in Nat

Modes == {"off", "fallback", "always"}      \* successMode
Ops == {"install", "normal", "uniqueID"}    \* opInstall, opNormal, opUniqueID
Endpoints == {"connect", "others"}          \* i-connect and d-connect; others
Packets == Ops                              \* packets/<gameID>_01<op>0000
Files == Packets \cup {"success", "error"}  \* and success.raw, error.raw

VARIABLES
  mode,     \* Server.ForceSuccess
  fs,       \* the gateway directory: the length of each file, or Missing
  pc,       \* which file is read next
  req,      \* the request being answered
  reply,    \* the answer given
  touched,  \* history: the files changed since the request arrived
  edits     \* changes made so far

vars == <<mode, fs, pc, req, reply, touched, edits>>

Request == [endpoint : Endpoints, op : Ops, len : ReqLens, inside : BOOLEAN]
Passes == {"query", "envelope"}
Reply == [from : Files \cup {"nothing"}, op : Ops \cup {"none"}, passes : Seq(Passes)]
Nothing == [from |-> "nothing", op |-> "none", passes |-> <<>>]

TypeOK ==
  /\ mode \in Modes
  /\ fs \in [Files -> FileLens \cup {Missing}]
  /\ pc \in Files \cup {"dispatch", "done"}
  /\ req \in Request
  /\ reply \in Reply
  /\ touched \subseteq Files
  /\ edits \in Nat

-----------------------------------------------------------------------------
(* Lengths and offsets.                                                    *)

\* gameIDOff of the two query layouts.
GameIDOff(endpoint) == IF endpoint = "connect" THEN 44 ELSE 27

\* packetName: the game ID and the query type are within the request.
Named(r) == r.len >= GameIDOff(r.endpoint) + 8 /\ r.len >= 4

\* deriveKeys: both hashed regions end at 0x134.
KeysDerivable(r) == r.len >= 308

\* encrypt3n: data[offset:offset+length] exists, in whole blocks.
Encryptable(len, offset, length) == offset + length <= len /\ length % 8 = 0

\* The two passes of connectReply.
QueryPass(len) == Encryptable(len, 200, 32)
EnvelopePass(len) == Encryptable(len, 40, 288)

\* Byte 1 of a file as it lies there, if it is that long; success.raw and
\* error.raw are normal replies.
OpIn(f) == IF fs[f] < 2 THEN "none" ELSE IF f \in Packets THEN f ELSE "normal"

Readable(f) == fs[f] # Missing

-----------------------------------------------------------------------------
\* A request for a replay endpoint is complete.  A docroot as shipped has
\* error.raw; the other files may be there or not.
Init ==
  /\ mode \in Modes
  /\ fs \in {d \in [Files -> FileLens \cup {Missing}] : d["error"] # Missing}
  /\ pc = "dispatch"
  /\ req \in Request
  /\ reply = Nothing
  /\ touched = {}
  /\ edits = 0

Answer(r) == reply' = r /\ pc' = "done"
Go(to) == pc' = to /\ UNCHANGED reply
Rest == UNCHANGED <<mode, fs, req, touched, edits>>

\* Mutated form: a malformed request counts as an uncaptured one.
DispatchLenient ==
  /\ pc = "dispatch"
  /\ \/ ~req.inside /\ Answer(Nothing)
     \/ req.inside /\ mode = "always" /\ Go("success")
     \/ req.inside /\ mode # "always" /\ Go(req.op)
  /\ Rest

\* Mutated form: the packet is named after the endpoint, not the operation.
DispatchByEndpoint ==
  /\ pc = "dispatch"
  /\ Go(IF mode = "always" THEN "success" ELSE req.endpoint)
  /\ Rest

\* dispatch up to the first file read, for a path no proxy rule claims: gwDirFor
\* keeps the directory inside the docroot, always skips the lookup, loadReply
\* rejects a malformed request.
Dispatch ==
  /\ pc = "dispatch"
  /\ \/ ~req.inside /\ Answer(Nothing)
     \/ req.inside /\ mode = "always" /\ Go("success")
     \/ req.inside /\ mode # "always" /\ Named(req) /\ Go(req.op)
     \/ req.inside /\ mode # "always" /\ ~Named(req) /\ Go("error")
  /\ Rest

\* Mutated form: a pass that fails is skipped.
EncryptLoosely(f, op) ==
  IF req.endpoint = "others"
  THEN Answer([from |-> f, op |-> op, passes |-> <<>>])
  ELSE Answer([from |-> f, op |-> op,
               passes |-> IF EnvelopePass(fs[f]) THEN <<"query", "envelope">> ELSE <<"query">>])

\* What becomes of a captured packet: othersReply sends it as it is,
\* connectReply encrypts it or gives up.
Finish(f, op) ==
  \/ req.endpoint = "others" /\ Answer([from |-> f, op |-> op, passes |-> <<>>])
  \/ /\ req.endpoint = "connect"
     /\ KeysDerivable(req) /\ QueryPass(fs[f]) /\ EnvelopePass(fs[f])
     /\ Answer([from |-> f, op |-> op, passes |-> <<"query", "envelope">>])
  \/ /\ req.endpoint = "connect"
     /\ ~(KeysDerivable(req) /\ QueryPass(fs[f]) /\ EnvelopePass(fs[f]))
     /\ Go("error")

\* Mutated form: fallback is forgotten.
MissingPacketAlwaysError == Go("error")

\* missingPacketReply.
MissingPacketReply == Go(IF mode = "fallback" THEN "success" ELSE "error")

\* Mutated form: an install query tries the unique-ID capture first.
LoadOwnThenUniqueID ==
  /\ pc = req.op
  /\ \/ Readable(pc) /\ Finish(pc, OpIn(pc))
     \/ ~Readable(pc) /\ pc = "install" /\ Go("uniqueID")
     \/ ~Readable(pc) /\ pc # "install" /\ MissingPacketReply
  /\ Rest

\* loadReply, the capture of the query itself.
LoadOwn ==
  /\ pc = req.op
  /\ \/ Readable(pc) /\ Finish(pc, OpIn(pc))
     \/ ~Readable(pc) /\ pc = "install" /\ Go("normal")
     \/ ~Readable(pc) /\ pc # "install" /\ MissingPacketReply
  /\ Rest

\* A packet without a byte 1 cannot be relabelled.
TooShort(len) == len < 2

\* Mutated form: a borrowed packet keeps its own byte 1.
RelabelNot(f) == Finish(f, OpIn(f))

\* packet[1] = opInstall.
Relabel(f) == Finish(f, "install")

\* loadReply, an install query without a capture: normal, then unique ID.
Borrow ==
  /\ pc \in {"normal", "uniqueID"} /\ req.op = "install"
  /\ \/ Readable(pc) /\ TooShort(fs[pc]) /\ Go("error")
     \/ Readable(pc) /\ ~TooShort(fs[pc]) /\ Relabel(pc)
     \/ ~Readable(pc) /\ pc = "normal" /\ Go("uniqueID")
     \/ ~Readable(pc) /\ pc = "uniqueID" /\ MissingPacketReply
  /\ Rest

\* successReply: byte 1 becomes the request's when both have one.
SuccessReply ==
  /\ pc = "success"
  /\ \/ ~Readable("success") /\ Go("error")
     \/ /\ Readable("success")
        /\ Answer([from |-> "success", passes |-> <<>>,
                   op |-> IF req.len > 1 /\ fs["success"] > 1 THEN req.op ELSE OpIn("success")])
  /\ Rest

\* errorRaw: verbatim, or nothing at all.
ErrorRaw ==
  /\ pc = "error"
  /\ Answer(IF Readable("error")
            THEN [from |-> "error", op |-> OpIn("error"), passes |-> <<>>] ELSE Nothing)
  /\ Rest

\* The operator changes a file.
Edit(f, len) ==
  /\ edits < MaxEdits /\ pc # "done" /\ fs[f] # len
  /\ fs' = [fs EXCEPT ![f] = len]
  /\ touched' = touched \cup {f}
  /\ edits' = edits + 1
  /\ UNCHANGED <<mode, pc, req, reply>>

Next ==
  \/ Dispatch \/ LoadOwn \/ Borrow \/ SuccessReply \/ ErrorRaw
  \/ \E f \in Files, len \in FileLens \cup {Missing} : Edit(f, len)

Spec == Init /\ [][Next]_vars

-----------------------------------------------------------------------------
(* What a title can rely on.                                               *)

\* The captures that may answer a query, and the best one there is: its own,
\* else the normal reply, else the unique-ID reply.
Candidates(r) == IF r.op = "install" THEN Packets ELSE {r.op}
HasCapture(r) == \E f \in Candidates(r) : Readable(f)
Best(r) ==
  IF Readable(r.op) THEN r.op ELSE IF Readable("normal") THEN "normal" ELSE "uniqueID"

\* The captures that are better than f for a query.
Better(r, f) ==
  CASE r.op = "install" /\ f = "normal"   -> {"install"}
    [] r.op = "install" /\ f = "uniqueID" -> {"install", "normal"}
    [] OTHER                              -> {}

\* A file that was not there all along.
Gone(f) == ~Readable(f) \/ f \in touched

\* A capture that this endpoint can send.
Usable(r, f) ==
  /\ fs[f] >= 2
  /\ r.endpoint = "connect" => r.len >= 308 /\ fs[f] >= 328

\* Done with a replay request that names a title, in a mode that looks captures
\* up, and none that may answer it changed meanwhile.
Quiet ==
  /\ pc = "done" /\ req.inside /\ Named(req) /\ mode # "always"
  /\ touched \cap Candidates(req) = {}

\* A captured title gets its capture: the best one there is, marked with the
\* operation it asked for, encrypted in both regions for the connect endpoints
\* and in none for others, in every mode but always and whatever happens to the
\* other files meanwhile (loadReply, connectReply).
CaptureIsReplayed ==
  (Quiet /\ HasCapture(req) /\ Usable(req, Best(req)))
  => reply = [from |-> Best(req), op |-> req.op,
              passes |-> IF req.endpoint = "connect" THEN <<"query", "envelope">> ELSE <<>>]

\* Whatever the operator does meanwhile, no title is sent a capture that is not
\* for its operation, and over connect none that is in the clear or encrypted
\* in one region only (relabelling, the error paths of connectReply).  Only
\* others may send a capture too short to name an operation, and its own.
CapturesLeaveWhole ==
  reply.from \in Packets =>
    /\ \/ reply.op = req.op
       \/ reply.op = "none" /\ reply.from = req.op /\ req.endpoint = "others"
    /\ reply.passes = (IF req.endpoint = "connect" THEN <<"query", "envelope">> ELSE <<>>)

\* A borrowed capture is never sent in the place of a better one that was there
\* from the request's arrival to its answer, and no query but install borrows
\* any: the order of loadReply holds while captures come and go between its reads.
BetterCapturesWereGone ==
  reply.from \in Packets =>
    reply.from \in Candidates(req) /\ \A f \in Better(req, reply.from) : Gone(f)

\* success.raw only ever takes the place of error.raw: fallback uses it for no
\* malformed request and for no query a capture of which was there all along, it
\* carries the operation that was asked for, and off never uses it.
SuccessOnlyInsteadOfError ==
  reply.from = "success" =>
    /\ mode # "off"
    /\ mode = "fallback" => Named(req) /\ \A f \in Candidates(req) : Gone(f)
    /\ (req.len > 1 /\ fs["success"] # Missing /\ fs["success"] > 1 /\ "success" \notin touched)
       => reply.op = req.op

\* fallback leaves nobody who has no capture with an error while there is a
\* success.raw: the workaround reaches every uncaptured query.
FallbackHelps ==
  (/\ Quiet /\ mode = "fallback" /\ ~HasCapture(req)
   /\ Readable("success") /\ "success" \notin touched)
  => reply.from = "success"

-----------------------------------------------------------------------------
(* What a comment promises.                                                *)

\* config.go on successFallback: success.raw "instead of error.raw when a title
\* has no capture at all".
SuccessOnlyWithoutCaptures ==
  (reply.from = "success" /\ mode = "fallback" /\ touched = {})
  => \A f \in Packets : ~Readable(f)
=============================================================================
