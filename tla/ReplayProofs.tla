------------------------------ MODULE ReplayProofs -----------------------------
(***************************************************************************)
(* Proofs about Replay, for all request and file lengths and any number of *)
(* edits.  The inductive invariant says, for every file the request may be *)
(* about to read, why it got there.                                        *)
(***************************************************************************)
EXTENDS Replay, TLAPS

\* A packet is looked up for a request that names one, in a mode that does.
LookedUp == req.inside /\ Named(req) /\ mode # "always"

\* The path to the next read: an install query borrows only what it has to.
PathToPacket ==
  pc \in Packets =>
    /\ LookedUp
    /\ pc \in Candidates(req)
    /\ \A f \in Better(req, pc) : Gone(f)

PathToSuccess ==
  pc = "success" =>
    \/ mode = "always"
    \/ mode = "fallback" /\ LookedUp /\ \A f \in Candidates(req) : Gone(f)

\* error.raw is due only for want of a usable capture and of success.raw.
PathToError ==
  (pc = "error" /\ LookedUp /\ touched \cap Candidates(req) = {}) =>
    \/ HasCapture(req) /\ ~Usable(req, Best(req))
    \/ ~HasCapture(req) /\ (mode = "fallback" => Gone("success"))

Unanswered == pc # "done" => reply = Nothing

Properties ==
  /\ CaptureIsReplayed /\ CapturesLeaveWhole /\ BetterCapturesWereGone
  /\ SuccessOnlyInsteadOfError /\ FallbackHelps

ReplayInv ==
  TypeOK /\ PathToPacket /\ PathToSuccess /\ PathToError /\ Unanswered /\ Properties

-----------------------------------------------------------------------------
(* Type correctness.                                                       *)

\* The two forms of an answer with a body.
Plain(f, op) == [from |-> f, op |-> op, passes |-> <<>>]
Encrypted(f, op) == [from |-> f, op |-> op, passes |-> <<"query", "envelope">>]

\* The answers the code builds are replies.
LEMMA AnswersAreReplies ==
  /\ Nothing \in Reply
  /\ \A f \in Files, op \in Ops \cup {"none"} : Plain(f, op) \in Reply /\ Encrypted(f, op) \in Reply
<1>1. <<>> \in Seq(Passes) /\ <<"query", "envelope">> \in Seq(Passes)
  BY DEF Passes
<1>2. Nothing \in Reply
  BY <1>1 DEF Nothing, Reply
<1>3. ASSUME NEW f \in Files, NEW op \in Ops \cup {"none"} PROVE Plain(f, op) \in Reply /\ Encrypted(f, op) \in Reply
  BY <1>1, <1>3 DEF Plain, Encrypted, Reply
<1> QED
  BY <1>2, <1>3

\* What the ends of the handlers do to the reply and to the next read.
LEMMA FinishOutcome ==
  ASSUME NEW f \in Files, NEW op \in Ops \cup {"none"}, reply \in Reply, Finish(f, op)
  PROVE  reply' \in Reply /\ pc' \in {"done", "error"}
<1>1. CASE Answer(Plain(f, op))
  BY <1>1, AnswersAreReplies DEF Answer
<1>2. CASE Answer(Encrypted(f, op))
  BY <1>2, AnswersAreReplies DEF Answer
<1>3. CASE Go("error")
  BY <1>3 DEF Go
<1> QED
  BY <1>1, <1>2, <1>3 DEF Finish, Plain, Encrypted

\* Every step of the lookup and of the operator keeps the types.
LEMMA ReplayTypeStep == TypeOK /\ [Next]_vars => TypeOK'
<1> SUFFICES ASSUME TypeOK, [Next]_vars PROVE TypeOK'
  OBVIOUS
<1> USE DEF TypeOK
<1>0. ASSUME Rest, reply' \in Reply, pc' \in Files \cup {"dispatch", "done"} PROVE TypeOK'
  BY <1>0 DEF Rest
<1>1. req.op \in Ops /\ Ops \subseteq Files /\ {"success", "error"} \subseteq Files
  BY DEF Request, Files, Packets
<1>2. \A f \in Files : OpIn(f) \in Ops \cup {"none"}
  BY DEF OpIn, Packets, Ops
<1>3. MissingPacketReply => reply' \in Reply /\ pc' \in Files
  BY <1>1 DEF MissingPacketReply, Go
<1>4. CASE Dispatch
  BY <1>0, <1>1, <1>4, AnswersAreReplies DEF Dispatch, Answer, Go
<1>5. CASE LoadOwn
  <2>1. pc \in Files /\ Rest
    BY <1>1, <1>5 DEF LoadOwn
  <2>2. CASE Finish(pc, OpIn(pc))
    BY <1>0, <1>1, <1>2, <2>1, <2>2, FinishOutcome
  <2>3. CASE Go("normal") \/ MissingPacketReply
    BY <1>0, <1>1, <1>3, <2>1, <2>3 DEF Go, Ops
  <2> QED
    BY <1>5, <2>2, <2>3 DEF LoadOwn
<1>6. CASE Borrow
  <2>1. pc \in Files /\ Rest /\ "install" \in Ops
    BY <1>1, <1>6 DEF Borrow, Ops
  <2>2. CASE Finish(pc, "install")
    BY <1>0, <1>1, <2>1, <2>2, FinishOutcome
  <2>3. CASE Go("error") \/ Go("uniqueID") \/ MissingPacketReply
    BY <1>0, <1>1, <1>3, <2>1, <2>3 DEF Go, Ops
  <2> QED
    BY <1>6, <2>2, <2>3 DEF Borrow, Relabel
<1>7. CASE SuccessReply
  <2>1. CASE Go("error")
    BY <1>0, <1>1, <1>7, <2>1 DEF Go, SuccessReply
  <2>2. CASE \E op \in Ops \cup {"none"} : Answer(Plain("success", op))
    BY <1>0, <1>1, <1>7, <2>2, AnswersAreReplies DEF Answer, SuccessReply
  <2> QED
    BY <1>1, <1>2, <1>7, <2>1, <2>2 DEF SuccessReply, Plain
<1>8. CASE ErrorRaw
  <2>1. CASE Answer(Nothing)
    BY <1>0, <1>8, <2>1, AnswersAreReplies DEF Answer, ErrorRaw
  <2>2. CASE Answer(Plain("error", OpIn("error")))
    BY <1>0, <1>1, <1>2, <1>8, <2>2, AnswersAreReplies DEF Answer, ErrorRaw
  <2> QED
    BY <1>8, <2>1, <2>2 DEF ErrorRaw, Plain
<1>9. ASSUME NEW f \in Files, NEW len \in FileLens \cup {Missing}, Edit(f, len) PROVE TypeOK'
  <2>1. fs' \in [Files -> FileLens \cup {Missing}]
    BY <1>9 DEF Edit
  <2>2. touched' \subseteq Files /\ edits' \in Nat
    BY <1>9 DEF Edit
  <2> QED
    BY <1>9, <2>1, <2>2 DEF Edit
<1>10. CASE UNCHANGED vars
  BY <1>10 DEF vars
<1> QED
  BY <1>4, <1>5, <1>6, <1>7, <1>8, <1>9, <1>10 DEF Next

-----------------------------------------------------------------------------
(* The properties.                                                         *)

Paths == PathToPacket /\ PathToSuccess /\ PathToError /\ Unanswered

\* A step to another read answers nothing yet.
LEMMA GoAnswersNothing ==
  ASSUME Unanswered, pc # "done", NEW to \in Files, Go(to)
  PROVE  Unanswered' /\ Properties'
<1>1. reply' = Nothing /\ pc' = to /\ to # "done"
  BY DEF Go, Unanswered, Files, Packets, Ops
<1>2. reply'.from = "nothing"
  BY <1>1 DEF Nothing
<1>3. (CaptureIsReplayed /\ FallbackHelps)'
  BY <1>1 DEF CaptureIsReplayed, FallbackHelps, Quiet
<1>4. (CapturesLeaveWhole /\ BetterCapturesWereGone /\ SuccessOnlyInsteadOfError)'
  BY <1>2 DEF CapturesLeaveWhole, BetterCapturesWereGone, SuccessOnlyInsteadOfError, Packets, Ops
<1> QED
  BY <1>1, <1>3, <1>4 DEF Unanswered, Properties

\* An answer reads nothing more.
LEMMA AnswerEndsPath ==
  ASSUME NEW r, Answer(r)
  PROVE  Paths' /\ reply' = r /\ pc' = "done"
BY DEF Answer, Paths, PathToPacket, PathToSuccess, PathToError, Unanswered,
       Packets, Ops

\* The three regions of the request path are told apart by pc.
LEMMA PathsApart ==
  /\ "success" \notin Packets /\ "error" \notin Packets /\ "dispatch" \notin Packets
  /\ "done" \notin Packets /\ "nothing" \notin Packets
BY DEF Packets, Ops

\* Dispatch hands over to the lookup, to success.raw or to error.raw.
LEMMA DispatchStep == ReplayInv /\ Dispatch => Paths' /\ Properties'
<1> SUFFICES ASSUME ReplayInv, Dispatch PROVE Paths' /\ Properties'
  OBVIOUS
<1>1. Rest /\ pc # "done" /\ Unanswered /\ req \in Request /\ req.op \in Ops /\ req.op \in Files
  BY DEF ReplayInv, Dispatch, TypeOK, Request, Files, Packets
<1>2. CASE ~req.inside /\ Answer(Nothing)
  <2>1. Paths' /\ reply' = Nothing /\ pc' = "done"
    BY <1>2, AnswerEndsPath
  <2>2. reply'.from = "nothing" /\ ~req'.inside
    BY <1>1, <1>2, <2>1 DEF Nothing, Rest
  <2> QED
    BY <2>1, <2>2, PathsApart DEF Properties, CaptureIsReplayed, CapturesLeaveWhole, BetterCapturesWereGone,
       SuccessOnlyInsteadOfError, FallbackHelps, Quiet
<1>3. CASE mode = "always" /\ Go("success")
  <2>1. Unanswered' /\ Properties'
    BY <1>1, <1>3, GoAnswersNothing DEF Files
  <2> QED
    BY <1>1, <1>3, <2>1, PathsApart DEF Go, Rest, Paths, PathToPacket, PathToSuccess, PathToError
<1>4. CASE req.inside /\ mode # "always" /\ Named(req) /\ Go(req.op)
  <2>1. Unanswered' /\ Properties'
    BY <1>1, <1>4, GoAnswersNothing
  <2>2. pc' = req.op /\ req' = req /\ mode' = mode
    BY <1>1, <1>4 DEF Go, Rest
  <2>3. PathToPacket'
    BY <1>1, <1>4, <2>2 DEF PathToPacket, LookedUp, Candidates, Named, GameIDOff, Packets, Better
  <2>4. PathToSuccess' /\ PathToError'
    BY <1>1, <2>2 DEF PathToSuccess, PathToError, Ops
  <2> QED
    BY <2>1, <2>3, <2>4 DEF Paths
<1>5. CASE req.inside /\ mode # "always" /\ ~Named(req) /\ Go("error")
  <2>1. Unanswered' /\ Properties'
    BY <1>1, <1>5, GoAnswersNothing DEF Files
  <2>2. ~LookedUp' /\ pc' = "error"
    BY <1>1, <1>5 DEF Go, Rest, LookedUp, Named, GameIDOff
  <2> QED
    BY <2>1, <2>2, PathsApart DEF Paths, PathToPacket, PathToSuccess, PathToError
<1> QED
  BY <1>2, <1>3, <1>4, <1>5 DEF Dispatch

\* Without an edit in this step, everything said of the request and the
\* directory stays as it is.
LEMMA RestKeeps ==
  ASSUME Rest
  PROVE  /\ req' = req /\ mode' = mode /\ fs' = fs /\ touched' = touched
         /\ LookedUp' <=> LookedUp
         /\ HasCapture(req)' <=> HasCapture(req)
         /\ Best(req)' = Best(req)
         /\ Usable(req, Best(req))' <=> Usable(req, Best(req))
         /\ \A f : Gone(f)' <=> Gone(f)
         /\ \A f : Readable(f)' <=> Readable(f)
         /\ Candidates(req)' = Candidates(req)
         /\ \A f : Better(req, f)' = Better(req, f)
<1>1. req' = req /\ mode' = mode /\ fs' = fs /\ touched' = touched
  BY DEF Rest
<1>2. LookedUp' <=> LookedUp
  BY <1>1 DEF LookedUp, Named, GameIDOff
<1>3. Candidates(req)' = Candidates(req) /\ \A f : Readable(f)' <=> Readable(f)
  BY <1>1 DEF Candidates, Readable
<1>4. Best(req)' = Best(req) /\ (HasCapture(req)' <=> HasCapture(req))
  BY <1>1, <1>3 DEF Best, HasCapture, Readable
<1>5. Usable(req, Best(req))' <=> Usable(req, Best(req))
  BY <1>1, <1>4 DEF Usable
<1>6. \A f : Gone(f)' <=> Gone(f)
  BY <1>1, <1>3 DEF Gone, Readable
<1>7. \A f : Better(req, f)' = Better(req, f)
  BY <1>1 DEF Better
<1> QED
  BY <1>1, <1>2, <1>3, <1>4, <1>5, <1>6, <1>7

\* A capture is sent whole or given up for error.raw, which is right when it is
\* the best one.
LEMMA FinishStep ==
  ASSUME ReplayInv, Rest, pc \in Candidates(req), LookedUp, Readable(pc), NEW op, Finish(pc, op),
         \A f \in Better(req, pc) : Gone(f),
         touched \cap Candidates(req) = {} => pc = Best(req),
         fs[pc] >= 2 => op = req.op,
         fs[pc] < 2 => op = "none" /\ pc = req.op
  PROVE  Paths' /\ Properties'
<1> DEFINE Good == [from |-> pc, op |-> op,
                    passes |-> IF req.endpoint = "connect" THEN <<"query", "envelope">> ELSE <<>>]
<1>1. /\ pc \in Packets /\ pc \in Files /\ pc # "done" /\ pc # "success"
      /\ req.endpoint \in {"connect", "others"} /\ req.len \in Nat /\ fs[pc] \in Nat
  BY LensAssumption
  DEF ReplayInv, TypeOK, Candidates, Packets, Ops, Files, Request, Endpoints, Readable
<1>2. HasCapture(req)
  BY DEF HasCapture
<1>3. CASE Answer(Good) /\ (req.endpoint = "connect" => fs[pc] >= 2)
  <2>1. Paths' /\ reply' = Good /\ pc' = "done"
    BY <1>3, AnswerEndsPath
  <2>2. CaptureIsReplayed'
    <3>1. Quiet' /\ Usable(req, Best(req))' => pc = Best(req) /\ fs[pc] >= 2
      BY RestKeeps DEF Quiet, Usable
    <3> QED
      BY <2>1, <3>1, RestKeeps DEF CaptureIsReplayed
  <2>3. reply'.from = pc /\ reply'.op = op
    BY <2>1
  <2>4. CapturesLeaveWhole'
    <3>1. reply'.passes = IF req.endpoint = "connect" THEN <<"query", "envelope">> ELSE <<>>
      BY <2>1
    <3>2. op = req.op \/ (op = "none" /\ pc = req.op /\ req.endpoint = "others")
      BY <1>1, <1>3
    <3> QED
      BY <2>3, <3>1, <3>2, RestKeeps DEF CapturesLeaveWhole
  <2>5. BetterCapturesWereGone'
    BY <2>3, RestKeeps DEF BetterCapturesWereGone
  <2>6. SuccessOnlyInsteadOfError' /\ FallbackHelps'
    BY <1>1, <1>2, <2>3, RestKeeps DEF SuccessOnlyInsteadOfError, FallbackHelps
  <2> QED
    BY <2>1, <2>2, <2>4, <2>5, <2>6 DEF Properties
<1>4. CASE Go("error") /\ req.endpoint = "connect"
           /\ ~(KeysDerivable(req) /\ QueryPass(fs[pc]) /\ EnvelopePass(fs[pc]))
  <2>1. Unanswered' /\ Properties' /\ pc' = "error"
    BY <1>1, <1>4, GoAnswersNothing DEF ReplayInv, Go, Files
  <2>2. ~Usable(req, pc)
    BY <1>1, <1>4 DEF Usable, KeysDerivable, QueryPass, EnvelopePass, Encryptable
  <2>3. PathToError'
    BY <1>2, <2>2, RestKeeps DEF PathToError
  <2> QED
    BY <2>1, <2>3, PathsApart DEF Paths, PathToPacket, PathToSuccess
<1>5. QueryPass(fs[pc]) => fs[pc] >= 2
  BY <1>1 DEF QueryPass, Encryptable
<1> QED
  BY <1>1, <1>3, <1>4, <1>5 DEF Finish

\* A query without a capture goes to success.raw under fallback, else to error.raw.
LEMMA MissingStep ==
  ASSUME ReplayInv, Rest, pc # "done", LookedUp, MissingPacketReply,
         \A f \in Candidates(req) : Gone(f)
  PROVE  Paths' /\ Properties'
<1>1. CASE mode = "fallback"
  <2>1. Go("success")
    BY <1>1 DEF MissingPacketReply
  <2>2. Unanswered' /\ Properties' /\ pc' = "success"
    BY <2>1, GoAnswersNothing DEF ReplayInv, Go, Files
  <2>3. PathToSuccess'
    BY <1>1, RestKeeps DEF PathToSuccess
  <2> QED
    BY <2>2, <2>3, PathsApart DEF Paths, PathToPacket, PathToError
<1>2. CASE mode # "fallback"
  <2>1. Go("error")
    BY <1>2 DEF MissingPacketReply
  <2>2. Unanswered' /\ Properties' /\ pc' = "error"
    BY <2>1, GoAnswersNothing DEF ReplayInv, Go, Files
  <2>3. touched \cap Candidates(req) = {} => ~HasCapture(req)
    BY DEF HasCapture, Gone
  <2>4. PathToError'
    BY <1>2, <2>3, RestKeeps DEF PathToError
  <2> QED
    BY <2>2, <2>4, PathsApart DEF Paths, PathToPacket, PathToSuccess
<1> QED
  BY <1>1, <1>2

\* The query's own capture.
LEMMA LoadOwnStep == ReplayInv /\ LoadOwn => Paths' /\ Properties'
<1> SUFFICES ASSUME ReplayInv, LoadOwn PROVE Paths' /\ Properties'
  OBVIOUS
<1>1. Rest /\ pc = req.op /\ pc \in Ops /\ pc \in Packets /\ pc # "done"
  BY DEF ReplayInv, LoadOwn, TypeOK, Request, Packets, Ops
<1>2. LookedUp /\ pc \in Candidates(req)
  BY <1>1 DEF ReplayInv, PathToPacket
<1>3. CASE Readable(pc) /\ Finish(pc, OpIn(pc))
  <2>1. Best(req) = pc /\ \A f \in Better(req, pc) : Gone(f)
    BY <1>1, <1>3 DEF Best, ReplayInv, PathToPacket
  <2>2. fs[pc] \in Nat
    BY <1>1, <1>3, LensAssumption DEF ReplayInv, TypeOK, Readable, Files
  <2>3. /\ fs[pc] >= 2 => OpIn(pc) = req.op
        /\ fs[pc] < 2 => OpIn(pc) = "none"
    BY <1>1, <2>2 DEF OpIn
  <2> QED
    BY <1>1, <1>2, <1>3, <2>1, <2>3, FinishStep
<1>4. CASE ~Readable(pc) /\ pc = "install" /\ Go("normal")
  <2>1. Unanswered' /\ Properties' /\ pc' = "normal"
    BY <1>1, <1>4, GoAnswersNothing DEF ReplayInv, Go, Files, Packets, Ops
  <2>2. "normal" \in Candidates(req) /\ \A f \in Better(req, "normal") : Gone(f)
    BY <1>1, <1>4 DEF Gone, Candidates, Packets, Ops, Better
  <2>3. PathToPacket'
    BY <1>1, <1>2, <2>1, <2>2, RestKeeps DEF PathToPacket
  <2> QED
    BY <2>1, <2>3 DEF Paths, PathToSuccess, PathToError
<1>5. CASE ~Readable(pc) /\ pc # "install" /\ MissingPacketReply
  <2>1. \A f \in Candidates(req) : Gone(f)
    BY <1>1, <1>5 DEF Candidates, Gone
  <2> QED
    BY <1>1, <1>2, <1>5, <2>1, MissingStep
<1> QED
  BY <1>3, <1>4, <1>5 DEF LoadOwn

\* The captures an install query borrows.
LEMMA BorrowStep == ReplayInv /\ Borrow => Paths' /\ Properties'
<1> SUFFICES ASSUME ReplayInv, Borrow PROVE Paths' /\ Properties'
  OBVIOUS
<1>1. /\ Rest /\ pc \in {"normal", "uniqueID"} /\ req.op = "install"
      /\ pc \in Packets /\ pc # "done" /\ pc # req.op
  BY DEF Borrow, Packets, Ops
<1>2. /\ LookedUp /\ pc \in Candidates(req) /\ Gone("install")
      /\ pc = "uniqueID" => Gone("normal")
      /\ \A f \in Better(req, pc) : Gone(f)
  BY <1>1 DEF ReplayInv, PathToPacket, Better
<1>3. touched \cap Candidates(req) = {} /\ Readable(pc) => pc = Best(req)
  <2>1. "install" \in Candidates(req) /\ "normal" \in Candidates(req)
    BY <1>1 DEF Candidates, Packets, Ops
  <2> QED
    BY <1>1, <1>2, <2>1 DEF Best, Gone
<1>4. Readable(pc) => fs[pc] \in Nat
  BY <1>1, LensAssumption DEF ReplayInv, TypeOK, Readable, Files
<1>5. CASE Readable(pc) /\ TooShort(fs[pc]) /\ Go("error")
  <2>1. Unanswered' /\ Properties' /\ pc' = "error"
    BY <1>1, <1>5, GoAnswersNothing DEF ReplayInv, Go, Files
  <2>2. HasCapture(req) /\ ~Usable(req, pc)
    BY <1>1, <1>2, <1>4, <1>5 DEF HasCapture, Usable, TooShort
  <2>3. PathToError'
    BY <1>1, <1>3, <1>5, <2>2, RestKeeps DEF PathToError
  <2> QED
    BY <2>1, <2>3, PathsApart DEF Paths, PathToPacket, PathToSuccess
<1>6. CASE Readable(pc) /\ ~TooShort(fs[pc]) /\ Relabel(pc)
  <2>1. fs[pc] >= 2 /\ Finish(pc, req.op)
    BY <1>1, <1>4, <1>6 DEF TooShort, Relabel
  <2> QED
    BY <1>1, <1>2, <1>3, <1>4, <1>6, <2>1, FinishStep
<1>7. CASE ~Readable(pc) /\ pc = "normal" /\ Go("uniqueID")
  <2>1. Unanswered' /\ Properties' /\ pc' = "uniqueID"
    BY <1>1, <1>7, GoAnswersNothing DEF ReplayInv, Go, Files, Packets, Ops
  <2>2. "uniqueID" \in Candidates(req) /\ \A f \in Better(req, "uniqueID") : Gone(f)
    BY <1>1, <1>2, <1>7 DEF Gone, Candidates, Packets, Ops, Better
  <2>3. PathToPacket'
    BY <1>1, <1>2, <2>1, <2>2, RestKeeps DEF PathToPacket
  <2> QED
    BY <2>1, <2>3 DEF Paths, PathToSuccess, PathToError
<1>8. CASE ~Readable(pc) /\ pc = "uniqueID" /\ MissingPacketReply
  <2>1. \A f \in Candidates(req) : Gone(f)
    BY <1>1, <1>2, <1>8 DEF Candidates, Packets, Ops, Gone
  <2> QED
    BY <1>1, <1>2, <1>8, <2>1, MissingStep
<1> QED
  BY <1>5, <1>6, <1>7, <1>8 DEF Borrow

\* success.raw, reached only where PathToSuccess allows it.
LEMMA SuccessReplyStep == ReplayInv /\ SuccessReply => Paths' /\ Properties'
<1> SUFFICES ASSUME ReplayInv, SuccessReply PROVE Paths' /\ Properties'
  OBVIOUS
<1>1. Rest /\ pc = "success" /\ pc # "done"
  BY DEF SuccessReply
<1>2. \/ mode = "always"
      \/ mode = "fallback" /\ LookedUp /\ \A f \in Candidates(req) : Gone(f)
  BY <1>1 DEF ReplayInv, PathToSuccess
<1>3. touched \cap Candidates(req) = {} /\ mode = "fallback" => ~HasCapture(req)
  BY <1>2 DEF HasCapture, Gone
<1>4. CASE ~Readable("success") /\ Go("error")
  <2>1. Unanswered' /\ Properties' /\ pc' = "error"
    BY <1>1, <1>4, GoAnswersNothing DEF ReplayInv, Go, Files
  <2>2. PathToError'
    BY <1>1, <1>2, <1>3, <1>4, RestKeeps DEF PathToError, LookedUp, Gone
  <2> QED
    BY <2>1, <2>2, PathsApart DEF Paths, PathToPacket, PathToSuccess
<1>5. CASE Readable("success")
           /\ Answer([from |-> "success", passes |-> <<>>,
                      op |-> IF req.len > 1 /\ fs["success"] > 1 THEN req.op ELSE OpIn("success")])
  <2>1. Paths' /\ pc' = "done" /\ reply'.from = "success"
    BY <1>5, AnswerEndsPath
  <2>2. req.len > 1 /\ fs["success"] > 1 => reply'.op = req.op
    BY <1>5, AnswerEndsPath
  <2>3. CaptureIsReplayed'
    BY <1>1, <1>2, <1>3, RestKeeps DEF CaptureIsReplayed, Quiet
  <2>4. CapturesLeaveWhole' /\ BetterCapturesWereGone' /\ FallbackHelps'
    BY <2>1, PathsApart DEF CapturesLeaveWhole, BetterCapturesWereGone, FallbackHelps
  <2>5. SuccessOnlyInsteadOfError'
    <3>1. mode' # "off" /\ (mode' = "fallback" => Named(req)' /\ \A f \in Candidates(req)' : Gone(f)')
      BY <1>1, <1>2, RestKeeps DEF LookedUp, Named, GameIDOff
    <3>2. req'.len > 1 /\ fs'["success"] > 1 => reply'.op = req'.op
      BY <1>1, <2>2, RestKeeps
    <3> QED
      BY <3>1, <3>2 DEF SuccessOnlyInsteadOfError
  <2> QED
    BY <2>1, <2>3, <2>4, <2>5 DEF Properties
<1> QED
  BY <1>4, <1>5 DEF SuccessReply

\* error.raw, reached only where PathToError allows it.
LEMMA ErrorRawStep == ReplayInv /\ ErrorRaw => Paths' /\ Properties'
<1> SUFFICES ASSUME ReplayInv, ErrorRaw PROVE Paths' /\ Properties'
  OBVIOUS
<1>1. Rest /\ pc = "error" /\ PathToError
  BY DEF ErrorRaw, ReplayInv
<1>2. PICK r \in {Nothing, [from |-> "error", op |-> OpIn("error"), passes |-> <<>>]} : Answer(r)
  BY DEF ErrorRaw
<1>3. Paths' /\ pc' = "done" /\ reply'.from \in {"nothing", "error"}
  BY <1>2, AnswerEndsPath DEF Nothing
<1>4. CapturesLeaveWhole' /\ BetterCapturesWereGone' /\ SuccessOnlyInsteadOfError'
  BY <1>3, PathsApart DEF CapturesLeaveWhole, BetterCapturesWereGone, SuccessOnlyInsteadOfError
<1>5. Quiet' => LookedUp /\ touched \cap Candidates(req) = {}
  BY <1>1, RestKeeps DEF Quiet, LookedUp, Named, GameIDOff
<1>6. CaptureIsReplayed'
  BY <1>1, <1>5, RestKeeps DEF CaptureIsReplayed, PathToError
<1>7. FallbackHelps'
  BY <1>1, <1>5, RestKeeps DEF FallbackHelps, PathToError, Gone
<1> QED
  BY <1>3, <1>4, <1>6, <1>7 DEF Properties

\* An edit only adds to the files that were not there all along.
LEMMA EditStep ==
  ASSUME ReplayInv, NEW f \in Files, NEW len \in FileLens \cup {Missing}, Edit(f, len)
  PROVE  Paths' /\ Properties'
<1>1. /\ pc' = pc /\ req' = req /\ mode' = mode /\ reply' = reply /\ pc # "done"
      /\ f \in touched' /\ touched \subseteq touched' /\ reply = Nothing
  BY DEF ReplayInv, Unanswered, Edit
<1>2. ASSUME NEW g \in Files, Gone(g) PROVE Gone(g)'
  <2>1. CASE g = f
    BY <1>1, <2>1 DEF Gone
  <2>2. CASE g # f /\ g \in touched
    BY <1>1, <2>2 DEF Gone
  <2>3. CASE g # f /\ ~Readable(g)
    BY <2>3 DEF ReplayInv, TypeOK, Edit, Gone, Readable
  <2> QED
    BY <1>2, <2>1, <2>2, <2>3 DEF Gone
<1>3. Candidates(req)' = Candidates(req) /\ (LookedUp' <=> LookedUp) /\ Candidates(req) \subseteq Files
  BY <1>1 DEF ReplayInv, TypeOK, Request, Files, Packets, Candidates, LookedUp, Named, GameIDOff
<1>4. PathToPacket'
  <2>1. \A g : Better(req, g)' = Better(req, g) /\ Better(req, g) \subseteq Files
    BY <1>1 DEF Better, Files, Packets, Ops
  <2> QED
    BY <1>1, <1>2, <1>3, <2>1 DEF ReplayInv, PathToPacket
<1>5. PathToSuccess'
  BY <1>1, <1>2, <1>3 DEF ReplayInv, PathToSuccess
<1>6. Unanswered'
  BY <1>1 DEF Unanswered
<1>7. PathToError'
  <2> SUFFICES ASSUME pc = "error", LookedUp, touched' \cap Candidates(req) = {}
               PROVE  \/ HasCapture(req)' /\ ~Usable(req, Best(req))'
                      \/ ~HasCapture(req)' /\ (mode = "fallback" => Gone("success")')
    BY <1>1, <1>3 DEF PathToError
  <2>1. f \notin Candidates(req) /\ touched \cap Candidates(req) = {}
    BY <1>1
  <2>2. \A g \in Candidates(req) : fs'[g] = fs[g] /\ (Readable(g)' <=> Readable(g))
    BY <1>3, <2>1 DEF ReplayInv, TypeOK, Edit, Readable
  <2>3. HasCapture(req)' <=> HasCapture(req)
    BY <1>3, <2>2 DEF HasCapture
  <2>4. ASSUME HasCapture(req) PROVE Usable(req, Best(req))' <=> Usable(req, Best(req))
    <3>1. Best(req) \in Candidates(req) /\ Best(req)' = Best(req)
      <4>1. CASE req.op = "install"
        BY <1>1, <2>2, <2>4, <4>1 DEF Best, HasCapture, Candidates, Packets, Ops
      <4>2. CASE req.op # "install"
        BY <1>1, <2>2, <2>4, <4>2 DEF Best, HasCapture, Candidates
      <4> QED
        BY <4>1, <4>2
    <3> QED
      BY <1>1, <2>2, <3>1 DEF Usable
  <2>5. Gone("success") => Gone("success")'
    BY <1>2 DEF Files
  <2>6. \/ HasCapture(req) /\ ~Usable(req, Best(req))
        \/ ~HasCapture(req) /\ (mode = "fallback" => Gone("success"))
    BY <2>1 DEF ReplayInv, PathToError
  <2> QED
    BY <2>3, <2>4, <2>5, <2>6
<1>8. Properties'
  <2>1. reply'.from = "nothing"
    BY <1>1 DEF Nothing
  <2> QED
    BY <1>1, <2>1, PathsApart DEF ReplayInv, Properties, CaptureIsReplayed, FallbackHelps, Quiet,
       CapturesLeaveWhole, BetterCapturesWereGone, SuccessOnlyInsteadOfError
<1> QED
  BY <1>4, <1>5, <1>6, <1>7, <1>8 DEF Paths

-----------------------------------------------------------------------------
(* The theorems.                                                           *)

\* A request that has just arrived satisfies the invariant.
LEMMA ReplayInit == Init => ReplayInv
<1> SUFFICES ASSUME Init PROVE ReplayInv
  OBVIOUS
<1>1. TypeOK
  BY AnswersAreReplies DEF Init, TypeOK
<1>2. pc = "dispatch" /\ reply = Nothing /\ reply.from = "nothing"
  BY DEF Init, Nothing
<1>3. PathToPacket /\ PathToSuccess /\ PathToError /\ Unanswered
  BY <1>2, PathsApart DEF PathToPacket, PathToSuccess, PathToError, Unanswered
<1>4. Properties
  BY <1>2, PathsApart DEF Properties, CaptureIsReplayed, FallbackHelps, Quiet, CapturesLeaveWhole,
     BetterCapturesWereGone, SuccessOnlyInsteadOfError
<1> QED
  BY <1>1, <1>3, <1>4 DEF ReplayInv

\* Every step keeps it.
LEMMA ReplayStep == ReplayInv /\ [Next]_vars => ReplayInv'
<1> SUFFICES ASSUME ReplayInv, [Next]_vars PROVE ReplayInv'
  OBVIOUS
<1>1. TypeOK'
  BY ReplayTypeStep DEF ReplayInv
<1>2. Paths' /\ Properties'
  <2>1. CASE UNCHANGED vars
    BY <2>1 DEF vars, ReplayInv, Paths, PathToPacket, PathToSuccess, PathToError, Unanswered,
       Properties, CaptureIsReplayed, CapturesLeaveWhole, BetterCapturesWereGone, SuccessOnlyInsteadOfError, FallbackHelps,
       LookedUp, Named, GameIDOff, Quiet, Gone, HasCapture, Best, Usable, Candidates,
       Readable, Better
  <2> QED
    BY <2>1, DispatchStep, LoadOwnStep, BorrowStep, SuccessReplyStep, ErrorRawStep, EditStep DEF Next
<1> QED
  BY <1>1, <1>2 DEF ReplayInv, Paths

\* The invariant holds of every request, in every mode and docroot.
THEOREM ReplayInvHolds == Spec => []ReplayInv
BY ReplayInit, ReplayStep, PTL DEF Spec

\* Every variable of a request keeps its type.
THEOREM ReplayTypeCorrect == Spec => []TypeOK
BY ReplayInvHolds, PTL DEF ReplayInv

\* A captured title gets its best capture, whole (loadReply, connectReply).
THEOREM CapturesAreReplayed == Spec => []CaptureIsReplayed
BY ReplayInvHolds, PTL DEF ReplayInv, Properties

\* No capture leaves mislabelled or half encrypted, whatever the operator edits.
THEOREM CapturesAlwaysLeaveWhole == Spec => []CapturesLeaveWhole
BY ReplayInvHolds, PTL DEF ReplayInv, Properties

\* success.raw only takes the place of error.raw (missingPacketReply, successReply).
THEOREM SuccessReplacesErrors == Spec => []SuccessOnlyInsteadOfError
BY ReplayInvHolds, PTL DEF ReplayInv, Properties

\* fallback reaches every query without a capture (missingPacketReply).
THEOREM FallbackReachesAll == Spec => []FallbackHelps
BY ReplayInvHolds, PTL DEF ReplayInv, Properties

\* A capture is borrowed only where no better one was there all along (loadReply).
THEOREM BorrowsInOrder == Spec => []BetterCapturesWereGone
BY ReplayInvHolds, PTL DEF ReplayInv, Properties
=============================================================================
