-------------------------------- MODULE Parsing --------------------------------
(***************************************************************************)
(* The length arithmetic of the parsers a client's bytes go through:       *)
(* readClientHello, decryptPremaster and parseHTTPRequest.  A message is   *)
(* its length and the numbers that are read from it; a parser says "ok",   *)
(* "error", "more" (the request is not complete) or "panic", what Go does  *)
(* when an index or a slice is out of range.                               *)
(***************************************************************************)
EXTENDS Integers

\* b[lo:hi] of n bytes.
Sliceable(lo, hi, n) == 0 <= lo /\ lo <= hi /\ hi <= n

\* len is the message, client its type; the others are the length fields it
\* carries, and whether the cipher list has the one cipher there is.
HelloV2 == [v : {2}, client : BOOLEAN, len : Nat, csl : Nat, sil : Nat, cl : Nat, offers : BOOLEAN]
HelloV3 == [v : {3}, client : BOOLEAN, len : Nat, sid : Nat, cs : Nat, offers : BOOLEAN]
KeyExchange == [v : {0}, client : BOOLEAN, len : Nat, enc : Nat]
Request == [v : {1}, line : BOOLEAN, cl : Int]

-----------------------------------------------------------------------------

\* The challenge starts at at; of a long one the last 32 bytes are taken.
ChallengeInRange(at, h) ==
  /\ Sliceable(at, at + h.cl, h.len)
  /\ h.cl > 32 => Sliceable(h.cl - 32, h.cl, h.cl)
  /\ h.cl <= 32 => Sliceable(32 - h.cl, 32, 32)

\* readClientHello, the SSLv2-compatible form.
ReadV2(h) ==
  IF h.len < 9 \/ ~h.client THEN "error"
  ELSE IF 9 + h.csl + h.sil + h.cl > h.len THEN "error"
  ELSE IF ~Sliceable(9, 9 + h.csl, h.len) THEN "panic"
  ELSE IF ~h.offers THEN "error"
  ELSE IF ChallengeInRange(9 + h.csl + h.sil, h) THEN "ok" ELSE "panic"

\* Mutated form: the cipher list is not checked against the end of the message.
ReadV3Unchecked(h) ==
  LET p   == h.len - 4
      off == 35 + h.sid
  IN  IF h.len < 4 \/ ~h.client THEN "error"
      ELSE IF p < 34 THEN "error"
      ELSE IF ~Sliceable(34, 35, p) THEN "panic"
      ELSE IF off + 2 > p THEN "error"
      ELSE IF ~Sliceable(off, off + 2, p) \/ ~Sliceable(off + 2, off + 2 + h.cs, p) THEN "panic"
      ELSE IF h.offers THEN "ok" ELSE "error"

\* readClientHello, the v3 form: version, random, session id, cipher suites.
ReadV3(h) ==
  LET p   == h.len - 4
      off == 35 + h.sid
  IN  IF h.len < 4 \/ ~h.client THEN "error"
      ELSE IF p < 34 THEN "error"
      ELSE IF ~Sliceable(34, 35, p) THEN "panic"
      ELSE IF off + 2 > p THEN "error"
      ELSE IF off + 2 + h.cs > p THEN "error"
      ELSE IF ~Sliceable(off, off + 2, p) \/ ~Sliceable(off + 2, off + 2 + h.cs, p) THEN "panic"
      ELSE IF h.offers THEN "ok" ELSE "error"

readClientHello(h) == IF h.v = 2 THEN ReadV2(h) ELSE ReadV3(h)

\* The check before decryptPremaster, and its own.
decryptPremaster(x) ==
  LET p == x.len - 4
  IN  IF x.len < 4 \/ ~x.client THEN "error"
      ELSE IF p < 2 THEN "error"
      ELSE IF 2 + x.enc > p THEN "error"
      ELSE IF Sliceable(2, 2 + x.enc, p) THEN "ok" ELSE "panic"

\* parseHTTPRequest with have bytes after the header.  A request line without
\* two fields never completes; Content-Length is whatever Atoi made of it.
parseHTTPRequest(r, have) ==
  IF ~r.line THEN "more"
  ELSE IF have < r.cl THEN "more"
  ELSE IF Sliceable(0, r.cl, have) THEN "ok" ELSE "panic"
=============================================================================
