------------------------------- MODULE CertChoice ------------------------------
(***************************************************************************)
(* What the region hints really promise, without DNS goroutines, datagrams *)
(* or a hint table: a connection is shown the default certificate or the   *)
(* certificate of some region its own client has resolved before, and the  *)
(* certificate is one that was loaded.  Which of them is left open: the    *)
(* detailed module shows why the last lookup need not win.                 *)
(***************************************************************************)
EXTENDS Naturals, Sequences

CONSTANTS Clients, Questions, Redirected, RegionOf, NoRegion

VARIABLES
  certs, defaultRegion,  \* as main leaves them
  asked,                 \* the questions each client asked so far
  served                 \* the connections with the certificate they were shown

\* The regions a client can be hinted to by what it asked so far.
Hinted(c) ==
  {RegionOf[asked[c][i]] : i \in {j \in 1..Len(asked[c]) : asked[c][j] \in Redirected}}
    \ {NoRegion}

Init ==
  /\ defaultRegion \in certs
  /\ asked = [c \in Clients |-> <<>>]
  /\ served = {}

Ask(c, q) ==
  /\ asked' = [asked EXCEPT ![c] = Append(@, q)]
  /\ UNCHANGED <<certs, defaultRegion, served>>

\* The connection that follows a client's k-th question is shown a certificate.
Serve(c, k, cert) ==
  /\ k \in 1..Len(asked[c])
  /\ cert \in ({defaultRegion} \cup Hinted(c)) \cap certs
  /\ served' = served \cup {[client |-> c, k |-> k, cert |-> cert]}
  /\ UNCHANGED <<certs, defaultRegion, asked>>

Next ==
  \/ \E c \in Clients, q \in Questions : Ask(c, q)
  \/ \E c \in Clients : \E k \in 1..Len(asked[c]) : \E cert \in certs : Serve(c, k, cert)

vars == <<certs, defaultRegion, asked, served>>

Spec == Init /\ [][Next]_vars
=============================================================================
