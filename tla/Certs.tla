---------------------------------- MODULE Certs --------------------------------
(***************************************************************************)
(* The certificate directory: tools/gencerts re-issues the certificates in *)
(* it, file by file, and may be stopped between and inside two writes; the *)
(* server reads the CA certificate and the key pairs from it when it       *)
(* starts (main, loadPEMCerts, appendChain), perhaps at the same time.     *)
(*                                                                         *)
(* Keys are numbers: 0 is the CA key the original certificates were issued *)
(* with, which nobody has, and a generated key has the number of the run   *)
(* that made it.  A certificate names its subject, the key that signed it  *)
(* and the run it stems from; a CA certificate is signed with its own key. *)
(* A PEM file is its sequence of certificates, Cut when it ends in the     *)
(* middle, Missing when it is not there.                                   *)
(***************************************************************************)
EXTENDS Naturals, Sequences

CONSTANTS
  Regions,   \* the regions in the order both programs take them
  MaxRuns,   \* bound: runs of gencerts
  CA,        \* the subject of the CA certificate
  Missing, Cut

ASSUME CertsAssumption ==
  /\ Regions \in Seq(STRING) /\ Regions # <<>> /\ MaxRuns \in Nat
  /\ \A i, j \in DOMAIN Regions : Regions[i] = Regions[j] => i = j
  /\ \A i \in DOMAIN Regions : Regions[i] # CA
  /\ Missing \notin Nat /\ Cut \notin Nat /\ Missing # Cut

RegionSet == {Regions[i] : i \in DOMAIN Regions}
Keys == 0..MaxRuns
Cert == [of : RegionSet \cup {CA}, by : Keys, run : 0..MaxRuns]
CACertOf(k, run) == [of |-> CA, by |-> k, run |-> run]
LeafOf(r, k, run) == [of |-> r, by |-> k, run |-> run]
Original == CACertOf(0, 0)

\* The two markers are not contents of a file.
ASSUME MarkersAssumption == \A c \in Cert : <<c>> \notin {Missing, Cut}

VARIABLES
  caKey,    \* ca-key.pem
  caCert,   \* ca-cert.pem
  leaf,     \* cert-<region>.pem
  leafKey,  \* cert-<region>-key.pem: is there
  gen,      \* where gencerts stands
  key,      \* its CA key
  n,        \* its region
  runs,     \* runs of gencerts so far
  issued,   \* a run has gone through
  srv,      \* where the server's start stands
  chain,    \* what loadPEMCerts returned
  m,        \* its region
  at,       \* appendChain: the next certificate of the chain
  certs,    \* Server.certs
  after     \* the server started after a run had gone through

disk == <<caKey, caCert, leaf, leafKey>>
tool == <<gen, key, n, runs, issued>>
server == <<srv, chain, m, at, certs, after>>
vars == <<disk, tool, server>>

Pem == Seq(Cert) \cup {Missing, Cut}
Whole(f) == f # Missing /\ f # Cut

TypeOK ==
  /\ caKey \in Keys \cup {Missing, Cut}
  /\ caCert \in Pem /\ leaf \in [RegionSet -> Pem] /\ leafKey \in [RegionSet -> BOOLEAN]
  /\ gen \in {"off", "key", "fillkey", "ca", "fillca", "leaf", "fillleaf", "done"}
  /\ key \in Keys /\ n \in 1..(Len(Regions) + 1) /\ runs \in 0..MaxRuns /\ issued \in BOOLEAN
  /\ srv \in {"off", "load", "append", "serving", "fatal"}
  /\ chain \in Seq(Cert) /\ m \in 1..(Len(Regions) + 1) /\ at \in Nat
  /\ certs \in [RegionSet -> Seq(Cert)] /\ after \in BOOLEAN

\* The directory as it is shipped, or parts of it; a leaf file may hold the CA
\* certificate too.
Shipped(r, how) ==
  CASE how = "missing" -> Missing
    [] how = "leaf"    -> <<LeafOf(r, 0, 0)>>
    [] how = "bundle"  -> <<LeafOf(r, 0, 0), Original>>

Init ==
  /\ caKey = Missing
  /\ caCert \in {<<Original>>, <<Original, Original>>, Missing}
  /\ \E how \in [RegionSet -> {"missing", "leaf", "bundle"}] :
       leaf = [r \in RegionSet |-> Shipped(r, how[r])]
  /\ leafKey \in [RegionSet -> BOOLEAN]
  /\ gen = "off" /\ key = 0 /\ n = 1 /\ runs = 0 /\ issued = FALSE
  /\ srv = "off" /\ chain = <<>> /\ m = 1 /\ at = 1 /\ certs = [r \in RegionSet |-> <<>>] /\ after = FALSE

-----------------------------------------------------------------------------
(* gencerts.  os.WriteFile empties the file, then fills it.                *)

Start ==
  /\ gen \in {"off", "done"} /\ runs < MaxRuns
  /\ gen' = "key" /\ runs' = runs + 1
  /\ UNCHANGED <<disk, key, n, issued, server>>

\* Mutated form: every run makes a CA key.
LoadOrCreateCAKeyNew ==
  /\ gen = "key"
  /\ key' = runs /\ caKey' = Cut /\ gen' = "fillkey"
  /\ UNCHANGED <<caCert, leaf, leafKey, n, runs, issued, server>>

\* Mutated form: whatever is in the file is taken for the key.
LoadOrCreateCAKeyAny ==
  /\ gen = "key"
  /\ IF caKey # Missing
     THEN key' = caKey /\ gen' = "ca" /\ UNCHANGED caKey
     ELSE key' = runs /\ caKey' = Cut /\ gen' = "fillkey"
  /\ UNCHANGED <<caCert, leaf, leafKey, n, runs, issued, server>>

\* loadOrCreateCAKey: the key in the file; an error if it cannot be read; a new
\* one, about to be written, if there is no file.
LoadOrCreateCAKey ==
  /\ gen = "key"
  /\ \/ caKey \in Keys /\ key' = caKey /\ gen' = "ca" /\ UNCHANGED caKey
     \/ caKey = Cut /\ gen' = "off" /\ UNCHANGED <<key, caKey>>
     \/ caKey = Missing /\ key' = runs /\ caKey' = Cut /\ gen' = "fillkey"
  /\ UNCHANGED <<caCert, leaf, leafKey, n, runs, issued, server>>

FillCAKey ==
  /\ gen = "fillkey"
  /\ caKey' = key /\ gen' = "ca"
  /\ UNCHANGED <<caCert, leaf, leafKey, key, n, runs, issued, server>>

\* Mutated form: a CA certificate that is there is kept.
WriteCACertOnce ==
  /\ gen = "ca"
  /\ IF Whole(caCert) THEN gen' = "leaf" /\ UNCHANGED caCert ELSE caCert' = Cut /\ gen' = "fillca"
  /\ n' = 1
  /\ UNCHANGED <<caKey, leaf, leafKey, key, runs, issued, server>>

\* main: a new CA certificate, signed with the key.
WriteCACert ==
  /\ gen = "ca"
  /\ caCert' = Cut /\ gen' = "fillca" /\ n' = 1
  /\ UNCHANGED <<caKey, leaf, leafKey, key, runs, issued, server>>

FillCACert ==
  /\ gen = "fillca"
  /\ caCert' = <<CACertOf(key, runs)>> /\ gen' = "leaf"
  /\ UNCHANGED <<caKey, leaf, leafKey, key, n, runs, issued, server>>

\* Mutated form: a region without its key is left as it is.
WriteLeafIfKey ==
  /\ gen = "leaf" /\ n <= Len(Regions)
  /\ IF leafKey[Regions[n]]
     THEN leaf' = [leaf EXCEPT ![Regions[n]] = Cut] /\ gen' = "fillleaf" /\ UNCHANGED n
     ELSE n' = n + 1 /\ UNCHANGED <<leaf, gen>>
  /\ UNCHANGED <<caKey, caCert, leafKey, key, runs, issued, server>>

\* main, the next region: its key must be there, its certificate is written.
WriteLeaf ==
  /\ gen = "leaf" /\ n <= Len(Regions)
  /\ IF leafKey[Regions[n]]
     THEN leaf' = [leaf EXCEPT ![Regions[n]] = Cut] /\ gen' = "fillleaf"
     ELSE gen' = "off" /\ UNCHANGED leaf
  /\ UNCHANGED <<caKey, caCert, leafKey, key, n, runs, issued, server>>

FillLeaf ==
  /\ gen = "fillleaf"
  /\ leaf' = [leaf EXCEPT ![Regions[n]] = <<LeafOf(Regions[n], key, runs)>>]
  /\ gen' = "leaf" /\ n' = n + 1
  /\ UNCHANGED <<caKey, caCert, leafKey, key, runs, issued, server>>

Finish ==
  /\ gen = "leaf" /\ n > Len(Regions)
  /\ gen' = "done" /\ issued' = TRUE
  /\ UNCHANGED <<disk, key, n, runs, server>>

\* gencerts is killed, or a write fails and it gives up.
Crash ==
  /\ gen \notin {"off", "done"}
  /\ gen' = "off"
  /\ UNCHANGED <<disk, key, n, runs, issued, server>>

-----------------------------------------------------------------------------
(* The server starts.                                                      *)

\* loadPEMCerts; without a chain main only warns.
LoadChain ==
  /\ srv = "off"
  /\ chain' = IF Whole(caCert) THEN caCert ELSE <<>>
  /\ srv' = "load" /\ m' = 1 /\ after' = issued
  /\ certs' = [r \in RegionSet |-> <<>>]
  /\ UNCHANGED <<disk, tool, at>>

\* LoadX509KeyPair needs both files.
Loads(r) == Whole(leaf[r]) /\ leafKey[r]

\* main, the next region; one that does not load is left out.
LoadRegion ==
  /\ srv = "load" /\ m <= Len(Regions)
  /\ IF Loads(Regions[m])
     THEN certs' = [certs EXCEPT ![Regions[m]] = leaf[Regions[m]]] /\ srv' = "append" /\ UNCHANGED m
     ELSE m' = m + 1 /\ UNCHANGED <<certs, srv>>
  /\ at' = 1
  /\ UNCHANGED <<disk, tool, chain, after>>

\* Mutated form: nothing is looked for.
AppendedAlways(have, c) == Append(have, c)

\* A certificate that is there already is not added.
Appended(have, c) == IF \E i \in DOMAIN have : have[i] = c THEN have ELSE Append(have, c)

\* appendChain, one certificate of the chain.
AppendChain ==
  /\ srv = "append"
  /\ IF at <= Len(chain)
     THEN /\ certs' = [certs EXCEPT ![Regions[m]] = Appended(@, chain[at])]
          /\ at' = at + 1 /\ UNCHANGED <<srv, m>>
     ELSE srv' = "load" /\ m' = m + 1 /\ UNCHANGED <<certs, at>>
  /\ UNCHANGED <<disk, tool, chain, after>>

\* main gives up only if no region loaded.
Loaded ==
  /\ srv = "load" /\ m > Len(Regions)
  /\ srv' = IF \A r \in RegionSet : certs[r] = <<>> THEN "fatal" ELSE "serving"
  /\ UNCHANGED <<disk, tool, chain, m, at, certs, after>>

\* The operator starts it again.
Stop ==
  /\ srv \in {"serving", "fatal"}
  /\ srv' = "off"
  /\ UNCHANGED <<disk, tool, chain, m, at, certs, after>>

Next ==
  \/ Start \/ LoadOrCreateCAKey \/ FillCAKey \/ WriteCACert \/ FillCACert
  \/ WriteLeaf \/ FillLeaf \/ Finish \/ Crash
  \/ LoadChain \/ LoadRegion \/ AppendChain \/ Loaded \/ Stop

Spec == Init /\ [][Next]_vars

-----------------------------------------------------------------------------
(* What the directory and the server's certificates are like.              *)

SignedBy(c, i) == i.of = CA /\ c.by = i.by

\* A CA key that was written stays: later runs issue with it, which is what
\* lets old and new certificates be mixed.
CAKeyIsKept == [][(caKey \in Keys) => (caKey' = caKey)]_vars

\* A run that goes through leaves a complete set: every region has its key and
\* a certificate that the CA certificate next to it verifies, whatever earlier
\* runs left behind.
ReissueIsComplete ==
  gen = "done" =>
    /\ Whole(caCert) /\ caKey = caCert[1].by
    /\ \A r \in RegionSet : leafKey[r] /\ Whole(leaf[r]) /\ SignedBy(leaf[r][1], caCert[1])

\* Once a run has gone through, no crash of a later one leaves certificates
\* that do not fit together: whatever is whole verifies.  A file that is cut off
\* still costs its region until the next run.
NoMixAfterCrash ==
  (issued /\ Whole(caCert)) =>
    \A r \in RegionSet : Whole(leaf[r]) => SignedBy(leaf[r][1], caCert[1])

\* What a client is shown begins with its region's certificate, has every
\* certificate of the CA file, and none of these twice.
ChainHasEachCAOnce ==
  \A i \in 1..(m - 1) : certs[Regions[i]] # <<>> =>
    LET shown == certs[Regions[i]]
    IN  /\ shown[1].of = Regions[i] /\ leafKey[Regions[i]]
        /\ \A k \in DOMAIN chain : \E j \in DOMAIN shown : \A l \in DOMAIN shown : shown[l] = chain[k] <=> l = j

\* A server that starts after a run has gone through shows chains that verify,
\* even if another run is writing, or was stopped, while it reads.
ShownChainVerifies ==
  (after /\ chain # <<>>) =>
    \A i \in 1..(m - 1) : certs[Regions[i]] # <<>> =>
      \E j \in DOMAIN certs[Regions[i]] : SignedBy(certs[Regions[i]][1], certs[Regions[i]][j])
=============================================================================
