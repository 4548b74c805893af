------------------------------- MODULE CertsProofs -----------------------------
(***************************************************************************)
(* Proofs about Certs, for any regions, any number of runs of gencerts and *)
(* of starts of the server.                                                *)
(***************************************************************************)
EXTENDS Certs, TLAPS

Distinct(s) == \A i, j \in DOMAIN s : s[i] = s[j] => i = j
Has(s, c) == \E j \in DOMAIN s : s[j] = c

\* What gencerts has on disk by the time it stands where it stands.
Reissued(r) == leafKey[r] /\ leaf[r] = <<LeafOf(r, key, runs)>>
GenInv ==
  /\ gen = "fillkey" => caKey = Cut
  /\ gen = "fillca" => n = 1
  /\ gen \in {"ca", "fillca", "leaf", "fillleaf"} => caKey = key
  /\ gen \in {"leaf", "fillleaf"} =>
       /\ caCert = <<CACertOf(key, runs)>>
       /\ \A i \in 1..(n - 1) : Reissued(Regions[i])
  /\ gen = "fillleaf" => n <= Len(Regions) /\ leafKey[Regions[n]]

\* A file that is not cut off has certificates, of the right subject.
FilesInv ==
  /\ Whole(caCert) => caCert # <<>> /\ \A i \in DOMAIN caCert : caCert[i].of = CA
  /\ \A r \in RegionSet : Whole(leaf[r]) => leaf[r] # <<>> /\ leaf[r][1].of = r /\ Distinct(leaf[r])

\* Once a run has gone through, one CA key has signed whatever is whole.
OneCA ==
  issued =>
    /\ caKey \in Keys
    /\ Whole(caCert) => \A i \in DOMAIN caCert : caCert[i].by = caKey
    /\ \A r \in RegionSet : Whole(leaf[r]) => leaf[r][1].by = caKey

\* What the server holds in memory.
Shown(r) ==
  /\ certs[r][1].of = r /\ leafKey[r] /\ Distinct(certs[r])
  /\ after => certs[r][1].by = caKey
ServerInv ==
  /\ srv = "load" => \A i \in m..Len(Regions) : certs[Regions[i]] = <<>>
  /\ srv = "append" =>
       /\ m <= Len(Regions) /\ at \in 1..(Len(chain) + 1) /\ certs[Regions[m]] # <<>>
       /\ \A i \in (m + 1)..Len(Regions) : certs[Regions[i]] = <<>>
       /\ \A k \in 1..(at - 1) : Has(certs[Regions[m]], chain[k])
  /\ \A i \in DOMAIN chain : chain[i].of = CA
  /\ after => issued /\ \A i \in DOMAIN chain : chain[i].by = caKey
  /\ \A r \in RegionSet : certs[r] # <<>> => Shown(r)
  /\ \A i \in 1..(m - 1) : certs[Regions[i]] # <<>> => \A k \in DOMAIN chain : Has(certs[Regions[i]], chain[k])

CertsInv == TypeOK /\ GenInv /\ FilesInv /\ OneCA /\ ReissueIsComplete /\ ServerInv

-----------------------------------------------------------------------------
(* Facts about the values.                                                 *)

LEMMA RegionFacts ==
  /\ Len(Regions) \in Nat \ {0}
  /\ DOMAIN Regions = 1..Len(Regions)
  /\ \A i \in 1..Len(Regions) : Regions[i] \in RegionSet
  /\ \A i, j \in 1..Len(Regions) : Regions[i] = Regions[j] => i = j
BY CertsAssumption DEF RegionSet

\* The certificates gencerts makes, and the files it puts them in.
LEMMA NewCerts ==
  ASSUME NEW k \in Keys, NEW run \in 0..MaxRuns, NEW r \in RegionSet
  PROVE  /\ <<CACertOf(k, run)>> \in Seq(Cert) /\ <<LeafOf(r, k, run)>> \in Seq(Cert)
         /\ CACertOf(k, run).of = CA /\ CACertOf(k, run).by = k
         /\ LeafOf(r, k, run).of = r /\ LeafOf(r, k, run).by = k
<1>1. CACertOf(k, run) \in Cert /\ LeafOf(r, k, run) \in Cert
  BY DEF CACertOf, LeafOf, Cert
<1> QED
  BY <1>1 DEF CACertOf, LeafOf

\* A file with one certificate.
LEMMA OneCert ==
  ASSUME NEW c \in Cert
  PROVE  /\ <<c>> # <<>> /\ <<c>>[1] = c /\ DOMAIN <<c>> = {1} /\ Distinct(<<c>>)
BY DEF Distinct

\* appendChain adds a certificate where it is missing and changes nothing else.
LEMMA AppendedFacts ==
  ASSUME NEW s \in Seq(Cert), s # <<>>, Distinct(s), NEW c \in Cert
  PROVE  /\ Appended(s, c) \in Seq(Cert) /\ Appended(s, c) # <<>>
         /\ Appended(s, c)[1] = s[1] /\ Distinct(Appended(s, c)) /\ Has(Appended(s, c), c)
         /\ \A d : Has(s, d) => Has(Appended(s, c), d)
<1>1. CASE \E i \in DOMAIN s : s[i] = c
  BY <1>1 DEF Appended, Has
<1>2. CASE ~\E i \in DOMAIN s : s[i] = c
  <2>1. Appended(s, c) = Append(s, c)
    BY <1>2 DEF Appended
  <2>2. /\ Append(s, c) \in Seq(Cert) /\ Len(Append(s, c)) = Len(s) + 1
        /\ \A i \in 1..Len(s) : Append(s, c)[i] = s[i]
        /\ Append(s, c)[Len(s) + 1] = c
        /\ DOMAIN Append(s, c) = 1..(Len(s) + 1) /\ DOMAIN s = 1..Len(s) /\ Len(s) \in Nat \ {0}
    OBVIOUS
  <2>3. Distinct(Append(s, c))
    BY <1>2, <2>2 DEF Distinct
  <2>4. Has(Append(s, c), c) /\ \A d : Has(s, d) => Has(Append(s, c), d)
    BY <2>2 DEF Has
  <2> QED
    BY <2>1, <2>2, <2>3, <2>4
<1> QED
  BY <1>1, <1>2

-----------------------------------------------------------------------------
(* The initial directory.                                                  *)

LEMMA InitEstablishes == Init => CertsInv
<1> SUFFICES ASSUME Init PROVE CertsInv
  OBVIOUS
<1>0. 0 \in Keys /\ 0 \in 0..MaxRuns
  BY CertsAssumption DEF Keys
<1>1. Original \in Cert /\ Original.of = CA
  BY <1>0 DEF Original, CACertOf, Cert
<1>2. PICK how \in [RegionSet -> {"missing", "leaf", "bundle"}] :
        leaf = [r \in RegionSet |-> Shipped(r, how[r])]
  BY DEF Init
<1>3. ASSUME NEW r \in RegionSet
      PROVE  /\ leaf[r] \in Pem
             /\ Whole(leaf[r]) => leaf[r] # <<>> /\ leaf[r][1].of = r /\ Distinct(leaf[r])
  <2>1. LeafOf(r, 0, 0) \in Cert /\ LeafOf(r, 0, 0).of = r
    BY <1>0 DEF LeafOf, Cert
  <2>2. LeafOf(r, 0, 0) # Original
    BY <1>1, <2>1, CertsAssumption DEF RegionSet
  <2>3. leaf[r] = Shipped(r, how[r]) /\ how[r] \in {"missing", "leaf", "bundle"}
    BY <1>2
  <2>4. CASE how[r] = "missing"
    BY <2>3, <2>4 DEF Shipped, Pem, Whole
  <2>5. CASE how[r] = "leaf"
    BY <2>1, <2>3, <2>5 DEF Shipped, Pem, Distinct
  <2>6. CASE how[r] = "bundle"
    BY <1>1, <2>1, <2>2, <2>3, <2>6 DEF Shipped, Pem, Distinct
  <2> QED
    BY <2>3, <2>4, <2>5, <2>6
<1>4. /\ caCert \in Pem
      /\ Whole(caCert) => caCert # <<>> /\ \A i \in DOMAIN caCert : caCert[i].of = CA
  <2>1. /\ <<Original>> \in Seq(Cert) /\ <<Original, Original>> \in Seq(Cert)
        /\ \A i \in DOMAIN <<Original>> : <<Original>>[i] = Original
        /\ \A i \in DOMAIN <<Original, Original>> : <<Original, Original>>[i] = Original
    BY <1>1
  <2>2. caCert \in {<<Original>>, <<Original, Original>>, Missing}
    BY DEF Init
  <2>3. CASE caCert = <<Original>>
    BY <1>1, <2>1, <2>3 DEF Pem
  <2>4. CASE caCert = <<Original, Original>>
    BY <1>1, <2>1, <2>4 DEF Pem
  <2>5. CASE caCert = Missing
    BY <2>5 DEF Pem, Whole
  <2> QED
    BY <2>2, <2>3, <2>4, <2>5
<1>5. FilesInv
  BY <1>3, <1>4 DEF FilesInv
<1>8. TypeOK
  <2>1. leaf \in [RegionSet -> Pem]
    BY <1>2, <1>3
  <2>2. leafKey \in [RegionSet -> BOOLEAN]
    BY DEF Init
  <2>3. chain \in Seq(Cert) /\ certs \in [RegionSet -> Seq(Cert)]
    <3>1. <<>> \in Seq(Cert)
      OBVIOUS
    <3> QED
      BY <3>1 DEF Init
  <2>4. issued \in BOOLEAN /\ after \in BOOLEAN
    BY DEF Init
  <2>5. caKey \in Keys \cup {Missing, Cut} /\ key \in Keys /\ runs \in 0..MaxRuns
    BY <1>0 DEF Init
  <2>6. n \in 1..(Len(Regions) + 1) /\ m \in 1..(Len(Regions) + 1) /\ at \in Nat
    BY RegionFacts DEF Init
  <2>7. /\ gen \in {"off", "key", "fillkey", "ca", "fillca", "leaf", "fillleaf", "done"}
        /\ srv \in {"off", "load", "append", "serving", "fatal"}
    BY DEF Init
  <2> QED
    BY <1>4, <2>1, <2>2, <2>3, <2>4, <2>5, <2>6, <2>7 DEF TypeOK
<1>6. GenInv /\ OneCA /\ ReissueIsComplete
  BY DEF Init, GenInv, OneCA, ReissueIsComplete
<1>7. ServerInv
  BY RegionFacts DEF Init, ServerInv
<1> QED
  BY <1>5, <1>6, <1>7, <1>8 DEF CertsInv

-----------------------------------------------------------------------------
(* The steps of gencerts.                                                  *)

\* What a step of gencerts does to the server's side of the invariant: nothing.
LEMMA ServerFrame ==
  ASSUME CertsInv, UNCHANGED <<server, leafKey>>,
         issued => issued', caKey \in Keys => caKey' = caKey
  PROVE  ServerInv'
<1>1. after => caKey' = caKey
  BY DEF CertsInv, OneCA, ServerInv
<1>2. \A r \in RegionSet : Shown(r) => Shown(r)'
  BY <1>1 DEF Shown, server
<1>3. (after => issued /\ \A i \in DOMAIN chain : chain[i].by = caKey)'
  BY <1>1 DEF CertsInv, ServerInv, server
<1> QED
  BY <1>2, <1>3 DEF CertsInv, ServerInv, server

LEMMA StartKeeps == CertsInv /\ Start => CertsInv'
<1> SUFFICES ASSUME CertsInv, Start PROVE CertsInv'
  OBVIOUS
<1> USE DEF CertsInv, Start, disk
<1>1. ServerInv'
  BY ServerFrame
<1>2. TypeOK'
  BY CertsAssumption DEF TypeOK, server
<1>3. (GenInv /\ FilesInv /\ OneCA /\ ReissueIsComplete)'
  BY DEF GenInv, FilesInv, OneCA, ReissueIsComplete
<1> QED
  BY <1>1, <1>2, <1>3

LEMMA LoadOrCreateCAKeyKeeps == CertsInv /\ LoadOrCreateCAKey => CertsInv'
<1> SUFFICES ASSUME CertsInv, LoadOrCreateCAKey PROVE CertsInv'
  OBVIOUS
<1> USE DEF CertsInv, LoadOrCreateCAKey
<1>0. Missing \notin Keys /\ Cut \notin Keys
  BY CertsAssumption DEF Keys
<1>1. caKey \in Keys => caKey' = caKey
  BY <1>0
<1>2. ServerInv'
  BY <1>1, ServerFrame
<1>3. TypeOK'
  BY DEF TypeOK, Keys, server
<1>4. OneCA'
  BY <1>1 DEF OneCA
<1>5. (GenInv /\ FilesInv /\ ReissueIsComplete)'
  BY DEF GenInv, FilesInv, ReissueIsComplete
<1> QED
  BY <1>2, <1>3, <1>4, <1>5

LEMMA FillCAKeyKeeps == CertsInv /\ FillCAKey => CertsInv'
<1> SUFFICES ASSUME CertsInv, FillCAKey PROVE CertsInv'
  OBVIOUS
<1> USE DEF CertsInv, FillCAKey
<1>1. caKey \notin Keys
  BY CertsAssumption DEF GenInv, Keys
<1>2. ~issued
  BY <1>1 DEF OneCA
<1>3. ServerInv'
  BY <1>1, ServerFrame
<1>4. TypeOK'
  BY DEF TypeOK, server
<1>5. OneCA'
  BY <1>2 DEF OneCA
<1>6. (GenInv /\ FilesInv /\ ReissueIsComplete)'
  BY DEF GenInv, FilesInv, ReissueIsComplete
<1> QED
  BY <1>3, <1>4, <1>5, <1>6

LEMMA WriteCACertKeeps == CertsInv /\ WriteCACert => CertsInv'
<1> SUFFICES ASSUME CertsInv, WriteCACert PROVE CertsInv'
  OBVIOUS
<1> USE DEF CertsInv, WriteCACert
<1>1. ServerInv'
  BY ServerFrame
<1>2. TypeOK'
  BY RegionFacts DEF TypeOK, Pem, server
<1>3. (GenInv /\ FilesInv /\ OneCA /\ ReissueIsComplete)'
  BY DEF GenInv, FilesInv, OneCA, ReissueIsComplete, Whole
<1> QED
  BY <1>1, <1>2, <1>3

LEMMA FillCACertKeeps == CertsInv /\ FillCACert => CertsInv'
<1> SUFFICES ASSUME CertsInv, FillCACert PROVE CertsInv'
  OBVIOUS
<1> USE DEF CertsInv, FillCACert
<1>0. key \in Keys /\ runs \in 0..MaxRuns /\ caKey = key /\ n = 1
  BY DEF TypeOK, GenInv
<1>1. /\ caCert' \in Seq(Cert) /\ caCert' # <<>>
      /\ \A i \in DOMAIN caCert' : caCert'[i].of = CA /\ caCert'[i].by = key
  BY <1>0, NewCerts, RegionFacts
<1>2. ServerInv'
  BY ServerFrame
<1>3. TypeOK'
  BY <1>1 DEF TypeOK, Pem, server
<1>4. FilesInv'
  BY <1>1 DEF FilesInv
<1>5. OneCA'
  BY <1>0, <1>1 DEF OneCA
<1>6. (GenInv /\ ReissueIsComplete)'
  BY <1>0 DEF GenInv, ReissueIsComplete
<1> QED
  BY <1>2, <1>3, <1>4, <1>5, <1>6

LEMMA WriteLeafKeeps == CertsInv /\ WriteLeaf => CertsInv'
<1> SUFFICES ASSUME CertsInv, WriteLeaf PROVE CertsInv'
  OBVIOUS
<1> USE DEF CertsInv, WriteLeaf
<1>0. /\ n \in 1..Len(Regions) /\ Regions[n] \in RegionSet /\ leaf \in [RegionSet -> Pem]
      /\ \A i \in 1..(n - 1) : Regions[i] \in RegionSet /\ Regions[i] # Regions[n]
  BY RegionFacts DEF TypeOK
<1>1. ServerInv'
  BY ServerFrame
<1>2. CASE leafKey[Regions[n]]
  <2>1. /\ leaf' = [leaf EXCEPT ![Regions[n]] = Cut] /\ leaf' \in [RegionSet -> Pem]
        /\ \A r \in RegionSet : Whole(leaf'[r]) => leaf'[r] = leaf[r]
        /\ \A i \in 1..(n - 1) : leaf'[Regions[i]] = leaf[Regions[i]]
    BY <1>0, <1>2 DEF Pem, Whole
  <2>2. TypeOK'
    BY <1>2, <2>1 DEF TypeOK, server
  <2>3. GenInv'
    BY <1>0, <1>2, <2>1 DEF GenInv, Reissued
  <2>4. FilesInv' /\ OneCA'
    BY <2>1 DEF FilesInv, OneCA
  <2>5. ReissueIsComplete'
    BY <1>2 DEF ReissueIsComplete
  <2> QED
    BY <1>1, <2>2, <2>3, <2>4, <2>5
<1>3. CASE ~leafKey[Regions[n]]
  BY <1>1, <1>3 DEF TypeOK, GenInv, FilesInv, OneCA, ReissueIsComplete, server
<1> QED
  BY <1>2, <1>3

LEMMA FillLeafKeeps == CertsInv /\ FillLeaf => CertsInv'
<1> SUFFICES ASSUME CertsInv, FillLeaf PROVE CertsInv'
  OBVIOUS
<1> USE DEF CertsInv, FillLeaf
<1> DEFINE q == Regions[n]
<1>0. /\ n \in 1..Len(Regions) /\ q \in RegionSet /\ leaf \in [RegionSet -> Pem] /\ leafKey[q]
      /\ \A i \in 1..(n - 1) : Regions[i] \in RegionSet /\ Regions[i] # q
      /\ key \in Keys /\ runs \in 0..MaxRuns /\ caKey = key
  BY RegionFacts DEF TypeOK, GenInv
<1>1. /\ leaf'[q] = <<LeafOf(q, key, runs)>> /\ leaf'[q] \in Seq(Cert) /\ leaf'[q] # <<>>
      /\ leaf'[q][1].of = q /\ leaf'[q][1].by = caKey /\ Distinct(leaf'[q])
  BY <1>0, NewCerts, OneCert DEF Distinct
<1>2. /\ \A r \in RegionSet : r # q => leaf'[r] = leaf[r]
      /\ leaf' \in [RegionSet -> Pem]
  BY <1>0, <1>1 DEF Pem
<1>3. ServerInv'
  BY ServerFrame
<1>4. TypeOK'
  BY <1>0, <1>2, RegionFacts DEF TypeOK, server
<1>5. GenInv'
  <2>1. \A i \in 1..n : Reissued(Regions[i])'
    BY <1>0, <1>1, <1>2 DEF GenInv, Reissued
  <2> QED
    BY <1>0, <2>1 DEF GenInv
<1>6. FilesInv'
  BY <1>1, <1>2 DEF FilesInv
<1>7. OneCA'
  BY <1>1, <1>2 DEF OneCA
<1>8. ReissueIsComplete'
  BY DEF ReissueIsComplete
<1> QED
  BY <1>3, <1>4, <1>5, <1>6, <1>7, <1>8

\* A run that goes through: the leaves of all regions stem from it.
LEMMA FinishKeeps == CertsInv /\ Finish => CertsInv'
<1> SUFFICES ASSUME CertsInv, Finish PROVE CertsInv'
  OBVIOUS
<1> USE DEF CertsInv, Finish, disk
<1>0. key \in Keys /\ runs \in 0..MaxRuns /\ caKey = key /\ caCert = <<CACertOf(key, runs)>>
  BY DEF TypeOK, GenInv
<1>1. \A r \in RegionSet : Reissued(r)
  <2>1. \A r \in RegionSet : \E i \in 1..Len(Regions) : r = Regions[i]
    BY RegionFacts DEF RegionSet
  <2> QED
    BY <2>1, RegionFacts DEF TypeOK, GenInv
<1>2. /\ Whole(caCert) /\ caCert[1].by = key /\ caCert[1].of = CA
      /\ \A i \in DOMAIN caCert : caCert[i].by = key
  <2>1. CACertOf(key, runs) \in Cert
    BY <1>0 DEF CACertOf, Cert
  <2> QED
    BY <1>0, <2>1, MarkersAssumption, NewCerts, RegionFacts DEF Whole
<1>3. \A r \in RegionSet : Whole(leaf[r]) /\ leaf[r][1].by = key /\ leafKey[r]
  <2> SUFFICES ASSUME NEW r \in RegionSet
               PROVE  Whole(leaf[r]) /\ leaf[r][1].by = key /\ leafKey[r]
    OBVIOUS
  <2>1. LeafOf(r, key, runs) \in Cert
    BY <1>0 DEF LeafOf, Cert
  <2> QED
    BY <1>0, <1>1, <2>1, MarkersAssumption, NewCerts DEF Whole, Reissued
<1>4. ServerInv'
  BY ServerFrame
<1>5. TypeOK'
  BY DEF TypeOK, server
<1>6. (GenInv /\ FilesInv)'
  BY DEF GenInv, FilesInv
<1>7. OneCA'
  BY <1>0, <1>2, <1>3 DEF OneCA
<1>8. ReissueIsComplete'
  BY <1>0, <1>2, <1>3 DEF ReissueIsComplete, SignedBy
<1> QED
  BY <1>4, <1>5, <1>6, <1>7, <1>8

LEMMA CrashKeeps == CertsInv /\ Crash => CertsInv'
<1> SUFFICES ASSUME CertsInv, Crash PROVE CertsInv'
  OBVIOUS
<1> USE DEF CertsInv, Crash, disk
<1>1. ServerInv'
  BY ServerFrame
<1>2. TypeOK'
  BY DEF TypeOK, server
<1>3. (GenInv /\ FilesInv /\ OneCA /\ ReissueIsComplete)'
  BY DEF GenInv, FilesInv, OneCA, ReissueIsComplete
<1> QED
  BY <1>1, <1>2, <1>3

-----------------------------------------------------------------------------
(* The steps of the server.                                                *)

\* What a step of the server does to the directory and to gencerts: nothing.
LEMMA DirectoryFrame ==
  ASSUME CertsInv, UNCHANGED <<disk, tool>>
  PROVE  (GenInv /\ FilesInv /\ OneCA /\ ReissueIsComplete)'
<1>1. (GenInv /\ FilesInv)'
  BY DEF CertsInv, GenInv, Reissued, FilesInv, disk, tool
<1>2. (OneCA /\ ReissueIsComplete)'
  BY DEF CertsInv, OneCA, ReissueIsComplete, disk, tool
<1> QED
  BY <1>1, <1>2

LEMMA LoadChainKeeps == CertsInv /\ LoadChain => CertsInv'
<1> SUFFICES ASSUME CertsInv, LoadChain PROVE CertsInv'
  OBVIOUS
<1> USE DEF CertsInv, LoadChain
<1>1. /\ chain' \in Seq(Cert)
      /\ \A i \in DOMAIN chain' : chain'[i].of = CA
      /\ issued => \A i \in DOMAIN chain' : chain'[i].by = caKey
  <2>1. CASE Whole(caCert)
    BY <2>1 DEF TypeOK, Pem, Whole, FilesInv, OneCA
  <2>2. CASE ~Whole(caCert)
    BY <2>2
  <2> QED
    BY <2>1, <2>2
<1>2. certs' \in [RegionSet -> Seq(Cert)] /\ \A r \in RegionSet : certs'[r] = <<>>
  OBVIOUS
<1>3. TypeOK'
  BY <1>1, <1>2, RegionFacts DEF TypeOK, disk, tool
<1>4. ServerInv'
  BY <1>1, <1>2, RegionFacts DEF ServerInv, disk, tool
<1> QED
  BY <1>3, <1>4, DirectoryFrame

LEMMA LoadRegionKeeps == CertsInv /\ LoadRegion => CertsInv'
<1> SUFFICES ASSUME CertsInv, LoadRegion PROVE CertsInv'
  OBVIOUS
<1> USE DEF CertsInv, LoadRegion
<1> DEFINE q == Regions[m]
<1>0. /\ m \in 1..Len(Regions) /\ q \in RegionSet
      /\ \A i \in 1..Len(Regions) : Regions[i] \in RegionSet /\ (i # m => Regions[i] # q)
      /\ leaf \in [RegionSet -> Pem] /\ certs \in [RegionSet -> Seq(Cert)] /\ chain \in Seq(Cert)
      /\ Len(chain) \in Nat
  BY RegionFacts DEF TypeOK
<1>1. CASE Loads(q)
  <2>1. /\ leaf[q] \in Seq(Cert) /\ leaf[q] # <<>> /\ leaf[q][1].of = q /\ Distinct(leaf[q]) /\ leafKey[q]
        /\ issued => leaf[q][1].by = caKey
    BY <1>0, <1>1 DEF Loads, Pem, Whole, FilesInv, OneCA
  <2>2. /\ certs' = [certs EXCEPT ![q] = leaf[q]] /\ certs' \in [RegionSet -> Seq(Cert)]
        /\ certs'[q] = leaf[q] /\ \A r \in RegionSet : r # q => certs'[r] = certs[r]
    BY <1>0, <1>1, <2>1
  <2>3. TypeOK'
    BY <1>0, <1>1, <2>2 DEF TypeOK, disk, tool
  <2>4. \A r \in RegionSet : certs'[r] # <<>> => Shown(r)'
    BY <2>1, <2>2 DEF ServerInv, Shown, disk, tool
  <2>5. ServerInv'
    BY <1>0, <1>1, <2>1, <2>2, <2>4 DEF ServerInv, disk, tool
  <2> QED
    BY <2>3, <2>5, DirectoryFrame
<1>2. CASE ~Loads(q)
  <2>1. TypeOK'
    BY <1>0, <1>2, RegionFacts DEF TypeOK, disk, tool
  <2>2. \A r \in RegionSet : certs'[r] # <<>> => Shown(r)'
    BY <1>2 DEF ServerInv, Shown, disk, tool
  <2>3. certs[q] = <<>>
    BY <1>0 DEF ServerInv
  <2>4. ServerInv'
    BY <1>0, <1>2, <2>2, <2>3 DEF ServerInv, disk, tool
  <2> QED
    BY <2>1, <2>4, DirectoryFrame
<1> QED
  BY <1>1, <1>2

LEMMA AppendChainKeeps == CertsInv /\ AppendChain => CertsInv'
<1> SUFFICES ASSUME CertsInv, AppendChain PROVE CertsInv'
  OBVIOUS
<1> USE DEF CertsInv, AppendChain
<1> DEFINE q == Regions[m]
<1>0. /\ m \in 1..Len(Regions) /\ q \in RegionSet
      /\ \A i \in 1..Len(Regions) : Regions[i] \in RegionSet /\ (i # m => Regions[i] # q)
      /\ certs \in [RegionSet -> Seq(Cert)] /\ chain \in Seq(Cert) /\ Len(chain) \in Nat
      /\ DOMAIN chain = 1..Len(chain) /\ at \in 1..(Len(chain) + 1)
      /\ certs[q] # <<>> /\ Shown(q)
  BY RegionFacts DEF TypeOK, ServerInv
<1>1. CASE at <= Len(chain)
  <2>1. chain[at] \in Cert /\ certs[q] \in Seq(Cert) /\ Distinct(certs[q])
    BY <1>0, <1>1 DEF Shown
  <2> DEFINE new == Appended(certs[q], chain[at])
  <2>2. /\ new \in Seq(Cert) /\ new # <<>> /\ new[1] = certs[q][1] /\ Distinct(new)
        /\ Has(new, chain[at]) /\ \A d : Has(certs[q], d) => Has(new, d)
    BY <1>0, <2>1, AppendedFacts
  <2>3. /\ certs' \in [RegionSet -> Seq(Cert)] /\ certs'[q] = new
        /\ \A r \in RegionSet : r # q => certs'[r] = certs[r]
    BY <1>0, <1>1, <2>2
  <2> HIDE DEF new
  <2>4. TypeOK'
    BY <1>0, <1>1, <2>3 DEF TypeOK, disk, tool
  <2>5. \A r \in RegionSet : certs'[r] # <<>> => Shown(r)'
    BY <1>0, <2>2, <2>3 DEF ServerInv, Shown, disk, tool
  <2>6. \A k \in 1..at : Has(certs'[q], chain[k])
    BY <1>0, <2>2, <2>3 DEF ServerInv
  <2>7. ServerInv'
    BY <1>0, <1>1, <2>2, <2>3, <2>5, <2>6 DEF ServerInv, disk, tool
  <2> QED
    BY <2>4, <2>7, DirectoryFrame
<1>2. CASE at > Len(chain)
  <2>1. TypeOK'
    BY <1>0, <1>2, RegionFacts DEF TypeOK, disk, tool
  <2>2. \A r \in RegionSet : certs'[r] # <<>> => Shown(r)'
    BY <1>0, <1>2 DEF ServerInv, Shown, disk, tool
  <2>3. \A k \in DOMAIN chain : Has(certs[q], chain[k])
    BY <1>0, <1>2 DEF ServerInv
  <2>4. ServerInv'
    BY <1>0, <1>2, <2>2, <2>3 DEF ServerInv, disk, tool
  <2> QED
    BY <2>1, <2>4, DirectoryFrame
<1> QED
  BY <1>0, <1>1, <1>2

LEMMA LoadedKeeps == CertsInv /\ (Loaded \/ Stop) => CertsInv'
<1> SUFFICES ASSUME CertsInv, Loaded \/ Stop PROVE CertsInv'
  OBVIOUS
<1>1. UNCHANGED <<disk, tool, chain, m, at, certs, after>> /\ srv' \in {"fatal", "serving", "off"}
  BY DEF Loaded, Stop
<1>2. TypeOK'
  BY <1>1 DEF CertsInv, TypeOK, disk, tool
<1>3. \A r \in RegionSet : certs'[r] # <<>> => Shown(r)'
  BY <1>1 DEF CertsInv, ServerInv, Shown, disk, tool
<1>4. ServerInv'
  BY <1>1, <1>3 DEF CertsInv, ServerInv, disk, tool
<1> QED
  BY <1>1, <1>2, <1>4, DirectoryFrame DEF CertsInv

LEMMA StutterKeeps == CertsInv /\ UNCHANGED vars => CertsInv'
<1> SUFFICES ASSUME CertsInv, UNCHANGED vars PROVE CertsInv'
  OBVIOUS
<1>1. UNCHANGED <<disk, tool>> /\ UNCHANGED <<server, leafKey>> /\ issued' = issued /\ caKey' = caKey
  BY DEF vars, disk, tool
<1>2. TypeOK'
  BY DEF CertsInv, TypeOK, vars, disk, tool, server
<1> QED
  BY <1>1, <1>2, ServerFrame, DirectoryFrame DEF CertsInv

LEMMA StepKeeps == CertsInv /\ [Next]_vars => CertsInv'
BY StartKeeps, LoadOrCreateCAKeyKeeps, FillCAKeyKeeps, WriteCACertKeeps, FillCACertKeeps, WriteLeafKeeps,
   FillLeafKeeps, FinishKeeps, CrashKeeps, LoadChainKeeps, LoadRegionKeeps, AppendChainKeeps, LoadedKeeps,
   StutterKeeps DEF Next

-----------------------------------------------------------------------------
(* What follows.                                                           *)

\* The inductive invariant: where gencerts stands says what is on disk, a
\* finished run leaves one CA key that signs everything after it, and the
\* server's chains are made of files of the same directory.
THEOREM CertsInvariant == Spec => []CertsInv
<1>1. Init => CertsInv
  BY InitEstablishes
<1>2. CertsInv /\ [Next]_vars => CertsInv'
  BY StepKeeps
<1> QED
  BY <1>1, <1>2, PTL DEF Spec

\* The variables of gencerts and of the server's start keep their types: no
\* region index leaves the list.
THEOREM CertsTypeCorrect == Spec => []TypeOK
<1>1. CertsInv => TypeOK
  BY DEF CertsInv
<1> QED
  BY <1>1, CertsInvariant, PTL

\* A run of gencerts that goes through leaves a complete set that verifies.
THEOREM ReissuesAreComplete == Spec => []ReissueIsComplete
<1>1. CertsInv => ReissueIsComplete
  BY DEF CertsInv
<1> QED
  BY <1>1, CertsInvariant, PTL

\* After it, a run that is stopped anywhere leaves nothing that does not verify.
THEOREM LaterCrashesLeaveNoMix == Spec => []NoMixAfterCrash
<1>1. CertsInv => NoMixAfterCrash
  <2> SUFFICES ASSUME CertsInv, issued, Whole(caCert), NEW r \in RegionSet, Whole(leaf[r])
               PROVE  SignedBy(leaf[r][1], caCert[1])
    BY DEF NoMixAfterCrash
  <2>1. caCert \in Seq(Cert) /\ caCert # <<>>
    BY DEF CertsInv, TypeOK, Pem, Whole, FilesInv
  <2>2. 1 \in DOMAIN caCert
    BY <2>1
  <2> QED
    BY <2>2 DEF CertsInv, FilesInv, OneCA, SignedBy
<1> QED
  BY <1>1, CertsInvariant, PTL

\* appendChain gives every region that loads all CA certificates, each once.
THEOREM ChainsHaveEachCAOnce == Spec => []ChainHasEachCAOnce
<1>1. CertsInv => ChainHasEachCAOnce
  <2> SUFFICES ASSUME CertsInv, NEW i \in 1..(m - 1), certs[Regions[i]] # <<>>
               PROVE  LET shown == certs[Regions[i]]
                      IN  /\ shown[1].of = Regions[i] /\ leafKey[Regions[i]]
                          /\ \A k \in DOMAIN chain : \E j \in DOMAIN shown :
                               \A l \in DOMAIN shown : shown[l] = chain[k] <=> l = j
    BY DEF ChainHasEachCAOnce
  <2>1. Regions[i] \in RegionSet
    BY RegionFacts DEF CertsInv, TypeOK
  <2>2. Shown(Regions[i]) /\ \A k \in DOMAIN chain : Has(certs[Regions[i]], chain[k])
    BY <2>1 DEF CertsInv, ServerInv
  <2> QED
    BY <2>2 DEF Shown, Has, Distinct
<1> QED
  BY <1>1, CertsInvariant, PTL

\* A server started after a finished run shows chains that verify, whatever
\* gencerts does while it reads.
THEOREM ShownChainsVerify == Spec => []ShownChainVerifies
<1>1. CertsInv => ShownChainVerifies
  <2> SUFFICES ASSUME CertsInv, after, chain # <<>>, NEW i \in 1..(m - 1), certs[Regions[i]] # <<>>
               PROVE  \E j \in DOMAIN certs[Regions[i]] : SignedBy(certs[Regions[i]][1], certs[Regions[i]][j])
    BY DEF ShownChainVerifies
  <2>1. Regions[i] \in RegionSet /\ chain \in Seq(Cert)
    BY RegionFacts DEF CertsInv, TypeOK
  <2>2. 1 \in DOMAIN chain
    BY <2>1
  <2>3. Shown(Regions[i]) /\ Has(certs[Regions[i]], chain[1]) /\ chain[1].of = CA /\ chain[1].by = caKey
    BY <2>1, <2>2 DEF CertsInv, ServerInv
  <2> QED
    BY <2>3 DEF Shown, Has, SignedBy
<1> QED
  BY <1>1, CertsInvariant, PTL

\* No run of gencerts, interrupted or not, replaces a CA key that is there.
THEOREM CAKeyStays == Spec => CAKeyIsKept
<1>1. CertsInv /\ [Next]_vars => [(caKey \in Keys) => (caKey' = caKey)]_vars
  <2> SUFFICES ASSUME CertsInv, Next, caKey \in Keys PROVE caKey' = caKey
    OBVIOUS
  <2>1. caKey # Cut /\ caKey # Missing
    BY CertsAssumption DEF Keys
  <2>2. CASE LoadOrCreateCAKey
    BY <2>1, <2>2 DEF LoadOrCreateCAKey
  <2>3. CASE FillCAKey
    BY <2>1, <2>3 DEF FillCAKey, CertsInv, GenInv
  <2>4. CASE ~LoadOrCreateCAKey /\ ~FillCAKey
    BY <2>4 DEF Next, Start, WriteCACert, FillCACert, WriteLeaf, FillLeaf, Finish, Crash, LoadChain,
                LoadRegion, AppendChain, Loaded, Stop, disk
  <2> QED
    BY <2>2, <2>3, <2>4
<1> QED
  BY <1>1, CertsInvariant, PTL DEF Spec, CAKeyIsKept
=============================================================================
