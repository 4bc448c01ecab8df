----------------------- MODULE EuiccCertificatesProofs -----------------------
(***************************************************************************)
(* Proofs about EuiccCertificates for every number of stops, as long as    *)
(* the SGP.26 package is not removed again.                                *)
(***************************************************************************)
EXTENDS EuiccCertificates, TLAPS

\* A chain that holds together.
Good(c) ==
  /\ c \in [Names -> KeyPairBundle]
  /\ \A n \in Names : c[n].cert.key = c[n].private
  /\ c["euicc"].cert.issuer = c["eum"].private
  /\ c["eum"].cert.issuer = c["ci"].private
  /\ c["ci"].cert.issuer = c["ci"].private

\* The first k files are those of chain c, the next one may be torn.
Layout(c, k) ==
  \A i \in 1..6 :
    /\ i <= k => disk[Files[i]] = c[Files[i][2]][Files[i][1]]
    /\ i = k + 1 => disk[Files[i]] \in {Missing, Torn}
    /\ i > k + 1 => disk[Files[i]] = Missing

\* An EID that has never used SGP.26 has written one chain, or a part of it.
LocalDisk ==
  ~ (sgp26_eid /\ available) =>
    \E c \in [Names -> KeyPairBundle], k \in 0..6 :
      /\ Good(c)
      /\ Layout(c, k)
      /\ pki # None => c = pki /\ k + unwritten = 6

EuiccKey  == disk[<<"private", "euicc">>]
EuiccCert == disk[<<"cert", "euicc">>]

UnderSgp26 == EuiccCert \in Certificate /\ EuiccCert.issuer = Sgp26Eum

\* A certificate under SGP.26 is only there when its key is, because the key is
\* written first and only while no such certificate is there.
EuiccDisk ==
  /\ EuiccCert # Missing => EuiccKey # Missing
  /\ UnderSgp26 => EuiccKey = EuiccCert.key
  /\ unwritten > 0 => ~ UnderSgp26
  /\ unwritten = 1 => EuiccKey = pki["euicc"].private

Inv ==
  /\ TypeOK
  /\ pki = None => unwritten = 0
  /\ pki # None => Good(pki)
  /\ LocalDisk
  /\ EuiccDisk

----------------------------------------------------------------------------
(* Files.                                                                  *)

LEMMA FilesAre ==
  /\ Files[1] = <<"private", "ci">>    /\ Files[2] = <<"cert", "ci">>
  /\ Files[3] = <<"private", "eum">>   /\ Files[4] = <<"cert", "eum">>
  /\ Files[5] = <<"private", "euicc">> /\ Files[6] = <<"cert", "euicc">>
BY DEF Files

LEMMA FileIs ==
  File = {<<"private", "ci">>, <<"cert", "ci">>, <<"private", "eum">>,
          <<"cert", "eum">>, <<"private", "euicc">>, <<"cert", "euicc">>}
BY DEF File, Names


\* Typed contents are told from missing and torn files and from no chain.
LEMMA Distinct ==
  /\ \A x \in Key \cup Certificate : x # Missing /\ x # Torn
  /\ \A c \in [Names -> KeyPairBundle] : c # None
  /\ \A b \in KeyPairBundle : b # None
BY CertificatesAssumption DEF Names, KeyPairBundle

LEMMA InitInv == Init => Inv
<1> SUFFICES ASSUME Init PROVE Inv
  OBVIOUS
<1>1. /\ \A f \in File : disk[f] = Missing
      /\ disk \in [File -> {Missing}]
      /\ pki = None /\ unwritten = 0
  BY DEF Init
<1>2. EuiccCert = Missing /\ EuiccKey = Missing
  BY <1>1, FileIs DEF EuiccCert, EuiccKey
<1>3. TypeOK
  <2>1. sgp26_eid \in BOOLEAN /\ available \in BOOLEAN
    BY DEF Init
  <2>2. DOMAIN disk = File
    BY <1>1
  <2>3. \A n \in Names : <<"private", n>> \in File /\ <<"cert", n>> \in File
    BY DEF File
  <2>4. made \in Key /\ stops \in 0..MaxStops /\ identity = None
    BY CertificatesAssumption DEF Init, Sgp26Eum, Key
  <2> QED  BY <1>1, <2>1, <2>2, <2>3, <2>4 DEF TypeOK
<1>4. LocalDisk
  <2> DEFINE pair == [private |-> 1, cert |-> [key |-> 1, issuer |-> 1]]
             c == [n \in Names |-> pair]
  <2>1. pair \in KeyPairBundle
    BY DEF KeyPairBundle, Certificate, Key
  <2>2. Good(c)
    BY <2>1 DEF Good, Names
  <2>3. \A i \in 1..6 : Files[i] \in File
    BY FilesAre, FileIs
  <2>4. Layout(c, 0)
    <3> HIDE DEF c
    <3> QED  BY <1>1, <2>3 DEF Layout
  <2> QED  BY <1>1, <2>2, <2>4 DEF LocalDisk, Good
<1>5. EuiccDisk
  BY <1>1, <1>2, Distinct DEF EuiccDisk, UnderSgp26
<1> QED  BY <1>1, <1>3, <1>4, <1>5 DEF Inv

----------------------------------------------------------------------------
(* initialize.                                                             *)

\* A new eUICC certificate continues a chain.
LEMMA Issued ==
  ASSUME NEW ci \in KeyPairBundle, NEW eum \in KeyPairBundle, NEW k \in Key,
         ci.cert.key = ci.private, ci.cert.issuer = ci.private,
         eum.cert.key = eum.private, eum.cert.issuer = ci.private
  PROVE  Good(Chain(ci, eum, _generate_euicc_cert(eum.private, k)))
<1> DEFINE new == _generate_euicc_cert(eum.private, k)
<1>1. new \in KeyPairBundle /\ new.private = k /\ new.cert.key = k
      /\ new.cert.issuer = eum.private
  BY DEF _generate_euicc_cert, KeyPairBundle, Certificate
<1> HIDE DEF new
<1> DEFINE c == Chain(ci, eum, new)
<1>2. c["ci"] = ci /\ c["eum"] = eum /\ c["euicc"] = new
      /\ c \in [Names -> KeyPairBundle]
  BY <1>1 DEF Chain, Names
<1> HIDE DEF c
<1>3. Good(c)
  BY <1>1, <1>2 DEF Good, Names
<1> QED  BY <1>3 DEF c, new

\* The disk is as it was; the invariant asks for the new chain only.
LEMMA HoldsInv ==
  ASSUME Inv, pki = None, NEW chain, NEW n \in {0, 2, 6}, Holds(chain, n),
         made' \in Key, Good(chain),
         n > 0 => ~ UnderSgp26,
         ~ (sgp26_eid /\ available) => Layout(chain, 6 - n)
  PROVE  Inv'
<1>1. /\ pki' = chain /\ unwritten' = n /\ disk' = disk /\ sgp26_eid' = sgp26_eid
      /\ available' = available /\ stops' = stops
      /\ identity' = IF n = 0 THEN chain["euicc"] ELSE identity
  BY DEF Holds
<1>2. chain \in [Names -> KeyPairBundle] /\ chain # None
  BY Distinct DEF Good
<1>3. TypeOK'
  <2>1. identity' \in KeyPairBundle \cup {None}
    BY <1>1, <1>2 DEF Inv, TypeOK, Names
  <2>2. unwritten' \in 0..6
    BY <1>1
  <2> QED  BY <1>1, <1>2, <2>1, <2>2 DEF Inv, TypeOK
<1>4. EuiccDisk'
  <2>1. EuiccKey' = EuiccKey /\ EuiccCert' = EuiccCert /\ (UnderSgp26' <=> UnderSgp26)
    BY <1>1 DEF EuiccKey, EuiccCert, UnderSgp26
  <2> QED  BY <1>1, <2>1 DEF Inv, EuiccDisk
<1>5. LocalDisk'
  <2>1. SUFFICES ASSUME ~ (sgp26_eid /\ available)
                 PROVE  LocalDisk'
    BY <1>1 DEF LocalDisk
  <2>2. Layout(chain, 6 - n)'
    BY <1>1, <2>1 DEF Layout
  <2>3. 6 - n \in 0..6 /\ (6 - n) + unwritten' = 6
    BY <1>1
  <2>4. Good(chain)'
    BY DEF Good
  <2> QED  BY <1>1, <1>2, <2>2, <2>3, <2>4 DEF LocalDisk
<1>6. Good(pki)'
  BY <1>1 DEF Good
<1> QED  BY <1>1, <1>2, <1>3, <1>4, <1>5, <1>6 DEF Inv

\* What is loaded without SGP.26 is the chain that was written, or its first two
\* thirds with a new certificate for the rest.
LEMMA ExistingInv ==
  ASSUME Inv, _load_existing
  PROVE  Inv'
<1>1. /\ pki = None /\ ~ (sgp26_eid /\ available)
      /\ Loadable("ci") /\ Loadable("eum")
  BY DEF _load_existing, Local, Starts
<1>2. PICK c \in [Names -> KeyPairBundle], k \in 0..6 : Good(c) /\ Layout(c, k)
  BY <1>1 DEF Inv, LocalDisk
<1>3. k >= 4
  BY <1>1, <1>2, FilesAre, Distinct DEF Layout, Loadable, Readable
<1>4. /\ disk[<<"private", "ci">>] = c["ci"].private  /\ disk[<<"cert", "ci">>] = c["ci"].cert
      /\ disk[<<"private", "eum">>] = c["eum"].private /\ disk[<<"cert", "eum">>] = c["eum"].cert
  BY <1>2, <1>3, FilesAre DEF Layout
<1>5. _load_key_pair("ci") = c["ci"] /\ _load_key_pair("eum") = c["eum"]
  BY <1>4 DEF _load_key_pair, KeyPairBundle, Names
<1>6. ASSUME Exists("private", "euicc"), Loadable("euicc"), UNCHANGED made,
             Holds(Chain(c["ci"], c["eum"], _load_key_pair("euicc")), 0)
      PROVE  Inv'
  <2>1. k = 6
    BY <1>2, <1>3, <1>6, FilesAre DEF Layout, Loadable, Readable
  <2>2. disk[<<"private", "euicc">>] = c["euicc"].private
        /\ disk[<<"cert", "euicc">>] = c["euicc"].cert
    BY <1>2, <2>1, FilesAre DEF Layout
  <2>3. _load_key_pair("euicc") = c["euicc"]
    BY <2>2 DEF _load_key_pair, KeyPairBundle, Names
  <2>4. Chain(c["ci"], c["eum"], c["euicc"]) = c
    BY DEF Chain, Names
  <2> QED  BY <1>1, <1>2, <1>6, <2>1, <2>3, <2>4, HoldsInv DEF Inv, TypeOK
<1>7. ASSUME ~ Exists("private", "euicc"), made' = made + 1,
             Holds(Chain(c["ci"], c["eum"], _generate_euicc_cert(c["eum"].private, made')), 2)
      PROVE  Inv'
  <2> DEFINE new == Chain(c["ci"], c["eum"], _generate_euicc_cert(c["eum"].private, made'))
  <2>1. k = 4
    <3>1. k < 5
      BY <1>2, <1>7, FilesAre, Distinct DEF Layout, Exists, Good, Names, KeyPairBundle
    <3> QED  BY <1>3, <3>1
  <2>2. made' \in Key
    BY <1>7 DEF Inv, TypeOK, Key
  <2>3. Good(new)
    BY <1>2, <2>2, Issued DEF Good, Names
  <2>4. new["ci"] = c["ci"] /\ new["eum"] = c["eum"]
    BY DEF Chain, Names
  <2>5. disk[<<"private", "euicc">>] = Missing /\ disk[<<"cert", "euicc">>] = Missing
    BY <1>2, <1>7, <2>1, FilesAre DEF Layout, Exists
  <2>6. ~ UnderSgp26
    BY <2>5, Distinct DEF UnderSgp26, EuiccCert
  <2> HIDE DEF new
  <2>7. Layout(new, 4)
    BY <1>2, <2>1, <2>4, <2>5, FilesAre DEF Layout
  <2> QED  BY <1>1, <1>7, <2>2, <2>3, <2>6, <2>7, HoldsInv DEF new
<1> QED  BY <1>5, <1>6, <1>7 DEF _load_existing, Inv, TypeOK

LEMMA FullChainInv ==
  ASSUME Inv, _generate_full_chain
  PROVE  Inv'
<1> DEFINE ci  == _generate_ci_root(made + 1)
           eum == _generate_eum_cert(made + 1, made + 2)
           new == Chain(ci, eum, _generate_euicc_cert(made + 2, made + 3))
<1>1. /\ pki = None /\ ~ (sgp26_eid /\ available)
      /\ disk[<<"private", "ci">>] = Missing
      /\ made' = made + 3 /\ Holds(new, 6)
  BY DEF _generate_full_chain, Local, Starts, Exists
<1>2. made + 1 \in Key /\ made + 2 \in Key /\ made + 3 \in Key
  BY DEF Inv, TypeOK, Key
<1>3. ci \in KeyPairBundle /\ eum \in KeyPairBundle /\ eum.private = made + 2
      /\ ci.cert.key = ci.private /\ ci.cert.issuer = ci.private
      /\ eum.cert.key = eum.private /\ eum.cert.issuer = ci.private
  BY <1>2 DEF _generate_ci_root, _generate_eum_cert, KeyPairBundle, Certificate
<1>4. Good(new)
  <2> HIDE DEF ci, eum
  <2> QED  BY <1>2, <1>3, Issued
<1>5. PICK c \in [Names -> KeyPairBundle], k \in 0..6 : Good(c) /\ Layout(c, k)
  BY <1>1 DEF Inv, LocalDisk
<1>6. k = 0
  <2>1. k < 1
    BY <1>1, <1>5, FilesAre, Distinct DEF Layout, Names, KeyPairBundle
  <2> QED  BY <2>1
<1>7. \A i \in 1..6 : disk[Files[i]] = Missing
  BY <1>1, <1>5, <1>6, FilesAre DEF Layout
<1>8. ~ UnderSgp26
  BY <1>7, FilesAre, Distinct DEF UnderSgp26, EuiccCert
<1> HIDE DEF new
<1>9. Layout(new, 0)
  BY <1>7 DEF Layout
<1> QED  BY <1>1, <1>2, <1>4, <1>8, <1>9, HoldsInv

LEMMA Sgp26Inv ==
  ASSUME Inv, initialize_sgp26
  PROVE  Inv'
<1> DEFINE ci == _load_sgp26_chain.ci
           eum == _load_sgp26_chain.eum
<1>1. pki = None /\ sgp26_eid /\ available
  BY DEF initialize_sgp26, Starts
<1>2. ci \in KeyPairBundle /\ eum \in KeyPairBundle /\ eum.private = Sgp26Eum
      /\ ci.cert.key = ci.private /\ ci.cert.issuer = ci.private
      /\ eum.cert.key = eum.private /\ eum.cert.issuer = ci.private
  BY DEF _load_sgp26_chain, _generate_ci_root, _generate_eum_cert, KeyPairBundle,
         Certificate, Key, Sgp26Ci, Sgp26Eum
<1> HIDE DEF ci, eum
<1>3. ASSUME reuse_euicc, Loadable("euicc"), UNCHANGED made,
             Holds(Chain(ci, eum, _load_key_pair("euicc")), 0)
      PROVE  Inv'
  <2> DEFINE old == _load_key_pair("euicc")
  <2>1. EuiccKey \in Key /\ EuiccCert \in Certificate
    BY <1>3 DEF Inv, TypeOK, Names, Loadable, Readable, EuiccKey, EuiccCert
  <2>2. UnderSgp26
    BY <1>3, <2>1 DEF UnderSgp26, reuse_euicc, _euicc_cert_chains_to, EuiccCert
  <2>3. old \in KeyPairBundle /\ old.cert.key = old.private /\ old.cert.issuer = Sgp26Eum
    BY <2>1, <2>2 DEF Inv, EuiccDisk, UnderSgp26, _load_key_pair, EuiccKey, EuiccCert, KeyPairBundle
  <2> HIDE DEF old
  <2> DEFINE new == Chain(ci, eum, old)
  <2>4. new \in [Names -> KeyPairBundle] /\ new["ci"] = ci /\ new["eum"] = eum /\ new["euicc"] = old
    BY <1>2, <2>3 DEF Chain, Names
  <2> HIDE DEF new
  <2>5. Good(new)
    BY <1>2, <2>3, <2>4 DEF Good, Names
  <2> QED  BY <1>1, <1>3, <2>5, HoldsInv DEF Inv, TypeOK, new, old
<1>4. ASSUME ~ reuse_euicc, made' = made + 1,
             Holds(Chain(ci, eum, _generate_euicc_cert(Sgp26Eum, made')), 2)
      PROVE  Inv'
  <2> DEFINE new == Chain(ci, eum, _generate_euicc_cert(Sgp26Eum, made'))
  <2>1. made' \in Key
    BY <1>4 DEF Inv, TypeOK, Key
  <2>2. Good(new)
    BY <1>2, <2>1, Issued
  <2>3. ~ UnderSgp26
    BY <1>4, Distinct DEF Inv, EuiccDisk, UnderSgp26, reuse_euicc, Exists, Readable,
       _euicc_cert_chains_to, EuiccCert, EuiccKey
  <2> HIDE DEF new
  <2> QED  BY <1>1, <1>4, <2>1, <2>2, <2>3, HoldsInv DEF new
<1> QED  BY <1>3, <1>4 DEF initialize_sgp26, ci, eum

----------------------------------------------------------------------------
(* Writing and stopping.                                                   *)

\* What is written into a file belongs there.
LEMMA Contents ==
  ASSUME NEW c \in [Names -> KeyPairBundle], NEW f \in File
  PROVE  /\ f[1] = "private" => c[f[2]][f[1]] \in Key
         /\ f[1] = "cert" => c[f[2]][f[1]] \in Certificate
         /\ f[1] \in {"private", "cert"}
<1>1. PICK p \in {"private", "cert"}, n \in Names : f = <<p, n>>
  BY DEF File
<1>2. c[n].private \in Key /\ c[n].cert \in Certificate
  BY DEF KeyPairBundle
<1>3. CASE p = "private"
  BY <1>1, <1>2, <1>3
<1>4. CASE p = "cert"
  BY <1>1, <1>2, <1>4
<1> QED  BY <1>1, <1>3, <1>4

\* The files are typed when one of them is written with what belongs there.
LEMMA WrittenTyped ==
  ASSUME TypeOK, NEW f \in File, NEW x,
         f[1] = "private" => x \in Key \cup {Torn},
         f[1] = "cert" => x \in Certificate \cup {Torn},
         NEW g, g = [disk EXCEPT ![f] = x]
  PROVE  /\ DOMAIN g = File
         /\ \A n \in Names : /\ g[<<"private", n>>] \in Key \cup {Missing, Torn}
                             /\ g[<<"cert", n>>] \in Certificate \cup {Missing, Torn}
<1>1. DOMAIN disk = File
  BY DEF TypeOK
<1>2. PICK p \in {"private", "cert"}, m \in Names : f = <<p, m>>
  BY DEF File
<1>4. ASSUME NEW n \in Names
      PROVE  /\ g[<<"private", n>>] \in Key \cup {Missing, Torn}
             /\ g[<<"cert", n>>] \in Certificate \cup {Missing, Torn}
  <2>1. <<"private", n>> \in File /\ <<"cert", n>> \in File
    BY DEF File
  <2>2. /\ disk[<<"private", n>>] \in Key \cup {Missing, Torn}
        /\ disk[<<"cert", n>>] \in Certificate \cup {Missing, Torn}
    BY DEF TypeOK
  <2>3. g[<<"private", n>>] \in Key \cup {Missing, Torn}
    <3>1. CASE f = <<"private", n>>
      <4>1. f[1] = "private"
        BY <3>1
      <4> QED  BY <1>1, <2>1, <3>1, <4>1
    <3>2. CASE f # <<"private", n>>
      BY <1>1, <2>1, <2>2, <3>2
    <3> QED  BY <3>1, <3>2
  <2>4. g[<<"cert", n>>] \in Certificate \cup {Missing, Torn}
    <3>1. CASE f = <<"cert", n>>
      <4>1. f[1] = "cert"
        BY <3>1
      <4> QED  BY <1>1, <2>1, <3>1, <4>1
    <3>2. CASE f # <<"cert", n>>
      BY <1>1, <2>1, <2>2, <3>2
    <3> QED  BY <3>1, <3>2
  <2> QED  BY <2>3, <2>4
<1>3. DOMAIN g = File
  BY <1>1
<1> QED  BY <1>3, <1>4

\* The n-th file from the end is the next one to be written.
LEMMA SaveInv ==
  ASSUME Inv, _save_key_pair
  PROVE  Inv'
<1> DEFINE k == 6 - unwritten
           content == pki[NextFile[2]][NextFile[1]]
<1>1. /\ unwritten \in 1..6 /\ pki # None /\ Good(pki)
      /\ unwritten' = unwritten - 1 /\ disk' = [disk EXCEPT ![NextFile] = content]
      /\ UNCHANGED <<sgp26_eid, available, pki, made, stops>>
  BY DEF Inv, TypeOK, _save_key_pair
<1>2. k \in 0..5 /\ NextFile = Files[k + 1]
  BY <1>1 DEF NextFile
<1>3. /\ NextFile \in File
      /\ NextFile[1] = "private" => content \in Key
      /\ NextFile[1] = "cert" => content \in Certificate
  <2>1. NextFile \in File
    BY <1>2, FilesAre, FileIs
  <2> QED  BY <1>1, <2>1, Contents DEF Good
<1>4. DOMAIN disk = File
  BY DEF Inv, TypeOK
<1>5. /\ disk'[NextFile] = content
      /\ \A f \in File : f # NextFile => disk'[f] = disk[f]
  BY <1>1, <1>3, <1>4
<1> HIDE DEF content
<1>6. TypeOK'
  <2>1. /\ DOMAIN disk' = File
        /\ \A n \in Names : /\ disk'[<<"private", n>>] \in Key \cup {Missing, Torn}
                            /\ disk'[<<"cert", n>>] \in Certificate \cup {Missing, Torn}
    BY <1>1, <1>3, WrittenTyped DEF Inv
  <2>3. unwritten' \in 0..6
    BY <1>1
  <2>4. identity' \in KeyPairBundle \cup {None}
    BY <1>1 DEF _save_key_pair, Inv, TypeOK, Good, Names
  <2>5. pki' \in [Names -> KeyPairBundle] \cup {None}
    BY <1>1 DEF Good
  <2> QED  BY <1>1, <2>1, <2>3, <2>4, <2>5 DEF Inv, TypeOK
<1>7. LocalDisk'
  <2>1. SUFFICES ASSUME ~ (sgp26_eid /\ available) PROVE LocalDisk'
    BY <1>1 DEF LocalDisk
  <2>2. Layout(pki, k)
    <3>1. PICK c \in [Names -> KeyPairBundle], j \in 0..6 :
                 Layout(c, j) /\ c = pki /\ j + unwritten = 6
      BY <1>1, <2>1 DEF Inv, LocalDisk
    <3>2. j = k
      BY <1>1, <3>1
    <3> QED  BY <3>1, <3>2
  <2>3. \A i \in 1..6 : /\ i <= k + 1 => disk'[Files[i]] = pki[Files[i][2]][Files[i][1]]
                        /\ i = k + 2 => disk'[Files[i]] \in {Missing, Torn}
                        /\ i > k + 2 => disk'[Files[i]] = Missing
    <3> TAKE i \in 1..6
    <3>1. Files[i] \in File /\ (i # k + 1 => Files[i] # NextFile)
      BY <1>2, FilesAre, FileIs
    <3>2. CASE i = k + 1
      BY <1>2, <1>5, <3>2 DEF content
    <3>3. CASE i # k + 1
      <4>1. disk'[Files[i]] = disk[Files[i]]
        BY <1>5, <3>1, <3>3
      <4> QED  BY <1>2, <2>2, <3>3, <4>1 DEF Layout
    <3> QED  BY <3>2, <3>3
  <2> DEFINE j == k + 1
             c == pki
  <2>4. /\ j \in 0..6 /\ j + unwritten' = 6
        /\ k + 2 = j + 1
    BY <1>1
  <2>5. Good(c) /\ c \in [Names -> KeyPairBundle]
    BY <1>1 DEF Good
  <2> HIDE DEF j
  <2>6. \A i \in 1..6 : /\ i <= j => disk'[Files[i]] = c[Files[i][2]][Files[i][1]]
                        /\ i = j + 1 => disk'[Files[i]] \in {Missing, Torn}
                        /\ i > j + 1 => disk'[Files[i]] = Missing
    BY <2>3, <2>4 DEF j
  <2>7. c = pki'
    BY <1>1
  <2> HIDE DEF c
  <2> QED  BY <2>4, <2>5, <2>6, <2>7 DEF LocalDisk, Layout, Good
<1>8. EuiccDisk'
  <2>1. <<"private", "euicc">> \in File /\ <<"cert", "euicc">> \in File
    BY FileIs
  <2>2. CASE unwritten > 2
    <3>1. EuiccKey' = EuiccKey /\ EuiccCert' = EuiccCert
      BY <1>1, <1>2, <1>5, <2>1, <2>2, FilesAre DEF EuiccKey, EuiccCert
    <3> QED  BY <1>1, <2>2, <3>1 DEF Inv, EuiccDisk, UnderSgp26
  <2>3. CASE unwritten = 2
    <3>1. NextFile = <<"private", "euicc">>
      BY <1>2, <2>3, FilesAre
    <3>2. EuiccKey' = pki["euicc"].private /\ EuiccCert' = EuiccCert
      BY <1>5, <2>1, <3>1 DEF content, EuiccKey, EuiccCert
    <3>3. EuiccKey' # Missing /\ ~ UnderSgp26'
      BY <1>1, <2>3, <3>2, Distinct DEF Inv, EuiccDisk, UnderSgp26, Good, KeyPairBundle, Names
    <3> QED  BY <1>1, <2>3, <3>2, <3>3 DEF EuiccDisk
  <2>4. CASE unwritten = 1
    <3>1. NextFile = <<"cert", "euicc">>
      BY <1>2, <2>4, FilesAre
    <3>2. EuiccKey' = EuiccKey /\ EuiccCert' = pki["euicc"].cert
      BY <1>5, <2>1, <3>1 DEF content, EuiccKey, EuiccCert
    <3>3. EuiccKey = pki["euicc"].private /\ EuiccKey # Missing
      BY <1>1, <2>4, Distinct DEF Inv, EuiccDisk, Good, KeyPairBundle, Names
    <3> QED  BY <1>1, <2>4, <3>2, <3>3 DEF EuiccDisk, UnderSgp26, Good, Names
  <2> QED  BY <1>1, <2>2, <2>3, <2>4
<1>9. Good(pki)' /\ pki' # None
  BY <1>1 DEF Good
<1> QED  BY <1>6, <1>7, <1>8, <1>9 DEF Inv

\* A file that is cut off is not one of those a chain was loaded from.
LEMMA StopInv ==
  ASSUME Inv, Stop
  PROVE  Inv'
<1>1. /\ pki # None /\ pki' = None /\ unwritten' = 0 /\ unwritten \in 0..6
      /\ stops' = stops + 1 /\ stops < MaxStops
      /\ UNCHANGED <<sgp26_eid, available, made, identity>>
  BY DEF Inv, TypeOK, Stop
<1>2. CASE disk' = disk
  <2>1. TypeOK'
    BY <1>1, <1>2, CertificatesAssumption DEF Inv, TypeOK
  <2>2. LocalDisk'
    BY <1>1, <1>2 DEF Inv, LocalDisk, Layout, Good
  <2>3. EuiccDisk'
    BY <1>1, <1>2 DEF Inv, EuiccDisk, UnderSgp26, EuiccKey, EuiccCert
  <2> QED  BY <1>1, <2>1, <2>2, <2>3 DEF Inv
<1>3. CASE unwritten > 0 /\ disk' = [disk EXCEPT ![NextFile] = Torn]
  <2> DEFINE k == 6 - unwritten
  <2>1. k \in 0..5 /\ NextFile = Files[k + 1] /\ NextFile \in File
    <3>1. k \in 0..5 /\ k + 1 = 7 - unwritten
      BY <1>1, <1>3
    <3>2. NextFile = Files[k + 1]
      BY <3>1 DEF NextFile
    <3>3. \A i \in 1..6 : Files[i] \in File
      BY FilesAre, FileIs
    <3>4. k + 1 \in 1..6
      BY <3>1
    <3> QED  BY <3>1, <3>2, <3>3, <3>4
  <2>2. DOMAIN disk = File
    BY DEF Inv, TypeOK
  <2>3. disk'[NextFile] = Torn /\ \A f \in File : f # NextFile => disk'[f] = disk[f]
    BY <1>3, <2>1, <2>2
  <2>4. TypeOK'
    <3>1. /\ DOMAIN disk' = File
          /\ \A n \in Names : /\ disk'[<<"private", n>>] \in Key \cup {Missing, Torn}
                              /\ disk'[<<"cert", n>>] \in Certificate \cup {Missing, Torn}
      BY <1>3, <2>1, WrittenTyped DEF Inv
    <3> QED  BY <1>1, <3>1, CertificatesAssumption DEF Inv, TypeOK
  <2>5. LocalDisk'
    <3>1. SUFFICES ASSUME ~ (sgp26_eid /\ available) PROVE LocalDisk'
      BY <1>1 DEF LocalDisk
    <3>2. Layout(pki, k) /\ Good(pki) /\ pki \in [Names -> KeyPairBundle]
      <4>1. PICK c \in [Names -> KeyPairBundle], j \in 0..6 :
                   Layout(c, j) /\ Good(c) /\ c = pki /\ j + unwritten = 6
        BY <1>1, <3>1 DEF Inv, LocalDisk
      <4>2. j = k
        BY <1>1, <4>1
      <4> QED  BY <4>1, <4>2
    <3> DEFINE c == pki
    <3> HIDE DEF c
    <3>3. Layout(c, k) /\ Good(c) /\ c \in [Names -> KeyPairBundle]
      BY <3>2 DEF c
    <3>4. \A i \in 1..6 : /\ i <= k => disk'[Files[i]] = c[Files[i][2]][Files[i][1]]
                          /\ i = k + 1 => disk'[Files[i]] \in {Missing, Torn}
                          /\ i > k + 1 => disk'[Files[i]] = Missing
      <4> TAKE i \in 1..6
      <4>1. Files[i] \in File /\ (i # k + 1 => Files[i] # NextFile)
        BY <2>1, FilesAre, FileIs
      <4>2. CASE i = k + 1
        BY <2>1, <2>3, <4>2
      <4>3. CASE i # k + 1
        <5>1. disk'[Files[i]] = disk[Files[i]]
          BY <2>3, <4>1, <4>3
        <5> QED  BY <2>1, <3>3, <4>3, <5>1 DEF Layout
      <4> QED  BY <4>2, <4>3
    <3>5. \E d \in [Names -> KeyPairBundle], j \in 0..6 :
            /\ Good(d)
            /\ \A i \in 1..6 : /\ i <= j => disk'[Files[i]] = d[Files[i][2]][Files[i][1]]
                               /\ i = j + 1 => disk'[Files[i]] \in {Missing, Torn}
                               /\ i > j + 1 => disk'[Files[i]] = Missing
      <4>1. k \in 0..6
        BY <2>1
      <4> HIDE DEF k
      <4> QED  BY <3>3, <3>4, <4>1
    <3> QED  BY <1>1, <3>5 DEF LocalDisk, Layout, Good
  <2>6. EuiccDisk'
    <3>1. <<"private", "euicc">> \in File /\ <<"cert", "euicc">> \in File
      BY FileIs
    <3>2. /\ EuiccKey' = EuiccKey \/ EuiccKey' = Torn
          /\ EuiccCert' = EuiccCert \/ EuiccCert' = Torn
      BY <2>3, <3>1 DEF EuiccKey, EuiccCert
    <3>3. EuiccCert' = Torn => EuiccKey' # Missing
      <4>1. CASE NextFile = <<"cert", "euicc">>
        <5>1. unwritten = 1
          <6>1. \A i \in 1..6 : Files[i] = <<"cert", "euicc">> => i = 6
            BY FilesAre
          <6>2. k + 1 = 6
            <7>1. k + 1 \in 1..6
              BY <2>1
            <7>2. Files[k + 1] = <<"cert", "euicc">>
              BY <2>1, <4>1
            <7> QED  BY <6>1, <7>1, <7>2
          <6> QED  BY <1>1, <6>2
        <5>2. EuiccKey = pki["euicc"].private /\ EuiccKey' = EuiccKey
          BY <2>3, <3>1, <4>1, <5>1 DEF Inv, EuiccDisk, EuiccKey
        <5> QED  BY <1>1, <5>2, Distinct DEF Inv, Good, KeyPairBundle, Names
      <4>2. CASE NextFile # <<"cert", "euicc">>
        <5>1. EuiccCert' = EuiccCert
          BY <2>3, <3>1, <4>2 DEF EuiccCert
        <5> QED  BY <3>2, <5>1, CertificatesAssumption DEF Inv, EuiccDisk
      <4> QED  BY <4>1, <4>2
    <3>4. ~ UnderSgp26'
      BY <1>3, <3>2, Distinct DEF Inv, EuiccDisk, UnderSgp26
    <3>5. EuiccCert' # Missing => EuiccKey' # Missing
      BY <3>2, <3>3, CertificatesAssumption DEF Inv, EuiccDisk
    <3> QED  BY <1>1, <3>4, <3>5 DEF EuiccDisk
  <2> QED  BY <1>1, <2>4, <2>5, <2>6 DEF Inv
<1> QED  BY <1>2, <1>3 DEF Stop

\* The package appears; from then on the local files do not matter.
LEMMA PackageInv ==
  ASSUME Inv, PackageChanges, ~ PackageMayGo
  PROVE  Inv'
<1>1. ~ available /\ available' = ~ available
      /\ UNCHANGED <<sgp26_eid, disk, pki, unwritten, made, stops, identity>>
  BY DEF PackageChanges
<1>2. TypeOK'
  BY <1>1 DEF Inv, TypeOK
<1>3. LocalDisk'
  BY <1>1 DEF Inv, LocalDisk, Layout, Good
<1>4. EuiccDisk'
  BY <1>1 DEF Inv, EuiccDisk, UnderSgp26, EuiccKey, EuiccCert
<1> QED  BY <1>1, <1>2, <1>3, <1>4 DEF Inv, Good

LEMMA NextInv == ~ PackageMayGo => (Inv /\ [Next]_vars => Inv')
<1> SUFFICES ASSUME ~ PackageMayGo, Inv, [Next]_vars PROVE Inv'
  OBVIOUS
<1>1. CASE initialize
  BY <1>1, Sgp26Inv, ExistingInv, FullChainInv DEF initialize
<1>2. CASE _save_key_pair
  BY <1>2, SaveInv
<1>3. CASE Stop
  BY <1>3, StopInv
<1>4. CASE PackageChanges
  BY <1>4, PackageInv
<1>5. CASE UNCHANGED vars
  BY <1>5 DEF vars, Inv, TypeOK, LocalDisk, Layout, Good, EuiccDisk, UnderSgp26,
              EuiccKey, EuiccCert
<1> QED  BY <1>1, <1>2, <1>3, <1>4, <1>5 DEF Next

LEMMA Invariance == ~ PackageMayGo => (Spec => []Inv)
<1> SUFFICES ASSUME ~ PackageMayGo PROVE Spec => []Inv
  OBVIOUS
<1>1. Inv /\ [Next]_vars => Inv'
  BY NextInv
<1> QED  BY <1>1, InitInv, PTL DEF Spec

\* Files, chain and counters are typed, for every number of stops.
THEOREM CertificatesTyped == ~ PackageMayGo => (Spec => []TypeOK)
<1>1. Inv => TypeOK
  BY DEF Inv
<1> QED  BY <1>1, Invariance, PTL

\* As long as the SGP.26 package is not removed: an eUICC in service holds a
\* certificate for its key from its EUM, whose certificate is from its CI, however
\* many starts were cut off and wherever.
THEOREM ChainHolds == ~ PackageMayGo => (Spec => []ServedChainHolds)
<1>1. Inv => ServedChainHolds
  BY DEF Inv, ServedChainHolds, InService, Good
<1> QED  BY <1>1, Invariance, PTL

----------------------------------------------------------------------------
(* The identity of an eUICC outlives every stop.                           *)

\* A key and a certificate that were in service are on disk with no file left to
\* be written, unless the SGP.26 package has made them invalid.
IdentityOnDisk ==
  identity # None =>
    \/ sgp26_eid /\ available /\ identity.cert.issuer # Sgp26Eum
    \/ EuiccKey = identity.private /\ EuiccCert = identity.cert /\ unwritten = 0

KeepsStep ==
  identity # None /\ identity' # identity =>
    sgp26_eid /\ available /\ identity.cert.issuer # Sgp26Eum

\* A certificate that can be read is the last file of a local chain, so all are there.
LEMMA LocalComplete ==
  ASSUME Inv, ~ (sgp26_eid /\ available), EuiccCert \in Certificate
  PROVE  Exists("private", "ci") /\ Exists("private", "euicc")
<1>1. PICK c \in [Names -> KeyPairBundle], k \in 0..6 : Good(c) /\ Layout(c, k)
  BY DEF Inv, LocalDisk
<1>2. disk[Files[6]] \notin {Missing, Torn}
  BY FilesAre, Distinct DEF EuiccCert
<1>3. k = 6
  BY <1>1, <1>2 DEF Layout
<1>4. disk[<<"private", "ci">>] = c["ci"].private /\ disk[<<"private", "euicc">>] = c["euicc"].private
  BY <1>1, <1>3, FilesAre DEF Layout
<1> QED  BY <1>4, Distinct DEF Exists, Names, KeyPairBundle

\* What is loaded again is what is on disk.
LEMMA LoadedIdentity ==
  ASSUME NEW ci, NEW eum, Loadable("euicc"), Inv,
         Holds(Chain(ci, eum, _load_key_pair("euicc")), 0), IdentityOnDisk
  PROVE  IdentityOnDisk' /\ KeepsStep
<1>1. Chain(ci, eum, _load_key_pair("euicc"))["euicc"] = _load_key_pair("euicc")
  BY DEF Chain, Names
<1>2. /\ identity'.private = EuiccKey /\ identity'.cert = EuiccCert
      /\ identity' = [private |-> EuiccKey, cert |-> EuiccCert]
      /\ unwritten' = 0 /\ disk' = disk
      /\ sgp26_eid' = sgp26_eid /\ available' = available
  BY <1>1 DEF Holds, _load_key_pair, EuiccKey, EuiccCert
<1>3. IdentityOnDisk'
  BY <1>2 DEF IdentityOnDisk, EuiccKey, EuiccCert
<1>4. identity # None /\ EuiccKey = identity.private /\ EuiccCert = identity.cert =>
        identity' = identity
  BY <1>2 DEF Inv, TypeOK, KeyPairBundle
<1> QED  BY <1>3, <1>4 DEF IdentityOnDisk, KeepsStep

LEMMA IdentityStep ==
  ASSUME ~ PackageMayGo, Inv, IdentityOnDisk, [Next]_vars
  PROVE  IdentityOnDisk' /\ KeepsStep
<1>1. CASE initialize_sgp26
  <2>1. Starts /\ sgp26_eid /\ available
    BY <1>1 DEF initialize_sgp26
  <2>2. CASE reuse_euicc
    BY <1>1, <2>2, LoadedIdentity DEF initialize_sgp26
  <2>3. CASE ~ reuse_euicc
    <3>1. /\ identity' = identity /\ disk' = disk
          /\ sgp26_eid' = sgp26_eid /\ available' = available
      <4>1. \E chain : Holds(chain, 2)
        BY <1>1, <2>3 DEF initialize_sgp26
      <4> QED  BY <4>1 DEF Holds
    <3>2. ASSUME identity # None, EuiccKey = identity.private, EuiccCert = identity.cert
          PROVE  identity.cert.issuer # Sgp26Eum
      <4>1. EuiccKey \in Key /\ EuiccCert \in Certificate
        BY <3>2 DEF Inv, TypeOK, KeyPairBundle
      <4>2. Exists("private", "euicc") /\ Readable("cert", "euicc")
        BY <4>1, Distinct DEF Exists, Readable, EuiccKey, EuiccCert
      <4> QED  BY <2>3, <3>2, <4>2 DEF reuse_euicc, _euicc_cert_chains_to, EuiccCert
    <3> QED  BY <2>1, <3>1, <3>2 DEF IdentityOnDisk, KeepsStep
  <2> QED  BY <2>2, <2>3
<1>2. ASSUME Local, identity # None
      PROVE  /\ EuiccKey = identity.private /\ EuiccCert = identity.cert
             /\ Exists("private", "ci") /\ Exists("private", "euicc")
  <2>1. ~ (sgp26_eid /\ available)
    BY <1>2 DEF Local
  <2>2. EuiccKey = identity.private /\ EuiccCert = identity.cert
    BY <1>2, <2>1 DEF IdentityOnDisk
  <2>3. EuiccCert \in Certificate
    BY <1>2, <2>2 DEF Inv, TypeOK, KeyPairBundle
  <2> QED  BY <2>1, <2>2, <2>3, LocalComplete
<1>3. CASE _load_existing
  <2>1. Local
    BY <1>3 DEF _load_existing
  <2>2. CASE Exists("private", "euicc")
    BY <1>3, <2>2, LoadedIdentity DEF _load_existing
  <2>3. CASE ~ Exists("private", "euicc")
    <3>1. identity = None
      BY <1>2, <2>1, <2>3
    <3>2. identity' = identity
      BY <1>3, <2>3 DEF _load_existing, Holds
    <3> QED  BY <3>1, <3>2 DEF IdentityOnDisk, KeepsStep
  <2> QED  BY <2>2, <2>3
<1>4. CASE _generate_full_chain
  <2>1. identity = None
    BY <1>2, <1>4 DEF _generate_full_chain
  <2>2. identity' = identity
    BY <1>4 DEF _generate_full_chain, Holds
  <2> QED  BY <2>1, <2>2 DEF IdentityOnDisk, KeepsStep
<1>5. CASE _save_key_pair
  <2>1. /\ unwritten \in 1..6 /\ unwritten' = unwritten - 1 /\ pki # None
        /\ sgp26_eid' = sgp26_eid /\ available' = available
        /\ disk' = [disk EXCEPT ![NextFile] = pki[NextFile[2]][NextFile[1]]]
        /\ identity' = IF unwritten' = 0 THEN pki["euicc"] ELSE identity
    BY <1>5 DEF _save_key_pair, Inv, TypeOK
  <2>2. identity # None => sgp26_eid /\ available /\ identity.cert.issuer # Sgp26Eum
    BY <2>1 DEF IdentityOnDisk
  <2>3. CASE unwritten = 1
    <3>1. NextFile = <<"cert", "euicc">> /\ NextFile \in DOMAIN disk
      BY <2>3, FilesAre, FileIs DEF NextFile, Inv, TypeOK
    <3>2. EuiccCert' = pki["euicc"].cert /\ EuiccKey' = EuiccKey
      BY <2>1, <3>1 DEF EuiccCert, EuiccKey
    <3>3. EuiccKey = pki["euicc"].private
      BY <2>3 DEF Inv, EuiccDisk
    <3>4. unwritten' = 0 /\ identity' = pki["euicc"]
      BY <2>1, <2>3
    <3> QED  BY <2>2, <3>2, <3>3, <3>4 DEF IdentityOnDisk, KeepsStep
  <2>4. CASE unwritten # 1
    <3>1. identity' = identity
      BY <2>1, <2>4
    <3> QED  BY <2>1, <2>2, <3>1 DEF IdentityOnDisk, KeepsStep
  <2> QED  BY <2>3, <2>4
<1>6. CASE Stop
  <2>1. /\ identity' = identity /\ sgp26_eid' = sgp26_eid /\ available' = available
        /\ unwritten' = 0 /\ (unwritten = 0 => disk' = disk)
    BY <1>6 DEF Stop
  <2> QED  BY <2>1 DEF IdentityOnDisk, KeepsStep, EuiccKey, EuiccCert
<1>7. CASE PackageChanges
  <2>1. /\ identity' = identity /\ sgp26_eid' = sgp26_eid /\ disk' = disk
        /\ unwritten' = unwritten /\ ~ available
    BY <1>7 DEF PackageChanges
  <2> QED  BY <2>1 DEF IdentityOnDisk, KeepsStep, EuiccKey, EuiccCert
<1>8. CASE UNCHANGED vars
  BY <1>8 DEF vars, IdentityOnDisk, KeepsStep, EuiccKey, EuiccCert
<1> QED  BY <1>1, <1>3, <1>4, <1>5, <1>6, <1>7, <1>8 DEF Next, initialize

\* As long as the SGP.26 package is not removed: however starts are cut off, an
\* eUICC keeps its key and certificate, but for the change to the SGP.26 chain.
THEOREM IdentityStays == ~ PackageMayGo => (Spec => KeepsIdentity)
<1> SUFFICES ASSUME ~ PackageMayGo PROVE Spec => KeepsIdentity
  OBVIOUS
<1>1. Init => IdentityOnDisk
  BY DEF Init, IdentityOnDisk
<1>2. Inv /\ IdentityOnDisk /\ [Next]_vars => IdentityOnDisk' /\ [KeepsStep]_vars
  BY IdentityStep
<1>3. Spec => []Inv
  BY Invariance
<1>4. KeepsStep <=> (identity # None /\ identity' # identity =>
                       /\ sgp26_eid /\ available
                       /\ identity.cert.issuer # Sgp26Eum)
  BY DEF KeepsStep
<1> QED  BY <1>1, <1>2, <1>3, <1>4, PTL DEF Spec, KeepsIdentity
=============================================================================
