-------------------------- MODULE EuiccCertificates --------------------------
(***************************************************************************)
(* The certificate chain of one EID: the files it is kept in, and how it   *)
(* is loaded or generated each time the eUICC is created in memory.        *)
(*                                                                         *)
(* An EID under the prefix of the SGP.26 test EUM uses the public SGP.26   *)
(* CI and EUM as soon as their package is installed, every other one a CI  *)
(* and an EUM of its own.  Files are written one after the other, and the  *)
(* process may be killed before, between and in the middle of them.        *)
(*                                                                         *)
(* A key is a number, a certificate the number of its key and the one of   *)
(* the key that signed it.  Generated keys are never the same.             *)
(***************************************************************************)
EXTENDS Integers, Sequences

CONSTANTS
  Missing, Torn,   \* a file that is not there, or only in part
  None,            \* no chain
  PackageMayGo,    \* the SGP.26 package may be removed again
  MaxStops         \* bound: stops of the process

Sgp26Ci  == 1   \* the published keys
Sgp26Eum == 2

Key         == Nat \ {0}
Certificate == [key : Key, issuer : Key]

ASSUME CertificatesAssumption ==
  /\ Missing # Torn
  /\ {Missing, Torn} \cap (Key \cup Certificate) = {}
  /\ None \notin [{"ci", "eum", "euicc"} -> [private : Key, cert : Certificate]]
  /\ None \notin [private : Key, cert : Certificate]
  /\ PackageMayGo \in BOOLEAN
  /\ MaxStops \in Nat

VARIABLES
  sgp26_eid,   \* the EID starts with SGP26_EID_PREFIX
  available,   \* the four files of the SGP.26 package are there
  disk,        \* the EID's files
  pki,         \* the chain in memory
  unwritten,   \* how many of its files are still to be written
  made,        \* the last key generated
  stops,       \* how often the process has been stopped
  identity     \* observer: the eUICC key and certificate in use, or used last

vars == <<sgp26_eid, available, disk, pki, unwritten, made, stops, identity>>

Names         == {"ci", "eum", "euicc"}
KeyPairBundle == [private : Key, cert : Certificate]

\* The files in the order they are written in; DER copies are never read.
Files ==
  << <<"private", "ci">>, <<"cert", "ci">>, <<"private", "eum">>, <<"cert", "eum">>,
     <<"private", "euicc">>, <<"cert", "euicc">> >>

File == {"private", "cert"} \X Names

Init ==
  /\ sgp26_eid \in BOOLEAN
  /\ available \in BOOLEAN
  /\ disk = [f \in File |-> Missing]
  /\ pki = None
  /\ unwritten = 0
  /\ made = Sgp26Eum
  /\ stops = 0
  /\ identity = None

----------------------------------------------------------------------------
(* Key pairs.                                                              *)

_generate_ci_root(k)       == [private |-> k, cert |-> [key |-> k, issuer |-> k]]
_generate_eum_cert(ci, k)  == [private |-> k, cert |-> [key |-> k, issuer |-> ci]]
_generate_euicc_cert(e, k) == [private |-> k, cert |-> [key |-> k, issuer |-> e]]

Exists(part, name)   == disk[<<part, name>>] # Missing
Readable(part, name) == disk[<<part, name>>] \notin {Missing, Torn}

\* Mutant: a file is loaded if it is there.
Loadable_exists(name) == Exists("private", name) /\ Exists("cert", name)

\* _load_key_pair raises unless both files can be read; it does not compare them.
Loadable(name) == Readable("private", name) /\ Readable("cert", name)

_load_key_pair(name) ==
  [private |-> disk[<<"private", name>>], cert |-> disk[<<"cert", name>>]]

_load_sgp26_chain ==
  [ci  |-> _generate_ci_root(Sgp26Ci), eum |-> _generate_eum_cert(Sgp26Ci, Sgp26Eum)]

\* Mutant: a certificate that cannot be read passes.
_euicc_cert_chains_to_unread(key) ==
  Readable("cert", "euicc") => disk[<<"cert", "euicc">>].issuer = key

\* Mutant: any certificate passes.
_euicc_cert_chains_to_any(key) == Readable("cert", "euicc") /\ key \in Key

\* Mutant: none does.
_euicc_cert_chains_to_none(key) == Readable("cert", "euicc") /\ key \notin Key

_euicc_cert_chains_to(key) ==
  Readable("cert", "euicc") /\ disk[<<"cert", "euicc">>].issuer = key

----------------------------------------------------------------------------
(* initialize.                                                             *)

\* The chain is in memory, n of its files are to be written.
Holds(chain, n) ==
  /\ pki' = chain
  /\ unwritten' = n
  /\ identity' = IF n = 0 THEN chain["euicc"] ELSE identity
  /\ UNCHANGED <<sgp26_eid, available, disk, stops>>

Chain(ci, eum, euicc) ==
  [n \in Names |-> CASE n = "ci" -> ci [] n = "eum" -> eum [] OTHER -> euicc]

Starts == pki = None

\* Mutant: the certificate is not looked at.
reuse_euicc_by_key == Exists("private", "euicc")

reuse_euicc == Exists("private", "euicc") /\ _euicc_cert_chains_to(Sgp26Eum)

\* Under the SGP.26 package: the certificate is used again or a new one issued.
initialize_sgp26 ==
  LET sgp26 == _load_sgp26_chain IN
  /\ Starts /\ sgp26_eid /\ available
  /\ \/ /\ reuse_euicc
        /\ Loadable("euicc")
        /\ Holds(Chain(sgp26.ci, sgp26.eum, _load_key_pair("euicc")), 0)
        /\ UNCHANGED made
     \/ /\ ~ reuse_euicc
        /\ made' = made + 1
        /\ Holds(Chain(sgp26.ci, sgp26.eum, _generate_euicc_cert(Sgp26Eum, made')), 2)

Local == Starts /\ ~ (sgp26_eid /\ available)

_load_existing ==
  /\ Local /\ Exists("private", "ci")
  /\ Loadable("ci") /\ Loadable("eum")
  /\ LET ci  == _load_key_pair("ci")
         eum == _load_key_pair("eum") IN
     \/ /\ Exists("private", "euicc")
        /\ Loadable("euicc")
        /\ Holds(Chain(ci, eum, _load_key_pair("euicc")), 0)
        /\ UNCHANGED made
     \/ /\ ~ Exists("private", "euicc")
        /\ made' = made + 1
        /\ Holds(Chain(ci, eum, _generate_euicc_cert(eum.private, made')), 2)

_generate_full_chain ==
  /\ Local /\ ~ Exists("private", "ci")
  /\ made' = made + 3
  /\ Holds(Chain(_generate_ci_root(made + 1), _generate_eum_cert(made + 1, made + 2),
                 _generate_euicc_cert(made + 2, made + 3)), 6)

\* _save_key_pair writes the key first.
NextFile == Files[7 - unwritten]

_save_key_pair ==
  /\ unwritten > 0
  /\ disk' = [disk EXCEPT ![NextFile] = pki[NextFile[2]][NextFile[1]]]
  /\ unwritten' = unwritten - 1
  /\ identity' = IF unwritten' = 0 THEN pki["euicc"] ELSE identity
  /\ UNCHANGED <<sgp26_eid, available, pki, made, stops>>

\* The process ends or is killed, or the eUICC is deleted and will be created
\* again; the file being written may be left in part.
Stop ==
  /\ pki # None
  /\ stops < MaxStops
  /\ stops' = stops + 1
  /\ pki' = None
  /\ unwritten' = 0
  /\ \/ disk' = disk
     \/ unwritten > 0 /\ disk' = [disk EXCEPT ![NextFile] = Torn]
  /\ UNCHANGED <<sgp26_eid, available, made, identity>>

PackageChanges ==
  /\ available => PackageMayGo
  /\ available' = ~ available
  /\ UNCHANGED <<sgp26_eid, disk, pki, unwritten, made, stops, identity>>

----------------------------------------------------------------------------

initialize == initialize_sgp26 \/ _load_existing \/ _generate_full_chain

Next == initialize \/ _save_key_pair \/ Stop \/ PackageChanges

Spec == Init /\ [][Next]_vars

\* An eUICC that is not there is created again, and its files get written.
FairSpec == Spec /\ WF_vars(initialize) /\ WF_vars(_save_key_pair)

----------------------------------------------------------------------------
(* Properties.                                                             *)

\* Files hold what belongs into them, and a chain in memory is complete.
TypeOK ==
  /\ sgp26_eid \in BOOLEAN /\ available \in BOOLEAN
  /\ DOMAIN disk = File
  /\ \A n \in Names : /\ disk[<<"private", n>>] \in Key \cup {Missing, Torn}
                      /\ disk[<<"cert", n>>] \in Certificate \cup {Missing, Torn}
  /\ pki \in [Names -> KeyPairBundle] \cup {None}
  /\ unwritten \in 0..6 /\ made \in Key /\ stops \in 0..MaxStops
  /\ identity \in KeyPairBundle \cup {None}

InService == pki # None /\ unwritten = 0

\* An eUICC in service can prove who it is: its certificate is for its key and
\* was issued by its EUM, whose certificate was issued by its CI, although each
\* file is written for itself, every start may have been cut off between any two
\* of them, and the EUM changes when the SGP.26 package is installed.
ServedChainHolds ==
  InService =>
    /\ \A n \in Names : pki[n].cert.key = pki[n].private
    /\ pki["euicc"].cert.issuer = pki["eum"].private
    /\ pki["eum"].cert.issuer = pki["ci"].private
    /\ pki["ci"].cert.issuer = pki["ci"].private

\* Restarts leave an eUICC its key and certificate, however they are timed; only
\* the change to the SGP.26 chain, once, gives it new ones.
KeepsIdentity ==
  [][identity # None /\ identity' # identity =>
       /\ sgp26_eid /\ available
       /\ identity.cert.issuer # Sgp26Eum]_vars

\* Whatever cut-off starts have left behind, an EID under the SGP.26 prefix gets
\* into service once the package stays installed and nothing kills the process.
HealsUnderSgp26 == sgp26_eid /\ <>[]available => <>[]InService

\* An eUICC that has been in service gets into service again after each stop,
\* also when a stop cuts off its change to the SGP.26 chain.
ComesBack == []<>(identity # None => InService)
=============================================================================
