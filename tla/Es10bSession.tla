---------------------------- MODULE Es10bSession ----------------------------
(***************************************************************************)
(* The profile download functions of ES10b: one DownloadSession per eUICC, *)
(* opened by GetEuiccChallenge and replaced by the next one, carried       *)
(* through AuthenticateServer and PrepareDownload, and closed by           *)
(* LoadBoundProfilePackage or CancelSession.                               *)
(*                                                                         *)
(* Random values are distinct, so each is named after the download attempt *)
(* it was drawn for: the eUICC challenge, the SM-DP+ transaction opened    *)
(* with it (one InitiateAuthentication per challenge), the signatures over *)
(* that transaction and the one-time keys.  A session whose transaction is *)
(* d therefore holds the euiccSignature1 of d, which is what smdpSignature2*)
(* of d is bound to.  A call returns "ok" or "error"; which error code it  *)
(* is makes no difference to a caller.                                     *)
(***************************************************************************)
EXTENDS Integers, Sequences, FiniteSets

CONSTANTS
  Iccids, Sizes, DefaultSize, TotalNvm, InitialFreeNvm, MaxProfiles,
  MaxPreloads, MaxSeq,   \* see EuiccProfiles
  Downloads,             \* download attempts
  NoTransaction,         \* the empty transaction id, and absent session keys
  BppNamesTransaction    \* the package is a dict with a transactionId; FALSE:
                         \* the base64 string an SM-DP+ sends, whose walk in
                         \* the route leaves the transactionId unparsed

ASSUME TransactionAssumption ==
  /\ NoTransaction \notin Downloads
  /\ BppNamesTransaction \in BOOLEAN

\* What EuiccProfiles assumes of its constants.
ASSUME SlotsAssumption ==
  /\ DefaultSize \in Nat \ {0} /\ Sizes \subseteq Nat \ {0}
  /\ TotalNvm \in Nat /\ InitialFreeNvm \in Nat
  /\ InitialFreeNvm + MaxPreloads * DefaultSize <= TotalNvm
  /\ MaxPreloads \in Nat /\ MaxProfiles \in Nat /\ MaxSeq \in Nat
  /\ MaxPreloads <= MaxProfiles

VARIABLES
  profiles, free_nvm, notifications, notification_seq,   \* see EuiccProfiles
  active_session,   \* the session, as a set of at most one
  installs          \* observer: which package was installed in which session

Card == INSTANCE EuiccProfiles

cardVars    == <<profiles, free_nvm, notifications, notification_seq>>
sessionVars == <<active_session, installs>>
euiccVars   == <<cardVars, sessionVars>>

Results == {"ok", "error"}

DownloadSession ==
  [euicc_challenge : Downloads,
   transaction_id  : Downloads \cup {NoTransaction},
   session_keys    : Downloads \cup {NoTransaction},
   authenticated   : BOOLEAN,
   prepared        : BOOLEAN]

Installation ==
  [package      : Downloads,
   transaction  : Downloads \cup {NoTransaction},
   session_keys : Downloads \cup {NoTransaction}]

SessionInit ==
  /\ Card!CreateWith(<<>>)
  /\ active_session = {}
  /\ installs = {}

----------------------------------------------------------------------------

\* Mutant: the challenge of an open session is renewed, the rest of it kept.
get_euicc_challenge_renewed(d) ==
  /\ active_session' =
       IF active_session = {}
       THEN {[euicc_challenge |-> d, transaction_id |-> NoTransaction,
              session_keys |-> NoTransaction, authenticated |-> FALSE,
              prepared |-> FALSE]}
       ELSE {[s EXCEPT !.euicc_challenge = d] : s \in active_session}
  /\ UNCHANGED <<cardVars, installs>>

get_euicc_challenge(d) ==
  /\ active_session' =
       {[euicc_challenge |-> d, transaction_id |-> NoTransaction,
         session_keys |-> NoTransaction, authenticated |-> FALSE,
         prepared |-> FALSE]}
  /\ UNCHANGED <<cardVars, installs>>

\* The server's CI, certificate or signature may always be refused; prepared
\* and session_keys keep their values.
authenticate_server(d, result) ==
  /\ \/ /\ result = "error"
        /\ UNCHANGED active_session
     \/ /\ result = "ok"
        /\ \E s \in active_session :
             /\ s.euicc_challenge = d
             /\ active_session' = {[s EXCEPT !.transaction_id = d,
                                             !.authenticated = TRUE]}
  /\ UNCHANGED <<cardVars, installs>>

\* Keys are derived only if the SM-DP+ sent its one-time key.
prepare_download(d, result) ==
  /\ \/ /\ result = "error"
        /\ UNCHANGED active_session
     \/ /\ result = "ok"
        /\ \E s \in active_session :
             /\ s.authenticated
             /\ s.transaction_id = d
             /\ \E keys \in {d, s.session_keys} :
                  active_session' = {[s EXCEPT !.session_keys = keys,
                                               !.prepared = TRUE]}
  /\ UNCHANGED <<cardVars, installs>>

\* The transaction ids the route leaves in the parsed package of d: the walk
\* over the DER of a package in wire form keeps that field raw.
_walk_bpp_der(d) == IF BppNamesTransaction THEN {d} ELSE {}

\* Mutant: the transaction id of the package is not compared.
Loadable_any(s, d) == s.prepared

Loadable(s, d) ==
  s.prepared /\ \A t \in _walk_bpp_der(d) : s.transaction_id = t

\* Mutant: the session stays open after the installation.
load_bound_profile_package_open(d, result) ==
  \/ /\ result = "ok"
     /\ \E s \in active_session :
          /\ Loadable(s, d)
          /\ \E i \in Iccids, size \in Sizes \cup {DefaultSize} :
               Card!install_profile(i, size)
          /\ installs' = installs \cup
               {[package |-> d, transaction |-> s.transaction_id,
                 session_keys |-> s.session_keys]}
     /\ UNCHANGED active_session
  \/ /\ result = "error"
     /\ \A s \in active_session : ~ Loadable(s, d)
     /\ UNCHANGED euiccVars

\* The package of d is installed in whatever session is prepared.  A failed
\* MAC is logged and the data installed as they are, so neither the keys nor
\* the package decide whether it succeeds: only the session and the memory do.
load_bound_profile_package(d, result) ==
  \/ /\ result = "ok"
     /\ \E s \in active_session :
          /\ Loadable(s, d)
          /\ \E i \in Iccids, size \in Sizes \cup {DefaultSize} :
               Card!install_profile(i, size)
          /\ installs' = installs \cup
               {[package |-> d, transaction |-> s.transaction_id,
                 session_keys |-> s.session_keys]}
     /\ active_session' = {}
  \/ /\ result = "error"
     /\ \/ \A s \in active_session : ~ Loadable(s, d)
        \/ \E size \in Sizes \cup {DefaultSize} : size > free_nvm
        \/ Len(profiles) >= MaxProfiles
     /\ UNCHANGED euiccVars

cancel_session(d, result) ==
  /\ \/ /\ result = "ok"
        /\ \E s \in active_session : s.transaction_id = d
        /\ active_session' = {}
     \/ /\ result = "error"
        /\ \A s \in active_session : s.transaction_id # d
        /\ UNCHANGED active_session
  /\ UNCHANGED <<cardVars, installs>>
============================================================================
