-------------------------- MODULE ProfileDownload --------------------------
(***************************************************************************)
(* The IPA's profile download orchestrator for one eUICC: any number of    *)
(* start_download coroutines, each relaying eight calls between the eUICC  *)
(* and an SM-DP+, and cancel_download calls beside them.  A coroutine is   *)
(* suspended from sending a request until it takes the reply up, and       *)
(* everything else may run in between.  A call may also raise: the client  *)
(* timed out, the connection broke, the answer was an HTTP error.  Then    *)
(* the request is lost, is still to be served, or was served unnoticed.    *)
(***************************************************************************)
EXTENDS Es10bSession

CONSTANTS
  Triggered,   \* downloads run inside a poll task, which stop_polling cancels
  Cancels      \* cancel_download calls

ASSUME CallersAssumption == Triggered \subseteq Downloads

VARIABLES
  sessions,        \* the download under the eID in self.sessions, if any
  state,           \* DownloadSession.state
  transaction_id,  \* DownloadSession.transaction_id
  step,            \* the step a coroutine is in: 0 not started, Over
  request,         \* step whose request no server has served yet, 0 if none
  reply,           \* the reply on its way to the coroutine
  cancelling,      \* a cancel_download call: the download, where the call is
  smdp             \* external: the SM-DP+'s view of each transaction

ipaVars == <<sessions, state, transaction_id, step, request, reply, cancelling>>
vars    == <<euiccVars, ipaVars, smdp>>

LastStep == 8
Over     == LastStep + 1

DownloadState ==
  {"idle", "challenge_obtained", "auth_initiated", "server_authenticated",
   "client_authenticated", "download_prepared", "bpp_obtained",
   "profile_installed", "failed", "cancelled"}

Final == {"profile_installed", "failed", "cancelled"}

\* Where a cancel_download call is suspended, or has ended.
CancelStages ==
  {"new", "at_euicc", "euicc_ok", "euicc_error", "at_smdp", "smdp_answered",
   "euicc_unheard", "smdp_unheard", "returned", "raised"}

SmdpStates == {"unknown", "initiated", "authenticated", "bound", "cancelled"}

Init ==
  /\ SessionInit
  /\ sessions = {}
  /\ state = [d \in Downloads |-> "idle"]
  /\ transaction_id = [d \in Downloads |-> NoTransaction]
  /\ step = [d \in Downloads |-> 0]
  /\ request = [d \in Downloads |-> 0]
  /\ reply = [d \in Downloads |-> "none"]
  /\ cancelling = [c \in Cancels |-> [download |-> NoTransaction, at |-> "new"]]
  /\ smdp = [d \in Downloads |-> "unknown"]

----------------------------------------------------------------------------
(* The coroutine.                                                          *)

Awaiting(d) == step[d] \in 1..LastStep

start_download(d) ==
  /\ step[d] = 0
  /\ sessions' = {d}
  /\ step' = [step EXCEPT ![d] = 1]
  /\ request' = [request EXCEPT ![d] = 1]
  /\ UNCHANGED <<euiccVars, smdp, state, transaction_id, reply, cancelling>>

\* The state a step leaves behind; the second step does not set it.
StateAfter(k, old) ==
  IF k = 2 THEN old
  ELSE <<"challenge_obtained", "idle", "auth_initiated", "server_authenticated",
         "client_authenticated", "download_prepared", "bpp_obtained",
         "profile_installed">>[k]

\* Mutant: an error result of LoadBoundProfilePackage goes unnoticed.
StepReturns_unchecked(d) ==
  /\ Awaiting(d)
  /\ \/ reply[d] = "ok"
     \/ step[d] = LastStep /\ reply[d] = "error"
  /\ state' = [state EXCEPT ![d] = StateAfter(step[d], state[d])]
  /\ transaction_id' = [transaction_id EXCEPT ![d] = IF step[d] = 3 THEN d ELSE @]
  /\ step' = [step EXCEPT ![d] = @ + 1]
  /\ request' = [request EXCEPT ![d] = IF step[d] = LastStep THEN 0 ELSE step[d] + 1]
  /\ reply' = [reply EXCEPT ![d] = "none"]
  /\ UNCHANGED <<euiccVars, smdp, sessions, cancelling>>

\* Mutant: the last step is followed by another request.
StepReturns_no_end(d) ==
  /\ Awaiting(d)
  /\ reply[d] = "ok"
  /\ state' = [state EXCEPT ![d] = StateAfter(step[d], state[d])]
  /\ transaction_id' = [transaction_id EXCEPT ![d] = IF step[d] = 3 THEN d ELSE @]
  /\ step' = [step EXCEPT ![d] = @ + 1]
  /\ request' = [request EXCEPT ![d] = step[d] + 1]
  /\ reply' = [reply EXCEPT ![d] = "none"]
  /\ UNCHANGED <<euiccVars, smdp, sessions, cancelling>>

\* The awaited call returned: the step ends and, but for the last one, the
\* next one sends its request before the coroutine is suspended again.
StepReturns(d) ==
  /\ Awaiting(d)
  /\ reply[d] = "ok"
  /\ state' = [state EXCEPT ![d] = StateAfter(step[d], state[d])]
  /\ transaction_id' = [transaction_id EXCEPT ![d] = IF step[d] = 3 THEN d ELSE @]
  /\ step' = [step EXCEPT ![d] = @ + 1]
  /\ request' = [request EXCEPT ![d] = IF step[d] = LastStep THEN 0 ELSE step[d] + 1]
  /\ reply' = [reply EXCEPT ![d] = "none"]
  /\ UNCHANGED <<euiccVars, smdp, sessions, cancelling>>

\* Mutant: only error results are handled, exceptions of the client are not.
StepRaises_results_only(d) ==
  /\ Awaiting(d)
  /\ reply[d] = "error"
  /\ state' = [state EXCEPT ![d] = "failed"]
  /\ step' = [step EXCEPT ![d] = Over]
  /\ reply' = [reply EXCEPT ![d] = "none"]
  /\ request' = request
  /\ UNCHANGED <<euiccVars, smdp, sessions, transaction_id, cancelling>>

\* An error result, or an exception out of the client.  A request that no
\* server has served may be lost or may still be served.
StepRaises(d) ==
  /\ Awaiting(d)
  /\ state' = [state EXCEPT ![d] = "failed"]
  /\ step' = [step EXCEPT ![d] = Over]
  /\ reply' = [reply EXCEPT ![d] = "none"]
  /\ \E pending \in {request[d], 0} : request' = [request EXCEPT ![d] = pending]
  /\ UNCHANGED <<euiccVars, smdp, sessions, transaction_id, cancelling>>

\* stop_polling cancels the poll task: CancelledError is no Exception, so
\* nothing sets the state.
TaskCancelled(d) ==
  /\ d \in Triggered
  /\ Awaiting(d)
  /\ step' = [step EXCEPT ![d] = Over]
  /\ reply' = [reply EXCEPT ![d] = "none"]
  /\ \E pending \in {request[d], 0} : request' = [request EXCEPT ![d] = pending]
  /\ UNCHANGED <<euiccVars, smdp, sessions, state, transaction_id, cancelling>>

----------------------------------------------------------------------------
(* The servers.  GetEuiccInfo1 (step 2) reads only.                        *)

EuiccServes(d, result) ==
  \/ request[d] = 1 /\ result = "ok" /\ get_euicc_challenge(d)
  \/ request[d] = 2 /\ result = "ok" /\ UNCHANGED euiccVars
  \/ request[d] = 4 /\ authenticate_server(d, result)
  \/ request[d] = 6 /\ prepare_download(d, result)
  \/ request[d] = 8 /\ load_bound_profile_package(d, result)

\* External: InitiateAuthentication, AuthenticateClient and
\* GetBoundProfilePackage answer in this order, or with an error.
SmdpServes(d, result) ==
  \/ /\ result = "error" /\ request[d] \in {3, 5, 7}
     /\ UNCHANGED smdp
  \/ /\ result = "ok"
     /\ \/ request[d] = 3 /\ smdp[d] = "unknown"
           /\ smdp' = [smdp EXCEPT ![d] = "initiated"]
        \/ request[d] = 5 /\ smdp[d] = "initiated"
           /\ smdp' = [smdp EXCEPT ![d] = "authenticated"]
        \/ request[d] = 7 /\ smdp[d] = "authenticated"
           /\ smdp' = [smdp EXCEPT ![d] = "bound"]

\* A reply reaches the coroutine only while it waits for it.
Serve(d) ==
  /\ request[d] # 0
  /\ \E result \in Results :
       /\ \/ EuiccServes(d, result) /\ UNCHANGED smdp
          \/ SmdpServes(d, result) /\ UNCHANGED euiccVars
       /\ reply' = [reply EXCEPT ![d] = IF Awaiting(d) THEN result ELSE "none"]
  /\ request' = [request EXCEPT ![d] = 0]
  /\ UNCHANGED <<sessions, state, transaction_id, step, cancelling>>

----------------------------------------------------------------------------
(* cancel_download: the session looked up first is the one whose state is  *)
(* set last, with up to two calls awaited in between.                      *)

Moves(c, stage) == cancelling' = [cancelling EXCEPT ![c].at = stage]

cancel_download(c) ==
  /\ cancelling[c].at = "new"
  /\ \E d \in sessions :
       \/ /\ transaction_id[d] = NoTransaction
          /\ state' = [state EXCEPT ![d] = "cancelled"]
          /\ cancelling' = [cancelling EXCEPT ![c] = [download |-> d, at |-> "returned"]]
       \/ /\ transaction_id[d] # NoTransaction
          /\ cancelling' = [cancelling EXCEPT ![c] = [download |-> d, at |-> "at_euicc"]]
          /\ UNCHANGED state
  /\ UNCHANGED <<euiccVars, smdp, sessions, transaction_id, step, request, reply>>

EuiccCancels(c) ==
  /\ \/ /\ cancelling[c].at = "at_euicc"
        /\ \/ cancel_session(cancelling[c].download, "ok") /\ Moves(c, "euicc_ok")
           \/ cancel_session(cancelling[c].download, "error") /\ Moves(c, "euicc_error")
     \/ /\ cancelling[c].at = "euicc_unheard"
        /\ \E result \in Results : cancel_session(cancelling[c].download, result)
        /\ Moves(c, "raised")
  /\ UNCHANGED <<smdp, sessions, state, transaction_id, step, request, reply>>

SmdpCancels(c) ==
  /\ \/ cancelling[c].at = "at_smdp" /\ Moves(c, "smdp_answered")
     \/ cancelling[c].at = "smdp_unheard" /\ Moves(c, "raised")
  /\ smdp' = [smdp EXCEPT ![cancelling[c].download] = "cancelled"]
  /\ UNCHANGED <<euiccVars, sessions, state, transaction_id, step, request, reply>>

\* Mutant: the SM-DP+ is told whatever the eUICC answered.
cancel_forward_always(c) ==
  /\ cancelling[c].at \in {"euicc_ok", "euicc_error"}
  /\ Moves(c, "at_smdp")
  /\ UNCHANGED <<euiccVars, smdp, sessions, state, transaction_id, step, request, reply>>

cancel_forward(c) ==
  /\ cancelling[c].at = "euicc_ok"
  /\ Moves(c, "at_smdp")
  /\ UNCHANGED <<euiccVars, smdp, sessions, state, transaction_id, step, request, reply>>

cancel_return(c) ==
  /\ cancelling[c].at \in {"euicc_error", "smdp_answered"}
  /\ state' = [state EXCEPT ![cancelling[c].download] = "cancelled"]
  /\ Moves(c, "returned")
  /\ UNCHANGED <<euiccVars, smdp, sessions, transaction_id, step, request, reply>>

\* A call of cancel_download raises, and the exception leaves the route.
cancel_raises(c) ==
  /\ \/ /\ cancelling[c].at = "at_euicc"
        /\ \E stage \in {"euicc_unheard", "raised"} : Moves(c, stage)
     \/ /\ cancelling[c].at = "at_smdp"
        /\ \E stage \in {"smdp_unheard", "raised"} : Moves(c, stage)
     \/ /\ cancelling[c].at \in {"euicc_ok", "euicc_error", "smdp_answered"}
        /\ Moves(c, "raised")
  /\ UNCHANGED <<euiccVars, smdp, sessions, state, transaction_id, step, request, reply>>

----------------------------------------------------------------------------

CancelNext ==
  \E c \in Cancels :
    \/ cancel_download(c) \/ cancel_forward(c) \/ cancel_return(c)
    \/ cancel_raises(c) \/ EuiccCancels(c) \/ SmdpCancels(c)

Next ==
  \/ \E d \in Downloads :
       \/ start_download(d) \/ StepReturns(d) \/ StepRaises(d)
       \/ TaskCancelled(d) \/ Serve(d)
  \/ CancelNext

Spec == Init /\ [][Next]_vars

\* Both clients have a timeout, so no call is awaited for ever.
FairSpec ==
  Spec /\ \A d \in Downloads : WF_vars(StepReturns(d) \/ StepRaises(d))

----------------------------------------------------------------------------
(* Properties.                                                             *)

\* The session, the installations and the bookkeeping of both sides are typed.
TypeOK ==
  /\ Card!TypeOK
  /\ active_session \subseteq DownloadSession
  /\ \A s, t \in active_session : s = t
  /\ installs \subseteq Installation
  /\ sessions \subseteq Downloads
  /\ state \in [Downloads -> DownloadState]
  /\ transaction_id \in [Downloads -> Downloads \cup {NoTransaction}]
  /\ step \in [Downloads -> 0..Over]
  /\ request \in [Downloads -> 0..LastStep]
  /\ reply \in [Downloads -> Results \cup {"none"}]
  /\ cancelling \in [Cancels -> [download : Downloads \cup {NoTransaction},
                                at       : CancelStages]]
  /\ smdp \in [Downloads -> SmdpStates]

\* However the calls of several downloads and late requests interleave, the
\* eUICC's session is prepared only for the transaction it authenticated, that
\* transaction answers the challenge of this very session, and its keys belong
\* to it although AuthenticateServer resets neither flag nor keys.
SessionConsistent ==
  \A s \in active_session :
    /\ s.authenticated => s.transaction_id = s.euicc_challenge
    /\ s.prepared => s.authenticated
    /\ s.session_keys \in {s.transaction_id, NoTransaction}

\* An authenticated transaction installs at most one profile: the session is
\* closed by the installation, whoever's package it was.
OneInstallPerTransaction ==
  \A i, j \in installs : i.transaction = j.transaction => i = j

\* What the orchestrator reports as installed was installed by its own request.
ReportedInstalled ==
  \A d \in Downloads :
    state[d] = "profile_installed" => \E i \in installs : i.package = d

\* Every package is installed in the session of its own transaction.
InstalledUnderOwnTransaction ==
  \A i \in installs : i.package = i.transaction

\* cancel_download promises to "cancel an active download session" and the
\* console to "abort an in-flight profile download": once a call has reported a
\* download as cancelled, that download installs nothing any more.
CancelledInstallsNothing ==
  [][\A c \in Cancels :
       cancelling[c].at = "returned" =>
         \A i \in installs' \ installs : i.package # cancelling[c].download]_vars

\* A download that was started, and is not cancelled with its poll task, comes
\* to an end in a final state, whatever the servers do and however it is
\* overtaken by others.
DownloadEnds ==
  \A d \in Downloads \ Triggered :
    step[d] = 1 ~> step[d] = Over /\ state[d] \in Final

----------------------------------------------------------------------------
(* The abstract promise, see InstallPermit: the permit is a prepared       *)
(* session.                                                                *)

Permit == {s.transaction_id : s \in {t \in active_session : t.prepared}}

Promise == INSTANCE InstallPermit
             WITH Transaction <- Downloads, permit <- Permit,
                  spent   <- {i.transaction : i \in installs},
                  revoked <- {d \in Downloads : smdp[d] = "cancelled"}

\* Installations spend permits: no transaction installs twice, and none does
\* after the SM-DP+ was told that it is cancelled.
ImplementsInstallPermit == Promise!Spec
============================================================================
