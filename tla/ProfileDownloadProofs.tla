----------------------- MODULE ProfileDownloadProofs -----------------------
(***************************************************************************)
(* Proofs about ProfileDownload for any set of downloads and cancel calls, *)
(* however their requests are lost, late or interleaved.                   *)
(*                                                                         *)
(* The argument: a transaction is authenticated by the one request of step *)
(* 4.  Once that request was served or given up for good (Passed), no      *)
(* session can take the transaction on again, so a transaction that left   *)
(* the session by an installation or a cancellation has left it for ever.  *)
(***************************************************************************)
EXTENDS ProfileDownload, TLAPS

\* The request of step 4 has been served, or its reply is never coming.
Passed(d) == step[d] >= 4 /\ request[d] \notin 1..4

Spent == {i.transaction : i \in installs}

\* Stages of a cancel call that end, or may end, in telling the SM-DP+.
Told == {"euicc_ok", "at_smdp", "smdp_unheard"}

\* Transactions the eUICC cancelled for a call that may tell the SM-DP+.
GivenUp ==
  {d \in Downloads :
     \/ smdp[d] = "cancelled"
     \/ \E c \in Cancels : cancelling[c].at \in Told /\ cancelling[c].download = d}

Shape ==
  /\ active_session \subseteq DownloadSession
  /\ \A s, t \in active_session : s = t
  /\ sessions \subseteq Downloads
  /\ state \in [Downloads -> DownloadState]
  /\ step \in [Downloads -> 0..Over]
  /\ request \in [Downloads -> 0..LastStep]
  /\ reply \in [Downloads -> Results \cup {"none"}]
  /\ cancelling \in [Cancels -> [download : Downloads \cup {NoTransaction},
                                at       : CancelStages]]
  /\ smdp \in [Downloads -> SmdpStates]
  /\ \A c \in Cancels : cancelling[c].at # "new" => cancelling[c].download \in Downloads

Calls ==
  \A d \in Downloads :
    /\ request[d] <= step[d]
    /\ Awaiting(d) => request[d] \in {0, step[d]}
    /\ reply[d] # "none" => Awaiting(d)

Reported ==
  \A d \in Downloads :
    \/ state[d] = "profile_installed"
    \/ reply[d] = "ok" /\ step[d] = LastStep
    => \E i \in installs : i.package = d

Transactions ==
  /\ \A s \in active_session : ~ s.authenticated => s.transaction_id = NoTransaction
  /\ \A s \in active_session :
       s.transaction_id # NoTransaction =>
         /\ s.transaction_id \in Downloads /\ Passed(s.transaction_id)
         /\ s.transaction_id \notin Spent \cup GivenUp
  /\ \A t \in Spent : t \in Downloads /\ Passed(t) /\ t \notin GivenUp
  /\ \A t \in GivenUp : Passed(t)

Inv ==
  /\ Shape
  /\ Calls
  /\ Reported
  /\ SessionConsistent
  /\ OneInstallPerTransaction
  /\ Transactions

LEMMA InitInv == Init => Inv
<1> SUFFICES ASSUME Init PROVE Inv
  OBVIOUS
<1>1. /\ active_session = {} /\ installs = {} /\ sessions = {}
      /\ state = [d \in Downloads |-> "idle"]
      /\ step = [d \in Downloads |-> 0]
      /\ request = [d \in Downloads |-> 0]
      /\ reply = [d \in Downloads |-> "none"]
      /\ cancelling = [c \in Cancels |-> [download |-> NoTransaction, at |-> "new"]]
      /\ smdp = [d \in Downloads |-> "unknown"]
  BY DEF Init, SessionInit
<1>2. Spent = {} /\ GivenUp = {}
  BY <1>1 DEF Spent, GivenUp, Told
<1>3. Shape
  BY <1>1 DEF Shape, DownloadState, Over, LastStep, CancelStages, SmdpStates
<1>4. Calls /\ Reported
  BY <1>1 DEF Calls, Reported, Awaiting, LastStep
<1> QED  BY <1>1, <1>2, <1>3, <1>4 DEF Inv, SessionConsistent, OneInstallPerTransaction, Transactions

----------------------------------------------------------------------------
(* What the steps leave alone.                                             *)

\* A step that installs nothing, takes no transaction on and gives none up
\* keeps every fact about transactions.
LEMMA TransactionsKept ==
  ASSUME SessionConsistent, OneInstallPerTransaction, Transactions,
         \A d \in Downloads : Passed(d) => Passed(d)',
         installs' = installs, GivenUp' \subseteq GivenUp,
         active_session' \subseteq active_session
  PROVE  SessionConsistent' /\ OneInstallPerTransaction' /\ Transactions'
<1>1. Spent' = Spent
  BY DEF Spent
<1>2. GivenUp \subseteq Downloads
  BY DEF GivenUp
<1> QED
  BY <1>1, <1>2 DEF SessionConsistent, OneInstallPerTransaction, Transactions

\* Moving one coroutine on.
LEMMA StartInv ==
  ASSUME Inv, NEW d \in Downloads, start_download(d)
  PROVE  Inv'
<1>1. /\ step[d] = 0 /\ sessions' = {d}
      /\ step' = [step EXCEPT ![d] = 1] /\ request' = [request EXCEPT ![d] = 1]
      /\ active_session' = active_session /\ installs' = installs
      /\ smdp' = smdp /\ state' = state /\ reply' = reply /\ cancelling' = cancelling
  BY DEF start_download, euiccVars, sessionVars
<1>2. Shape'
  BY <1>1 DEF Inv, Shape, Over, LastStep
<1>3. Calls'
  BY <1>1 DEF Inv, Shape, Calls, Awaiting, Over, LastStep
<1>4. Reported'
  BY <1>1 DEF Inv, Shape, Calls, Reported, Awaiting, Over, LastStep
<1>5. \A e \in Downloads : Passed(e) => Passed(e)'
  BY <1>1 DEF Inv, Shape, Passed
<1>6. GivenUp' = GivenUp
  BY <1>1 DEF GivenUp
<1> QED  BY <1>1, <1>2, <1>3, <1>4, <1>5, <1>6, TransactionsKept DEF Inv

LEMMA ReturnInv ==
  ASSUME Inv, NEW d \in Downloads, StepReturns(d)
  PROVE  Inv'
<1>1. /\ Awaiting(d) /\ reply[d] = "ok"
      /\ state' = [state EXCEPT ![d] = StateAfter(step[d], state[d])]
      /\ step' = [step EXCEPT ![d] = step[d] + 1]
      /\ request' = [request EXCEPT ![d] = IF step[d] = LastStep THEN 0 ELSE step[d] + 1]
      /\ reply' = [reply EXCEPT ![d] = "none"]
      /\ active_session' = active_session /\ installs' = installs
      /\ smdp' = smdp /\ sessions' = sessions /\ cancelling' = cancelling
  BY DEF StepReturns, euiccVars, sessionVars, Inv, Shape
<1>2. step[d] \in 1..8
  BY <1>1 DEF Awaiting, LastStep
<1>3. /\ StateAfter(step[d], state[d]) \in DownloadState
      /\ StateAfter(step[d], state[d]) = "profile_installed" =>
           step[d] = 8 \/ state[d] = "profile_installed"
  <2>1. state[d] \in DownloadState
    BY DEF Inv, Shape
  <2>2. step[d] = 1 \/ step[d] = 2 \/ step[d] = 3 \/ step[d] = 4 \/ step[d] = 5
        \/ step[d] = 6 \/ step[d] = 7 \/ step[d] = 8
    BY <1>2
  <2> QED  BY <2>1, <2>2 DEF StateAfter, DownloadState
<1>4. Shape'
  BY <1>1, <1>2, <1>3 DEF Inv, Shape, Over, LastStep
<1>5. Calls'
  BY <1>1, <1>2 DEF Inv, Shape, Calls, Awaiting, Over, LastStep
<1>6. Reported'
  BY <1>1, <1>2, <1>3 DEF Inv, Shape, Reported, LastStep
<1>7. \A e \in Downloads : Passed(e) => Passed(e)'
  BY <1>1, <1>2 DEF Inv, Shape, Passed, Over, LastStep
<1>8. GivenUp' = GivenUp
  BY <1>1 DEF GivenUp
<1> QED  BY <1>1, <1>4, <1>5, <1>6, <1>7, <1>8, TransactionsKept DEF Inv

\* A coroutine that ends early, with state s.
LEMMA EndInv ==
  ASSUME Inv, NEW d \in Downloads, NEW s \in {"failed", state[d]}, Awaiting(d),
         state' = [state EXCEPT ![d] = s],
         step' = [step EXCEPT ![d] = Over],
         reply' = [reply EXCEPT ![d] = "none"],
         NEW pending \in {request[d], 0}, request' = [request EXCEPT ![d] = pending],
         UNCHANGED <<euiccVars, smdp, sessions, cancelling>>
  PROVE  Inv'
<1>1. /\ active_session' = active_session /\ installs' = installs
      /\ smdp' = smdp /\ sessions' = sessions /\ cancelling' = cancelling
  BY DEF euiccVars, sessionVars
<1>2. step[d] \in 1..8
  BY DEF Awaiting, LastStep
<1>3. Shape'
  BY <1>1, <1>2 DEF Inv, Shape, Over, LastStep, DownloadState
<1>4. Calls'
  BY <1>1, <1>2 DEF Inv, Shape, Calls, Awaiting, Over, LastStep
<1>5. Reported'
  BY <1>1, <1>2 DEF Inv, Shape, Reported, Over, LastStep
<1>6. \A e \in Downloads : Passed(e) => Passed(e)'
  BY <1>1, <1>2 DEF Inv, Shape, Calls, Passed, Over, LastStep
<1>7. GivenUp' = GivenUp
  BY <1>1 DEF GivenUp
<1> QED  BY <1>1, <1>3, <1>4, <1>5, <1>6, <1>7, TransactionsKept DEF Inv

LEMMA RaiseInv ==
  ASSUME Inv, NEW d \in Downloads, StepRaises(d)
  PROVE  Inv'
<1>1. PICK pending \in {request[d], 0} : request' = [request EXCEPT ![d] = pending]
  BY DEF StepRaises
<1>2. /\ Awaiting(d)
      /\ state' = [state EXCEPT ![d] = "failed"]
      /\ step' = [step EXCEPT ![d] = Over]
      /\ reply' = [reply EXCEPT ![d] = "none"]
      /\ UNCHANGED <<euiccVars, smdp, sessions, cancelling>>
  BY DEF StepRaises
<1> QED  BY <1>1, <1>2, EndInv

LEMMA TaskCancelledInv ==
  ASSUME Inv, NEW d \in Downloads, TaskCancelled(d)
  PROVE  Inv'
<1>1. PICK pending \in {request[d], 0} : request' = [request EXCEPT ![d] = pending]
  BY DEF TaskCancelled
<1>2. /\ Awaiting(d) /\ state' = state
      /\ step' = [step EXCEPT ![d] = Over]
      /\ reply' = [reply EXCEPT ![d] = "none"]
      /\ UNCHANGED <<euiccVars, smdp, sessions, cancelling>>
  BY DEF TaskCancelled
<1>3. state' = [state EXCEPT ![d] = state[d]]
  BY <1>2 DEF Inv, Shape
<1> QED  BY <1>1, <1>2, <1>3, EndInv

----------------------------------------------------------------------------
(* A server's answer.                                                      *)

Served(d, result) ==
  /\ request[d] # 0
  /\ reply' = [reply EXCEPT ![d] = IF Awaiting(d) THEN result ELSE "none"]
  /\ request' = [request EXCEPT ![d] = 0]
  /\ UNCHANGED <<sessions, state, step, cancelling>>

\* Only the answer of the last step needs an installation to go with it.
LEMMA ServedFacts ==
  ASSUME Inv, NEW d \in Downloads, NEW result \in Results, Served(d, result),
         installs \subseteq installs',
         request[d] = 8 /\ result = "ok" => \E i \in installs' : i.package = d
  PROVE  /\ Calls' /\ Reported'
         /\ \A e \in Downloads : Passed(e) => Passed(e)'
         /\ request[d] = 4 => Passed(d)'
<1>1. /\ request[d] # 0
      /\ reply' = [reply EXCEPT ![d] = IF Awaiting(d) THEN result ELSE "none"]
      /\ request' = [request EXCEPT ![d] = 0]
      /\ state' = state /\ step' = step
  BY DEF Served
<1>2. Calls'
  BY <1>1 DEF Inv, Shape, Calls, Awaiting, Results
<1>3. ASSUME NEW e \in Downloads, state'[e] = "profile_installed" \/ (reply'[e] = "ok" /\ step'[e] = LastStep)
      PROVE  \E i \in installs' : i.package = e
  <2>1. CASE state[e] = "profile_installed" \/ (reply[e] = "ok" /\ step[e] = LastStep)
    BY <2>1 DEF Inv, Reported
  <2>2. CASE ~ (state[e] = "profile_installed" \/ (reply[e] = "ok" /\ step[e] = LastStep))
    <3>1. e = d /\ Awaiting(d) /\ result = "ok" /\ step[d] = 8
      BY <1>1, <1>3, <2>2 DEF Inv, Shape, LastStep
    <3>2. request[d] = 8
      BY <1>1, <3>1 DEF Inv, Calls
    <3> QED  BY <3>1, <3>2
  <2> QED  BY <2>1, <2>2
<1>4. \A e \in Downloads : Passed(e) => Passed(e)'
  BY <1>1 DEF Inv, Shape, Passed
<1>5. request[d] = 4 => Passed(d)'
  BY <1>1 DEF Inv, Shape, Calls, Passed
<1> QED  BY <1>2, <1>3, <1>4, <1>5 DEF Reported

LEMMA ServedShape ==
  ASSUME Inv, NEW d \in Downloads, NEW result \in Results, Served(d, result),
         active_session' \subseteq DownloadSession,
         \A s, t \in active_session' : s = t,
         smdp' \in [Downloads -> SmdpStates]
  PROVE  Shape'
<1>1. /\ reply' = [reply EXCEPT ![d] = IF Awaiting(d) THEN result ELSE "none"]
      /\ request' = [request EXCEPT ![d] = 0]
      /\ sessions' = sessions /\ state' = state /\ step' = step /\ cancelling' = cancelling
  BY DEF Served
<1>2. (IF Awaiting(d) THEN result ELSE "none") \in Results \cup {"none"}
  OBVIOUS
<1>3. /\ reply' \in [Downloads -> Results \cup {"none"}]
      /\ request' \in [Downloads -> 0..LastStep]
  BY <1>1, <1>2 DEF Inv, Shape, LastStep
<1> QED  BY <1>1, <1>3 DEF Inv, Shape

\* A new session, or a new version of it, that respects the transactions.
LEMMA SessionReplaced ==
  ASSUME Inv, \A d \in Downloads : Passed(d) => Passed(d)',
         installs' = installs, GivenUp' = GivenUp,
         \A s \in active_session' :
           /\ s.transaction_id =
                IF s.authenticated THEN s.euicc_challenge ELSE NoTransaction
           /\ s.prepared => s.authenticated
           /\ s.session_keys \in {s.transaction_id, NoTransaction}
           /\ s.transaction_id # NoTransaction =>
                /\ s.transaction_id \in Downloads /\ Passed(s.transaction_id)'
                /\ s.transaction_id \notin Spent \cup GivenUp
  PROVE  SessionConsistent' /\ OneInstallPerTransaction' /\ Transactions'
<1>1. Spent' = Spent /\ GivenUp \subseteq Downloads
  BY DEF Spent, GivenUp
<1> QED
  BY <1>1 DEF Inv, SessionConsistent, OneInstallPerTransaction, Transactions

LEMMA ChallengeInv ==
  ASSUME Inv, NEW d \in Downloads, Served(d, "ok"), request[d] = 1,
         get_euicc_challenge(d), smdp' = smdp
  PROVE  Inv'
<1> DEFINE new == [euicc_challenge |-> d, transaction_id |-> NoTransaction,
                   session_keys |-> NoTransaction, authenticated |-> FALSE,
                   prepared |-> FALSE]
<1>1. active_session' = {new} /\ installs' = installs
  BY DEF get_euicc_challenge
<1>2. new \in DownloadSession
  BY DEF DownloadSession
<1>3. /\ ~ new.authenticated /\ ~ new.prepared
      /\ new.session_keys = NoTransaction /\ new.transaction_id = NoTransaction
  OBVIOUS
<1> HIDE DEF new
<1>4. Shape'
  BY <1>1, <1>2, ServedShape DEF Results, Inv, Shape
<1>5. Calls' /\ Reported' /\ \A e \in Downloads : Passed(e) => Passed(e)'
  BY <1>1, ServedFacts DEF Results
<1>6. GivenUp' = GivenUp
  BY DEF GivenUp, Served
<1>7. SessionConsistent' /\ OneInstallPerTransaction' /\ Transactions'
  BY <1>1, <1>3, <1>5, <1>6, SessionReplaced
<1> QED  BY <1>4, <1>5, <1>7 DEF Inv

\* A request whose serving leaves the eUICC as it is: GetEuiccInfo1, the
\* SM-DP+'s answers, and every error result.
LEMMA IdleServeInv ==
  ASSUME Inv, NEW d \in Downloads, NEW result \in Results, Served(d, result),
         ~ (request[d] = 8 /\ result = "ok"),
         active_session' = active_session, installs' = installs,
         smdp' = smdp \/ SmdpServes(d, result)
  PROVE  Inv'
<1>1. /\ smdp' \in [Downloads -> SmdpStates]
      /\ \A e \in Downloads : smdp'[e] = "cancelled" => smdp[e] = "cancelled"
  BY DEF SmdpServes, SmdpStates, Inv, Shape
<1>2. Shape'
  BY <1>1, ServedShape DEF Inv, Shape
<1>3. Calls' /\ Reported' /\ \A e \in Downloads : Passed(e) => Passed(e)'
  BY ServedFacts
<1>4. GivenUp' \subseteq GivenUp
  BY <1>1 DEF GivenUp, Served
<1> QED  BY <1>2, <1>3, <1>4, TransactionsKept DEF Inv

\* Step 4: nobody can have spent or given up d, for its request was pending.
LEMMA AuthenticateInv ==
  ASSUME Inv, NEW d \in Downloads, NEW s \in active_session,
         Served(d, "ok"), request[d] = 4, s.euicc_challenge = d,
         active_session' = {[s EXCEPT !.transaction_id = d, !.authenticated = TRUE]},
         installs' = installs, smdp' = smdp
  PROVE  Inv'
<1> DEFINE new == [s EXCEPT !.transaction_id = d, !.authenticated = TRUE]
<1>1. s \in DownloadSession
  BY DEF Inv, Shape
<1>2. new \in DownloadSession
  BY <1>1 DEF DownloadSession
<1>3. /\ new.transaction_id = d /\ new.authenticated /\ new.euicc_challenge = d
      /\ new.session_keys = s.session_keys /\ new.prepared = s.prepared
  BY <1>1 DEF DownloadSession
<1>4. ~ Passed(d)
  BY DEF Passed
<1>5. ~ s.authenticated /\ ~ s.prepared /\ s.session_keys = NoTransaction
  <2>1. ~ s.authenticated
    BY <1>4, TransactionAssumption DEF Inv, SessionConsistent, Transactions
  <2> QED  BY <2>1 DEF Inv, SessionConsistent, Transactions
<1>6. d \notin Spent \cup GivenUp
  BY <1>4 DEF Inv, Transactions
<1>7. active_session' = {new}
  OBVIOUS
<1> HIDE DEF new
<1>8. Shape'
  BY <1>2, <1>7, ServedShape DEF Results, Inv, Shape
<1>9. Calls' /\ Reported' /\ Passed(d)' /\ \A e \in Downloads : Passed(e) => Passed(e)'
  BY ServedFacts DEF Results
<1>10. GivenUp' = GivenUp
  BY DEF GivenUp, Served
<1>11. SessionConsistent' /\ OneInstallPerTransaction' /\ Transactions'
  BY <1>3, <1>5, <1>6, <1>7, <1>9, <1>10, SessionReplaced
<1> QED  BY <1>8, <1>9, <1>11 DEF Inv

\* Step 6: the transaction stays what it is.
LEMMA PrepareInv ==
  ASSUME Inv, NEW d \in Downloads, NEW s \in active_session,
         NEW keys \in {d, s.session_keys},
         Served(d, "ok"), request[d] = 6, s.authenticated, s.transaction_id = d,
         active_session' = {[s EXCEPT !.session_keys = keys, !.prepared = TRUE]},
         installs' = installs, smdp' = smdp
  PROVE  Inv'
<1> DEFINE new == [s EXCEPT !.session_keys = keys, !.prepared = TRUE]
<1>1. s \in DownloadSession /\ s.session_keys \in {d, NoTransaction}
  BY DEF Inv, Shape, SessionConsistent
<1>2. new \in DownloadSession
  BY <1>1 DEF DownloadSession
<1>3. /\ new.transaction_id = d /\ new.authenticated /\ new.session_keys = keys
      /\ new.euicc_challenge = s.euicc_challenge
  BY <1>1 DEF DownloadSession
<1>4. s.euicc_challenge = d /\ Passed(d) /\ d \notin Spent \cup GivenUp
  BY TransactionAssumption DEF Inv, SessionConsistent, Transactions
<1>5. active_session' = {new}
  OBVIOUS
<1> HIDE DEF new
<1>6. Shape'
  BY <1>2, <1>5, ServedShape DEF Results, Inv, Shape
<1>7. Calls' /\ Reported' /\ \A e \in Downloads : Passed(e) => Passed(e)'
  BY ServedFacts DEF Results
<1>8. GivenUp' = GivenUp
  BY DEF GivenUp, Served
<1>9. SessionConsistent' /\ OneInstallPerTransaction' /\ Transactions'
  BY <1>1, <1>3, <1>4, <1>5, <1>7, <1>8, SessionReplaced
<1> QED  BY <1>6, <1>7, <1>9 DEF Inv

\* A prepared session names a transaction.
LEMMA PreparedTransaction ==
  ASSUME Inv, NEW s \in active_session, s.prepared
  PROVE  /\ s.transaction_id \in Downloads /\ Passed(s.transaction_id)
         /\ s.transaction_id = s.euicc_challenge
         /\ s.transaction_id \notin Spent \cup GivenUp
<1>1. s.transaction_id = s.euicc_challenge /\ s.euicc_challenge \in Downloads
  BY DEF Inv, Shape, SessionConsistent, DownloadSession
<1> QED  BY <1>1, TransactionAssumption DEF Inv, Transactions

\* Step 8: the transaction of the session, which is d's or another's, is spent.
LEMMA LoadInv ==
  ASSUME Inv, NEW d \in Downloads, NEW s \in active_session,
         Served(d, "ok"), request[d] = 8, s.prepared,
         installs' = installs \cup
           {[package |-> d, transaction |-> s.transaction_id,
             session_keys |-> s.session_keys]},
         active_session' = {}, smdp' = smdp
  PROVE  Inv'
<1> DEFINE new == [package |-> d, transaction |-> s.transaction_id,
                   session_keys |-> s.session_keys]
<1>1. new.package = d /\ new.transaction = s.transaction_id
  OBVIOUS
<1>2. installs' = installs \cup {new}
  OBVIOUS
<1> HIDE DEF new
<1>3. Spent' = Spent \cup {s.transaction_id}
  BY <1>1, <1>2 DEF Spent
<1>4. Shape'
  BY ServedShape DEF Results, Inv, Shape
<1>5. Calls' /\ Reported' /\ \A e \in Downloads : Passed(e) => Passed(e)'
  BY <1>1, <1>2, ServedFacts DEF Results
<1>6. GivenUp' = GivenUp /\ GivenUp \subseteq Downloads
  BY DEF GivenUp, Served
<1>7. /\ s.transaction_id \in Downloads /\ Passed(s.transaction_id)
      /\ s.transaction_id \notin Spent \cup GivenUp
  BY PreparedTransaction
<1>8. OneInstallPerTransaction'
  BY <1>1, <1>2, <1>7 DEF Spent, Inv, OneInstallPerTransaction
<1>9. SessionConsistent' /\ Transactions'
  BY <1>3, <1>5, <1>6, <1>7 DEF Inv, SessionConsistent, Transactions
<1> QED  BY <1>4, <1>5, <1>8, <1>9 DEF Inv

\* The ways in which a request is served, told apart by what they do to the
\* eUICC's session.
Quiet(d, result) ==
  /\ ~ (request[d] = 8 /\ result = "ok")
  /\ active_session' = active_session /\ installs' = installs
  /\ smdp' = smdp \/ SmdpServes(d, result)

Authenticates(d, s) ==
  /\ request[d] = 4 /\ s.euicc_challenge = d
  /\ active_session' = {[s EXCEPT !.transaction_id = d, !.authenticated = TRUE]}
  /\ installs' = installs /\ smdp' = smdp

Prepares(d, s, keys) ==
  /\ request[d] = 6 /\ s.authenticated /\ s.transaction_id = d
  /\ active_session' = {[s EXCEPT !.session_keys = keys, !.prepared = TRUE]}
  /\ installs' = installs /\ smdp' = smdp

Loads(d, s) ==
  /\ request[d] = 8 /\ s.prepared
  /\ installs' = installs \cup
       {[package |-> d, transaction |-> s.transaction_id,
         session_keys |-> s.session_keys]}
  /\ active_session' = {} /\ smdp' = smdp

LEMMA ServeCases ==
  ASSUME NEW d \in Downloads, Serve(d)
  PROVE  \E result \in Results :
           /\ Served(d, result)
           /\ \/ Quiet(d, result)
              \/ result = "ok" /\ request[d] = 1 /\ get_euicc_challenge(d) /\ smdp' = smdp
              \/ result = "ok" /\ \E s \in active_session :
                   \/ Authenticates(d, s) \/ Loads(d, s)
                   \/ \E keys \in {d, s.session_keys} : Prepares(d, s, keys)
<1>1. PICK result \in Results :
        /\ \/ EuiccServes(d, result) /\ UNCHANGED smdp
           \/ SmdpServes(d, result) /\ UNCHANGED euiccVars
        /\ reply' = [reply EXCEPT ![d] = IF Awaiting(d) THEN result ELSE "none"]
  BY DEF Serve
<1>2. Served(d, result)
  BY <1>1 DEF Serve, Served
<1>3. CASE SmdpServes(d, result) /\ UNCHANGED euiccVars
  <2>1. Quiet(d, result)
    BY <1>3 DEF Quiet, SmdpServes, euiccVars, sessionVars
  <2> QED  BY <1>2, <2>1
<1>4. CASE EuiccServes(d, result) /\ UNCHANGED smdp
  <2>1. CASE request[d] = 1 /\ result = "ok" /\ get_euicc_challenge(d)
    BY <1>2, <1>4, <2>1
  <2>2. CASE request[d] = 2 /\ result = "ok" /\ UNCHANGED euiccVars
    <3>1. Quiet(d, result)
      BY <1>4, <2>2 DEF Quiet, euiccVars, sessionVars
    <3> QED  BY <1>2, <3>1
  <2>3. CASE request[d] = 4 /\ authenticate_server(d, result)
    <3>1. Quiet(d, result) \/
          (result = "ok" /\ \E s \in active_session : Authenticates(d, s))
      BY <1>4, <2>3 DEF Quiet, Authenticates, authenticate_server
    <3> QED  BY <1>2, <3>1
  <2>4. CASE request[d] = 6 /\ prepare_download(d, result)
    <3>1. Quiet(d, result) \/
          (result = "ok" /\ \E s \in active_session :
                             \E keys \in {d, s.session_keys} : Prepares(d, s, keys))
      BY <1>4, <2>4 DEF Quiet, Prepares, prepare_download
    <3> QED  BY <1>2, <3>1
  <2>5. CASE request[d] = 8 /\ load_bound_profile_package(d, result)
    <3>1. Quiet(d, result) \/
          (result = "ok" /\ \E s \in active_session : Loads(d, s))
      BY <1>4, <2>5 DEF Quiet, Loads, load_bound_profile_package, Loadable, _walk_bpp_der, euiccVars, sessionVars
    <3> QED  BY <1>2, <3>1
  <2> QED  BY <1>4, <2>1, <2>2, <2>3, <2>4, <2>5 DEF EuiccServes
<1> QED  BY <1>1, <1>3, <1>4

LEMMA ServeInv ==
  ASSUME Inv, NEW d \in Downloads, Serve(d)
  PROVE  Inv'
<1>1. PICK result \in Results :
        /\ Served(d, result)
        /\ \/ Quiet(d, result)
           \/ result = "ok" /\ request[d] = 1 /\ get_euicc_challenge(d) /\ smdp' = smdp
           \/ result = "ok" /\ \E s \in active_session :
                \/ Authenticates(d, s) \/ Loads(d, s)
                \/ \E keys \in {d, s.session_keys} : Prepares(d, s, keys)
  BY ServeCases
<1>2. CASE Quiet(d, result)
  BY <1>1, <1>2, IdleServeInv DEF Quiet
<1>3. CASE result = "ok" /\ request[d] = 1 /\ get_euicc_challenge(d) /\ smdp' = smdp
  BY <1>1, <1>3, ChallengeInv
<1>4. ASSUME NEW s \in active_session, result = "ok", Authenticates(d, s)
      PROVE  Inv'
  BY <1>1, <1>4, AuthenticateInv DEF Authenticates
<1>5. ASSUME NEW s \in active_session, result = "ok", Loads(d, s)
      PROVE  Inv'
  BY <1>1, <1>5, LoadInv DEF Loads
<1>6. ASSUME NEW s \in active_session, NEW keys \in {d, s.session_keys},
             result = "ok", Prepares(d, s, keys)
      PROVE  Inv'
  BY <1>1, <1>6, PrepareInv DEF Prepares
<1> QED  BY <1>1, <1>2, <1>3, <1>4, <1>5, <1>6

----------------------------------------------------------------------------
(* The cancel calls.                                                       *)

\* A cancel call that leaves the eUICC alone and tells the SM-DP+ at most of
\* what the eUICC has already given up.
LEMMA CancelKeeps ==
  ASSUME Inv, Shape', UNCHANGED <<step, request, reply, installs>>,
         \A d \in Downloads : state'[d] = "profile_installed" => state[d] = "profile_installed",
         active_session' \subseteq active_session, GivenUp' \subseteq GivenUp
  PROVE  Inv'
<1>1. \A d \in Downloads : Passed(d) => Passed(d)'
  BY DEF Passed
<1>2. Calls' /\ Reported'
  BY DEF Inv, Calls, Reported, Awaiting
<1> QED  BY <1>1, <1>2, TransactionsKept DEF Inv

LEMMA CancelStartsInv ==
  ASSUME Inv, NEW c \in Cancels, cancel_download(c)
  PROVE  Inv'
<1>1. /\ active_session' = active_session /\ installs' = installs /\ smdp' = smdp
      /\ sessions' = sessions /\ step' = step /\ request' = request /\ reply' = reply
  BY DEF cancel_download, euiccVars, sessionVars
<1>2. PICK d \in sessions :
        \/ /\ state' = [state EXCEPT ![d] = "cancelled"]
           /\ cancelling' = [cancelling EXCEPT ![c] = [download |-> d, at |-> "returned"]]
        \/ /\ cancelling' = [cancelling EXCEPT ![c] = [download |-> d, at |-> "at_euicc"]]
           /\ UNCHANGED state
  BY DEF cancel_download
<1>3. PICK stage \in {"returned", "at_euicc"} :
        cancelling' = [cancelling EXCEPT ![c] = [download |-> d, at |-> stage]]
  BY <1>2
<1>4. d \in Downloads
  BY DEF Inv, Shape
<1> DEFINE call == [download |-> d, at |-> stage]
<1>5. /\ call \in [download : Downloads \cup {NoTransaction}, at : CancelStages]
      /\ call.download = d /\ call.at = stage
  BY <1>4 DEF CancelStages
<1>6. cancelling' = [cancelling EXCEPT ![c] = call]
  BY <1>3
<1> HIDE DEF call
<1>7. Shape'
  <2>1. cancelling' \in [Cancels -> [download : Downloads \cup {NoTransaction}, at : CancelStages]]
    BY <1>5, <1>6 DEF Inv, Shape
  <2>2. \A e \in Cancels : cancelling'[e].at # "new" => cancelling'[e].download \in Downloads
    BY <1>4, <1>5, <1>6 DEF Inv, Shape
  <2>3. state' \in [Downloads -> DownloadState]
    BY <1>2 DEF Inv, Shape, DownloadState
  <2> QED  BY <1>1, <2>1, <2>2, <2>3 DEF Inv, Shape
<1>8. \A e \in Downloads : state'[e] = "profile_installed" => state[e] = "profile_installed"
  BY <1>2, <1>4 DEF Inv, Shape
<1>9. GivenUp' \subseteq GivenUp
  BY <1>1, <1>5, <1>6 DEF GivenUp, Told, Inv, Shape
<1> QED  BY <1>1, <1>7, <1>8, <1>9, CancelKeeps

\* A stage change keeps the download of the call.
LEMMA MovesShape ==
  ASSUME Inv, NEW c \in Cancels, NEW stage \in CancelStages,
         cancelling[c].at # "new", Moves(c, stage)
  PROVE  /\ cancelling' \in [Cancels -> [download : Downloads \cup {NoTransaction},
                                        at : CancelStages]]
         /\ \A e \in Cancels : cancelling'[e].at # "new" => cancelling'[e].download \in Downloads
         /\ cancelling'[c].at = stage
         /\ \A e \in Cancels : cancelling'[e].download = cancelling[e].download
         /\ \A e \in Cancels : e # c => cancelling'[e].at = cancelling[e].at
<1> DEFINE call == [cancelling[c] EXCEPT !.at = stage]
<1>1. cancelling[c] \in [download : Downloads \cup {NoTransaction}, at : CancelStages]
  BY DEF Inv, Shape
<1>2. /\ call \in [download : Downloads \cup {NoTransaction}, at : CancelStages]
      /\ call.at = stage /\ call.download = cancelling[c].download
  BY <1>1
<1>3. cancelling' = [cancelling EXCEPT ![c] = call]
  BY DEF Moves
<1> HIDE DEF call
<1> QED  BY <1>2, <1>3 DEF Inv, Shape

\* The SM-DP+ is told, the call moves on or raises.
LEMMA CancelMovesInv ==
  ASSUME Inv, NEW c \in Cancels,
         cancel_forward(c) \/ cancel_return(c) \/ cancel_raises(c) \/ SmdpCancels(c)
  PROVE  Inv'
<1>1. /\ active_session' = active_session /\ installs' = installs
      /\ sessions' = sessions /\ step' = step /\ request' = request /\ reply' = reply
  BY DEF cancel_forward, cancel_return, cancel_raises, SmdpCancels, euiccVars, sessionVars
<1>2. PICK stage \in CancelStages : Moves(c, stage) /\ (stage \in Told => cancelling[c].at \in Told)
  BY DEF cancel_forward, cancel_return, cancel_raises, SmdpCancels, CancelStages, Told
<1>3. cancelling[c].at # "new"
  BY DEF cancel_forward, cancel_return, cancel_raises, SmdpCancels
<1>4. state' = state \/ state' = [state EXCEPT ![cancelling[c].download] = "cancelled"]
  BY DEF cancel_forward, cancel_return, cancel_raises, SmdpCancels
<1>5. \/ smdp' = smdp
      \/ cancelling[c].at \in Told /\ smdp' = [smdp EXCEPT ![cancelling[c].download] = "cancelled"]
  BY DEF cancel_forward, cancel_return, cancel_raises, SmdpCancels, Told
<1>6. cancelling[c].download \in Downloads
  BY <1>3 DEF Inv, Shape
<1>7. /\ state' \in [Downloads -> DownloadState]
      /\ \A d \in Downloads : state'[d] = "profile_installed" => state[d] = "profile_installed"
  BY <1>4 DEF Inv, Shape, DownloadState
<1>8. /\ smdp' \in [Downloads -> SmdpStates]
      /\ \A d \in Downloads : smdp'[d] = "cancelled" => d \in GivenUp
  BY <1>5 DEF Inv, Shape, SmdpStates, GivenUp
<1>9. Shape'
  BY <1>1, <1>2, <1>3, <1>7, <1>8, MovesShape DEF Inv, Shape
<1>10. GivenUp' \subseteq GivenUp
  <2> SUFFICES ASSUME NEW d \in Downloads, NEW e \in Cancels,
                      cancelling'[e].at \in Told, cancelling'[e].download = d
               PROVE  d \in GivenUp
    BY <1>8 DEF GivenUp
  <2>1. cancelling[e].download = d /\ cancelling[e].at \in Told
    BY <1>2, <1>3, MovesShape
  <2> QED  BY <2>1 DEF GivenUp
<1> QED  BY <1>1, <1>7, <1>9, <1>10, CancelKeeps

\* The eUICC closes the session of d: nobody can have spent d, nobody can take
\* it on again.
LEMMA EuiccCancelsInv ==
  ASSUME Inv, NEW c \in Cancels, EuiccCancels(c)
  PROVE  Inv'
<1> DEFINE d == cancelling[c].download
<1>1. /\ sessions' = sessions /\ step' = step /\ request' = request /\ reply' = reply
      /\ state' = state /\ smdp' = smdp /\ installs' = installs
  BY DEF EuiccCancels, cancel_session
<1>2. PICK stage \in CancelStages :
        /\ Moves(c, stage)
        /\ \/ stage \notin Told /\ active_session' \subseteq active_session
           \/ /\ \E s \in active_session : s.transaction_id = d
              /\ active_session' = {}
  BY DEF EuiccCancels, cancel_session, CancelStages, Told
<1>3. cancelling[c].at # "new"
  BY DEF EuiccCancels
<1>4. Shape'
  BY <1>1, <1>2, <1>3, MovesShape DEF Inv, Shape
<1>5. CASE stage \notin Told /\ active_session' \subseteq active_session
  <2>1. GivenUp' \subseteq GivenUp
    BY <1>1, <1>2, <1>3, <1>5, MovesShape DEF GivenUp
  <2> QED  BY <1>1, <1>4, <1>5, <2>1, CancelKeeps
<1>6. CASE (\E s \in active_session : s.transaction_id = d) /\ active_session' = {}
  <2>1. d \in Downloads /\ d # NoTransaction
    BY <1>3, TransactionAssumption DEF Inv, Shape
  <2>2. Passed(d) /\ d \notin Spent
    BY <1>6, <2>1 DEF Inv, Transactions
  <2>3. GivenUp' \subseteq GivenUp \cup {d}
    BY <1>1, <1>2, <1>3, MovesShape DEF GivenUp
  <2>4. \A e \in Downloads : Passed(e) => Passed(e)'
    BY <1>1 DEF Passed
  <2>5. Spent' = Spent
    BY <1>1 DEF Spent
  <2>6. GivenUp \subseteq Downloads
    BY DEF GivenUp
  <2>7. Transactions'
    BY <1>6, <2>1, <2>2, <2>3, <2>4, <2>5, <2>6 DEF Inv, Transactions
  <2>8. SessionConsistent' /\ OneInstallPerTransaction'
    BY <1>1, <1>6 DEF Inv, SessionConsistent, OneInstallPerTransaction
  <2>9. Calls' /\ Reported'
    BY <1>1 DEF Inv, Calls, Reported, Awaiting
  <2> QED  BY <1>4, <2>7, <2>8, <2>9 DEF Inv
<1> QED  BY <1>2, <1>5, <1>6

----------------------------------------------------------------------------

LEMMA NextInv == Inv /\ [Next]_vars => Inv'
<1> SUFFICES ASSUME Inv, [Next]_vars PROVE Inv'
  OBVIOUS
<1>1. ASSUME NEW d \in Downloads,
             start_download(d) \/ StepReturns(d) \/ StepRaises(d) \/ TaskCancelled(d) \/ Serve(d)
      PROVE  Inv'
  BY <1>1, StartInv, ReturnInv, RaiseInv, TaskCancelledInv, ServeInv
<1>2. ASSUME NEW c \in Cancels,
             \/ cancel_download(c) \/ cancel_forward(c) \/ cancel_return(c)
             \/ cancel_raises(c) \/ EuiccCancels(c) \/ SmdpCancels(c)
      PROVE  Inv'
  BY <1>2, CancelStartsInv, CancelMovesInv, EuiccCancelsInv
<1>3. CASE UNCHANGED vars
  <2>1. /\ active_session' = active_session /\ installs' = installs
        /\ sessions' = sessions /\ state' = state /\ step' = step /\ request' = request
        /\ reply' = reply /\ cancelling' = cancelling /\ smdp' = smdp
    BY <1>3 DEF vars, ipaVars, euiccVars, sessionVars
  <2>2. Shape'
    BY <2>1 DEF Inv, Shape
  <2>3. GivenUp' = GivenUp
    BY <2>1 DEF GivenUp
  <2> QED  BY <2>1, <2>2, <2>3, CancelKeeps
<1> QED  BY <1>1, <1>2, <1>3 DEF Next, CancelNext

THEOREM Invariance == Spec => []Inv
BY InitInv, NextInv, PTL DEF Spec

\* However requests interleave, arrive late or twice in a row, the session in
\* the eUICC is prepared only for the transaction that it authenticated
\* (authenticate_server, prepare_download).
THEOREM SessionsConsistent == Spec => []SessionConsistent
<1>1. Inv => SessionConsistent
  BY DEF Inv
<1> QED  BY <1>1, Invariance, PTL

\* A transaction authenticated by authenticate_server installs at most one
\* profile (load_bound_profile_package).
THEOREM InstallsOnce == Spec => []OneInstallPerTransaction
<1>1. Inv => OneInstallPerTransaction
  BY DEF Inv
<1> QED  BY <1>1, Invariance, PTL

\* What start_download reports as installed was installed by its own request.
THEOREM ReportsTrue == Spec => []ReportedInstalled
<1>1. Inv => ReportedInstalled
  BY DEF Inv, Reported, ReportedInstalled
<1> QED  BY <1>1, Invariance, PTL

\* What is installed in a step is the package of the session's own transaction, if
\* packages name it.
LEMMA NamedInstalls ==
  ASSUME BppNamesTransaction, [Next]_vars, NEW i \in installs', i \notin installs
  PROVE  i.package = i.transaction
<1>1. PICK d \in Downloads : Serve(d)
  <2>1. ~ CancelNext
    BY DEF CancelNext, cancel_download, cancel_forward, cancel_return, cancel_raises,
           EuiccCancels, SmdpCancels, cancel_session, euiccVars, sessionVars
  <2>2. installs' # installs
    OBVIOUS
  <2>3. \A d \in Downloads :
          ~ (start_download(d) \/ StepReturns(d) \/ StepRaises(d) \/ TaskCancelled(d))
    BY <2>2 DEF start_download, StepReturns, StepRaises, TaskCancelled, euiccVars, sessionVars
  <2> QED  BY <2>1, <2>2, <2>3 DEF Next, vars, euiccVars, sessionVars
<1>2. PICK result \in Results : load_bound_profile_package(d, result)
  BY <1>1 DEF Serve, EuiccServes, get_euicc_challenge, authenticate_server, prepare_download,
              euiccVars, sessionVars
<1>3. PICK s \in active_session :
        /\ Loadable(s, d)
        /\ installs' = installs \cup
             {[package |-> d, transaction |-> s.transaction_id,
               session_keys |-> s.session_keys]}
  BY <1>2 DEF load_bound_profile_package, euiccVars, sessionVars
<1>4. s.transaction_id = d
  BY <1>3 DEF Loadable, _walk_bpp_der
<1>5. i = [package |-> d, transaction |-> s.transaction_id, session_keys |-> s.session_keys]
  BY <1>3
<1> QED  BY <1>4, <1>5

\* Packages that name their transaction are never installed in the session of
\* another download, whichever session is open when they arrive
\* (load_bound_profile_package).
THEOREM InstallsOwn == BppNamesTransaction => (Spec => []InstalledUnderOwnTransaction)
<1> SUFFICES ASSUME BppNamesTransaction PROVE Spec => []InstalledUnderOwnTransaction
  OBVIOUS
<1>1. Init => InstalledUnderOwnTransaction
  BY DEF Init, SessionInit, InstalledUnderOwnTransaction
<1>2. InstalledUnderOwnTransaction /\ [Next]_vars => InstalledUnderOwnTransaction'
  BY NamedInstalls DEF InstalledUnderOwnTransaction
<1> QED  BY <1>1, <1>2, PTL DEF Spec

----------------------------------------------------------------------------
(* Types.                                                                  *)

LEMMA InitTyped == Init => TypeOK
<1> SUFFICES ASSUME Init PROVE TypeOK
  OBVIOUS
<1>1. Inv
  BY InitInv
<1>2. profiles = <<>> /\ free_nvm = InitialFreeNvm /\ notifications = <<>> /\ notification_seq = 0
  BY DEF Init, SessionInit, Card!CreateWith, Card!Preloaded
<1>3. Card!TypeOK
  BY <1>2, SlotsAssumption DEF Card!TypeOK
<1> QED  BY <1>1, <1>3 DEF Init, SessionInit, TypeOK, Inv, Shape

\* Installing a profile keeps the slots and the queue typed.
LEMMA InstallTyped ==
  ASSUME Card!TypeOK, NEW i \in Iccids, NEW size \in Sizes \cup {DefaultSize},
         Card!install_profile(i, size)
  PROVE  Card!TypeOK'
<1> DEFINE slot == [iccid |-> i, aid |-> Len(profiles) + 1, state |-> "disabled",
                    class |-> "operational", size |-> size]
           ops  == << <<"install", i>> >>
           more == [n \in 1..Len(ops) |-> [seq       |-> notification_seq + n,
                                          operation |-> ops[n][1],
                                          iccid     |-> ops[n][2]]]
<1>1. /\ profiles \in Seq(Card!ProfileSlot) /\ free_nvm \in Int
      /\ notifications \in Seq(Card!Notification) /\ notification_seq \in Nat
  BY DEF Card!TypeOK
<1>2. slot \in Card!ProfileSlot
  BY <1>1 DEF Card!ProfileSlot, Card!States, Card!Classes
<1>3. more \in Seq(Card!Notification)
  <2>1. Len(ops) = 1 /\ ops[1][1] = "install" /\ ops[1][2] = i
    OBVIOUS
  <2> HIDE DEF ops
  <2>2. \A n \in 1..1 : [seq |-> notification_seq + n, operation |-> ops[n][1],
                        iccid |-> ops[n][2]] \in Card!Notification
    BY <1>1, <2>1 DEF Card!Notification, Card!Operations
  <2> QED  BY <2>1, <2>2
<1>4. /\ profiles' = Append(profiles, slot) /\ free_nvm' = free_nvm - size
      /\ notifications' = notifications \o more /\ notification_seq' = notification_seq + Len(ops)
  BY DEF Card!install_profile, Card!allocate_isdp_aid, Card!add_notifications
<1>5. Len(ops) \in Nat /\ size \in Int
  BY SlotsAssumption
<1> HIDE DEF slot, ops, more
<1>6. profiles' \in Seq(Card!ProfileSlot)
  BY <1>1, <1>2, <1>4
<1>7. notifications' \in Seq(Card!Notification)
  BY <1>1, <1>3, <1>4
<1> QED  BY <1>1, <1>4, <1>5, <1>6, <1>7 DEF Card!TypeOK

LEMMA ServedTyped ==
  ASSUME Inv, TypeOK, NEW d \in Downloads, Serve(d)
  PROVE  Card!TypeOK' /\ installs' \subseteq Installation
<1>1. Card!TypeOK /\ installs \subseteq Installation /\ active_session \subseteq DownloadSession
  BY DEF TypeOK
<1>2. CASE UNCHANGED <<cardVars, installs>>
  BY <1>1, <1>2 DEF cardVars, Card!TypeOK
<1>3. CASE \E result \in Results : load_bound_profile_package(d, result)
  <2>1. CASE UNCHANGED euiccVars
    BY <1>2, <2>1 DEF euiccVars, sessionVars
  <2>2. CASE \E s \in active_session :
               /\ \E i \in Iccids, size \in Sizes \cup {DefaultSize} :
                    Card!install_profile(i, size)
               /\ installs' = installs \cup
                    {[package |-> d, transaction |-> s.transaction_id,
                      session_keys |-> s.session_keys]}
    <3>1. Card!TypeOK'
      BY <1>1, <2>2, InstallTyped
    <3>2. installs' \subseteq Installation
      BY <1>1, <2>2 DEF DownloadSession, Installation
    <3> QED  BY <3>1, <3>2
  <2> QED  BY <1>3, <2>1, <2>2 DEF load_bound_profile_package
<1>4. CASE \A result \in Results : ~ load_bound_profile_package(d, result)
  BY <1>2, <1>4 DEF Serve, EuiccServes, get_euicc_challenge, authenticate_server,
                    prepare_download, euiccVars, sessionVars
<1> QED  BY <1>3, <1>4

LEMMA NextTyped == Inv /\ Inv' /\ TypeOK /\ [Next]_vars => TypeOK'
<1> SUFFICES ASSUME Inv, Inv', TypeOK, [Next]_vars PROVE TypeOK'
  OBVIOUS
<1>1. Shape'
  BY DEF Inv
<1>2. Card!TypeOK' /\ installs' \subseteq Installation
  <2>1. CASE \E d \in Downloads : Serve(d)
    BY <2>1, ServedTyped
  <2>2. CASE UNCHANGED <<cardVars, installs>>
    BY <2>2 DEF TypeOK, cardVars, Card!TypeOK
  <2>3. CASE CancelNext
    BY <2>2, <2>3 DEF CancelNext, cancel_download, cancel_forward, cancel_return,
                      cancel_raises, EuiccCancels, SmdpCancels, cancel_session,
                      euiccVars, sessionVars
  <2>4. CASE UNCHANGED vars
    BY <2>2, <2>4 DEF vars, euiccVars, sessionVars
  <2>5. CASE \E d \in Downloads :
               start_download(d) \/ StepReturns(d) \/ StepRaises(d) \/ TaskCancelled(d)
    BY <2>2, <2>5 DEF start_download, StepReturns, StepRaises, TaskCancelled,
                      euiccVars, sessionVars
  <2> QED  BY <2>1, <2>3, <2>4, <2>5 DEF Next
<1>3. transaction_id' \in [Downloads -> Downloads \cup {NoTransaction}]
  <2>1. transaction_id \in [Downloads -> Downloads \cup {NoTransaction}]
    BY DEF TypeOK
  <2>2. CASE UNCHANGED transaction_id
    BY <2>1, <2>2
  <2>3. CASE \E d \in Downloads : StepReturns(d)
    BY <2>1, <2>3 DEF StepReturns
  <2>4. CASE \E d \in Downloads :
               start_download(d) \/ StepRaises(d) \/ TaskCancelled(d) \/ Serve(d)
    BY <2>2, <2>4 DEF start_download, StepRaises, TaskCancelled, Serve
  <2>5. CASE CancelNext
    BY <2>2, <2>5 DEF CancelNext, cancel_download, cancel_forward, cancel_return,
                      cancel_raises, EuiccCancels, SmdpCancels
  <2>6. CASE UNCHANGED vars
    BY <2>2, <2>6 DEF vars, ipaVars
  <2> QED  BY <2>3, <2>4, <2>5, <2>6 DEF Next
<1> QED  BY <1>1, <1>2, <1>3 DEF Shape, TypeOK

\* The eUICC's slots and session, both sides' bookkeeping and the observers keep
\* their types, for any number of downloads and cancel calls.
THEOREM DownloadTyped == Spec => []TypeOK
<1>1. Init => TypeOK
  BY InitTyped
<1>2. Inv /\ Inv' /\ TypeOK /\ [Next]_vars => TypeOK'
  BY NextTyped
<1> QED  BY <1>1, <1>2, Invariance, PTL DEF Spec

----------------------------------------------------------------------------
(* Refinement: the prepared session is the permit of InstallPermit.        *)

Revoked == {d \in Downloads : smdp[d] = "cancelled"}

LEMMA PromiseInit == Init => Promise!Init
<1> SUFFICES ASSUME Init PROVE Promise!Init
  OBVIOUS
<1>1. active_session = {} /\ installs = {} /\ smdp = [d \in Downloads |-> "unknown"]
  BY DEF Init, SessionInit
<1> QED  BY <1>1 DEF Promise!Init, Permit

\* A step that leaves the prepared sessions, the installations and the
\* cancelled transactions alone is a stutter of the promise.
LEMMA PromiseStutter ==
  ASSUME Permit' = Permit, installs' = installs, Revoked' = Revoked
  PROVE  UNCHANGED Promise!vars
BY DEF Promise!vars, Revoked

LEMMA PromiseServe ==
  ASSUME Inv, NEW d \in Downloads, Serve(d)
  PROVE  [Promise!Next]_(Promise!vars)
<1>1. PICK result \in Results :
        /\ Served(d, result)
        /\ \/ Quiet(d, result)
           \/ result = "ok" /\ request[d] = 1 /\ get_euicc_challenge(d) /\ smdp' = smdp
           \/ result = "ok" /\ \E s \in active_session :
                \/ Authenticates(d, s) \/ Loads(d, s)
                \/ \E keys \in {d, s.session_keys} : Prepares(d, s, keys)
  BY ServeCases
<1>2. CASE Quiet(d, result)
  <2>1. Revoked' = Revoked
    BY <1>2 DEF Quiet, Revoked, SmdpServes, Inv, Shape
  <2>2. Permit' = Permit /\ installs' = installs
    BY <1>2 DEF Quiet, Permit
  <2> QED  BY <2>1, <2>2, PromiseStutter
<1>3. CASE result = "ok" /\ request[d] = 1 /\ get_euicc_challenge(d) /\ smdp' = smdp
  <2>1. Permit' = {} /\ installs' = installs /\ Revoked' = Revoked
    BY <1>3 DEF get_euicc_challenge, Permit, Revoked
  <2>2. Promise!Withdraw
    BY <2>1 DEF Promise!Withdraw, Revoked
  <2> QED  BY <2>2 DEF Promise!Next
<1>4. ASSUME NEW s \in active_session, Authenticates(d, s)
      PROVE  [Promise!Next]_(Promise!vars)
  <2>1. s \in DownloadSession /\ active_session = {s}
    BY DEF Inv, Shape
  <2>2. ~ s.prepared
    BY <1>4, PreparedTransaction DEF Authenticates, Passed
  <2>3. ~ [s EXCEPT !.transaction_id = d, !.authenticated = TRUE].prepared
    BY <2>1, <2>2 DEF DownloadSession
  <2>4. Permit = {} /\ Permit' = {} /\ installs' = installs /\ Revoked' = Revoked
    BY <1>4, <2>1, <2>2, <2>3 DEF Authenticates, Permit, Revoked
  <2> QED  BY <2>4, PromiseStutter
<1>5. ASSUME NEW s \in active_session, Loads(d, s)
      PROVE  [Promise!Next]_(Promise!vars)
  <2>1. active_session = {s} /\ s.prepared
    BY <1>5 DEF Inv, Shape, Loads
  <2>2. Permit = {s.transaction_id} /\ Permit' = {} /\ Revoked' = Revoked
    BY <1>5, <2>1 DEF Permit, Loads, Revoked
  <2> DEFINE new == [package |-> d, transaction |-> s.transaction_id,
                     session_keys |-> s.session_keys]
  <2>3. new.transaction = s.transaction_id
    OBVIOUS
  <2>4. installs' = installs \cup {new}
    BY <1>5 DEF Loads
  <2> HIDE DEF new
  <2>5. {i.transaction : i \in installs'} = {i.transaction : i \in installs} \cup {s.transaction_id}
    BY <2>3, <2>4
  <2>6. Promise!Spend(s.transaction_id)
    BY <2>2, <2>5 DEF Promise!Spend, Revoked
  <2>7. s.transaction_id \in Downloads
    BY <2>1, PreparedTransaction
  <2> QED  BY <2>6, <2>7 DEF Promise!Next
<1>6. ASSUME NEW s \in active_session, NEW keys \in {d, s.session_keys}, Prepares(d, s, keys)
      PROVE  [Promise!Next]_(Promise!vars)
  <2> DEFINE new == [s EXCEPT !.session_keys = keys, !.prepared = TRUE]
  <2>1. s \in DownloadSession
    BY DEF Inv, Shape
  <2>2. new.prepared /\ new.transaction_id = d
    BY <1>6, <2>1 DEF DownloadSession, Prepares
  <2>3. active_session' = {new} /\ installs' = installs /\ Revoked' = Revoked
    BY <1>6 DEF Prepares, Revoked
  <2> HIDE DEF new
  <2>4. Permit' = {d}
    BY <2>2, <2>3 DEF Permit
  <2>5. d \notin Spent \cup GivenUp
    BY <1>6, TransactionAssumption DEF Prepares, Inv, Transactions
  <2>6. d \notin {i.transaction : i \in installs} \cup Revoked
    BY <2>5 DEF Spent, GivenUp, Revoked
  <2>7. Promise!Grant(d)
    BY <2>3, <2>4, <2>6 DEF Promise!Grant, Revoked
  <2> QED  BY <2>7 DEF Promise!Next
<1> QED  BY <1>1, <1>2, <1>3, <1>4, <1>5, <1>6

LEMMA PromiseCancel ==
  ASSUME Inv, NEW c \in Cancels, EuiccCancels(c) \/ SmdpCancels(c)
  PROVE  [Promise!Next]_(Promise!vars)
<1> DEFINE d == cancelling[c].download
<1>1. CASE EuiccCancels(c)
  <2>1. installs' = installs /\ Revoked' = Revoked
    BY <1>1 DEF EuiccCancels, cancel_session, Revoked
  <2>2. CASE active_session' = active_session
    BY <2>1, <2>2, PromiseStutter DEF Permit
  <2>3. CASE active_session' = {}
    <3>1. Promise!Withdraw
      BY <2>1, <2>3 DEF Promise!Withdraw, Permit, Revoked
    <3> QED  BY <3>1 DEF Promise!Next
  <2> QED  BY <1>1, <2>2, <2>3 DEF EuiccCancels, cancel_session
<1>2. CASE SmdpCancels(c)
  <2>1. /\ active_session' = active_session /\ installs' = installs
        /\ smdp' = [smdp EXCEPT ![d] = "cancelled"] /\ cancelling[c].at \in Told
    BY <1>2 DEF SmdpCancels, euiccVars, sessionVars, Told
  <2>2. d \in Downloads /\ d \in GivenUp
    BY <2>1 DEF Inv, Shape, GivenUp, Told
  <2>3. d \notin Permit /\ d \notin Spent
    BY <2>2, PreparedTransaction DEF Permit, Inv, Transactions
  <2>4. Revoked' = Revoked \cup {d} /\ Permit' = Permit
    BY <2>1, <2>2 DEF Revoked, Inv, Shape, Permit
  <2>5. Promise!Revoke(d)
    BY <2>1, <2>3, <2>4 DEF Promise!Revoke, Revoked, Spent
  <2> QED  BY <2>2, <2>5 DEF Promise!Next, Promise!Revoke
<1> QED  BY <1>1, <1>2

LEMMA PromiseNext == Inv /\ [Next]_vars => [Promise!Next]_(Promise!vars)
<1> SUFFICES ASSUME Inv, [Next]_vars PROVE [Promise!Next]_(Promise!vars)
  OBVIOUS
<1>1. ASSUME NEW d \in Downloads, Serve(d)
      PROVE  [Promise!Next]_(Promise!vars)
  BY <1>1, PromiseServe
<1>2. ASSUME NEW c \in Cancels, EuiccCancels(c) \/ SmdpCancels(c)
      PROVE  [Promise!Next]_(Promise!vars)
  BY <1>2, PromiseCancel
<1>3. CASE UNCHANGED <<euiccVars, smdp>>
  <2>1. Permit' = Permit /\ installs' = installs /\ Revoked' = Revoked
    BY <1>3 DEF euiccVars, sessionVars, Permit, Revoked
  <2> QED  BY <2>1, PromiseStutter
<1>4. ASSUME NEW d \in Downloads,
             start_download(d) \/ StepReturns(d) \/ StepRaises(d) \/ TaskCancelled(d)
      PROVE  UNCHANGED <<euiccVars, smdp>>
  BY <1>4 DEF start_download, StepReturns, StepRaises, TaskCancelled
<1>5. ASSUME NEW c \in Cancels,
             cancel_download(c) \/ cancel_forward(c) \/ cancel_return(c) \/ cancel_raises(c)
      PROVE  UNCHANGED <<euiccVars, smdp>>
  BY <1>5 DEF cancel_download, cancel_forward, cancel_return, cancel_raises
<1>6. CASE UNCHANGED vars
  BY <1>3, <1>6 DEF vars
<1> QED  BY <1>1, <1>2, <1>3, <1>4, <1>5, <1>6 DEF Next, CancelNext

\* Every behaviour of the two orchestrators and the eUICC is one of
\* InstallPermit: no transaction installs twice, none installs after the SM-DP+
\* was told that it is cancelled.
THEOREM KeepsPermit == Spec => ImplementsInstallPermit
BY PromiseInit, PromiseNext, Invariance, PTL DEF Spec, Promise!Spec, ImplementsInstallPermit

----------------------------------------------------------------------------
(* The eUICC of a download is an eUICC: what is proved of EuiccProfiles    *)
(* holds of its slots, its memory and its queue.                           *)

Proofs == INSTANCE EuiccProfilesProofs

\* Only LoadBoundProfilePackage touches the card, and it installs a profile.
LEMMA CardStep ==
  ASSUME [Next]_vars
  PROVE  \/ UNCHANGED cardVars
         \/ \E i \in Iccids, size \in Sizes \cup {DefaultSize} : Card!install_profile(i, size)
<1>1. ASSUME NEW d \in Downloads, NEW result \in Results, EuiccServes(d, result)
      PROVE  \/ UNCHANGED cardVars
             \/ \E i \in Iccids, size \in Sizes \cup {DefaultSize} : Card!install_profile(i, size)
  BY <1>1 DEF EuiccServes, get_euicc_challenge, authenticate_server, prepare_download,
              load_bound_profile_package, euiccVars
<1>2. ASSUME NEW d \in Downloads, Serve(d)
      PROVE  \/ UNCHANGED cardVars
             \/ \E i \in Iccids, size \in Sizes \cup {DefaultSize} : Card!install_profile(i, size)
  BY <1>1, <1>2 DEF Serve, euiccVars
<1>3. ASSUME NEW d \in Downloads,
             start_download(d) \/ StepReturns(d) \/ StepRaises(d) \/ TaskCancelled(d)
      PROVE  UNCHANGED cardVars
  BY <1>3 DEF start_download, StepReturns, StepRaises, TaskCancelled, euiccVars
<1>4. ASSUME NEW c \in Cancels,
             \/ cancel_download(c) \/ cancel_forward(c) \/ cancel_return(c)
             \/ cancel_raises(c) \/ EuiccCancels(c) \/ SmdpCancels(c)
      PROVE  UNCHANGED cardVars
  BY <1>4 DEF cancel_download, cancel_forward, cancel_return, cancel_raises,
              EuiccCancels, SmdpCancels, cancel_session, euiccVars
<1>5. CASE UNCHANGED vars
  BY <1>5 DEF vars, euiccVars
<1> QED  BY <1>2, <1>3, <1>4, <1>5 DEF Next, CancelNext

\* The card of a download behaves like the card of EuiccProfiles, whatever
\* coroutines, late requests and cancellations drive it: it is created without
\* profiles, and a download changes it by complete installations only.
THEOREM CardIsAnEuicc == Spec => Card!Spec
<1>1. Init => Card!Init
  <2> SUFFICES ASSUME Init PROVE Card!Init
    OBVIOUS
  <2>1. Card!CreateWith(<<>>)
    BY DEF Init, SessionInit
  <2>2. <<>> \in [1..0 -> [iccid : Iccids, state : Card!States, class : Card!Classes]]
    OBVIOUS
  <2>3. <<>> \in Card!Preloads
    BY <2>2, SlotsAssumption DEF Card!Preloads
  <2>4. Card!SingleActive(<<>>)
    BY DEF Card!SingleActive
  <2> QED  BY <2>1, <2>3, <2>4 DEF Card!Init
<1>2. [Next]_vars => [Card!Next]_(Card!vars)
  BY CardStep DEF Card!Next, Card!LocalNext, Card!vars, cardVars
<1> QED  BY <1>1, <1>2, PTL DEF Spec, Card!Spec

\* Downloads that run at the same time never install past the memory or the
\* slots the eUICC has, never leave free memory negative and never reuse a
\* notification number: the checks of load_bound_profile_package hold at the
\* installation, however long ago the package was requested.
THEOREM CardStaysSound ==
  Spec => [](Card!WithinCapacity /\ Card!AtMostOneEnabled /\ Card!NotificationsOrdered)
<1>1. Proofs!SizesAssumption /\ Proofs!MemoryAssumption /\ Proofs!BoundsAssumption
  BY SlotsAssumption DEF Proofs!SizesAssumption, Proofs!MemoryAssumption, Proofs!BoundsAssumption
<1>2. Proofs!Spec => []Proofs!WithinCapacity
  BY <1>1, Proofs!Capacity
<1>3. Proofs!Spec => []Proofs!AtMostOneEnabled
  BY <1>1, Proofs!OneEnabled
<1>4. Proofs!Spec => []Proofs!NotificationsOrdered
  BY <1>1, Proofs!Ordered
<1>5. Init => Proofs!Init
  <2> SUFFICES ASSUME Init PROVE Proofs!Init
    OBVIOUS
  <2>1. Proofs!CreateWith(<<>>)
    BY DEF Init, SessionInit, Card!CreateWith, Card!Preloaded, Proofs!CreateWith, Proofs!Preloaded
  <2>2. <<>> \in [1..0 -> [iccid : Iccids, state : Proofs!States, class : Proofs!Classes]]
    OBVIOUS
  <2>3. <<>> \in Proofs!Preloads
    <3>1. 0 \in 0..MaxPreloads
      BY SlotsAssumption
    <3> QED  BY <2>2, <3>1, Zenon DEF Proofs!Preloads
  <2> QED  BY <2>1, <2>3 DEF Proofs!Init, Proofs!SingleActive
<1>6. [Next]_vars => [Proofs!Next]_(Proofs!vars)
  <2>1. ASSUME NEW i \in Iccids, NEW size \in Sizes \cup {DefaultSize}, Card!install_profile(i, size)
        PROVE  Proofs!install_profile(i, size)
    BY <2>1 DEF Card!install_profile, Card!allocate_isdp_aid, Card!add_notifications,
                Proofs!install_profile, Proofs!allocate_isdp_aid, Proofs!add_notifications
  <2> QED  BY CardStep, <2>1 DEF Proofs!Next, Proofs!LocalNext, Proofs!vars, cardVars
<1>7. /\ Proofs!WithinCapacity <=> Card!WithinCapacity
      /\ Proofs!AtMostOneEnabled <=> Card!AtMostOneEnabled
      /\ Proofs!NotificationsOrdered <=> Card!NotificationsOrdered
  BY DEF Proofs!WithinCapacity, Card!WithinCapacity, Proofs!UsedBy, Card!UsedBy,
         Proofs!ChargedUpTo, Card!ChargedUpTo, Proofs!AtMostOneEnabled, Card!AtMostOneEnabled,
         Proofs!Slots, Card!Slots, Proofs!NotificationsOrdered, Card!NotificationsOrdered
<1> QED  BY <1>2, <1>3, <1>4, <1>5, <1>6, <1>7, PTL DEF Spec, Proofs!Spec
============================================================================
