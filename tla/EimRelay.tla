------------------------------ MODULE EimRelay ------------------------------
(***************************************************************************)
(* The IPA's ESipa relay for one registered device: poll cycles, from the  *)
(* polling loop and from poll_once, each of which fetches a package from   *)
(* the eIM, relays it to the eUICC and sends the result back.  Cycles      *)
(* overlap: each is suspended from sending a request until the answer, or  *)
(* an error, is there.  The eIMs are external: an eIM hands out any row of *)
(* its queue until the row is settled.                                     *)
(*                                                                         *)
(* A cycle handles one of three requests: it relays an eUICC package, it   *)
(* scans the eUICC, in four calls one after the other, or it runs a        *)
(* triggered download, of which ProfileDownload has the detail.  Any other *)
(* request, and one that cannot be decoded, is dropped.  A cycle ends well *)
(* or raises; the loop counts what it raises and gives up at its limit.    *)
(***************************************************************************)
EXTENDS EuiccPackages

CONSTANTS
  Scans,        \* the ipaEuiccDataRequests the eIMs may have queued
  Triggers,     \* the profileDownloadTriggerRequests, with the SM-DP+'s address or not
  Foreign,      \* requests that the IPA does not support or cannot decode
  Cycles,       \* poll cycles that may run at the same time
  None,         \* no request, no eIM
  Stoppable,    \* those that stop_polling may cancel
  Counted,      \* those of a polling loop whose error limit is looked at
  MaxErrors,    \* errors in a row that the loop puts up with (10)
  Registered,   \* eIMs that register_device is called with
  MaxExecuted,  \* bound: cycles start only below it
  MaxLate       \* bound: late requests for one package

Requests == Packages \cup Scans \cup Triggers \cup Foreign

ASSUME RelayAssumption ==
  /\ Scans \subseteq [eimId : EimIds, scan : Nat]
  /\ Triggers \subseteq [eimId : EimIds, trigger : Nat, addressed : BOOLEAN]
  /\ Foreign \subseteq [eimId : EimIds, foreign : Nat]
  /\ Packages \cap Scans = {} /\ Packages \cap Triggers = {} /\ Scans \cap Triggers = {}
  /\ Foreign \cap (Packages \cup Scans \cup Triggers) = {}
  /\ None \notin Requests \cup EimIds
  /\ Registered \subseteq EimIds /\ Registered # {}
  /\ Stoppable \subseteq Cycles /\ Counted \subseteq Cycles
  /\ MaxErrors \in Nat /\ MaxExecuted \in Nat /\ MaxLate \in Nat

VARIABLES
  session_eim,   \* eIM that EsipaSession.eim_fqdn points to
  cycle,         \* the poll cycles
  error_count,   \* EsipaSession.error_count
  late,          \* requests on their way to the eUICC that nobody waits for
  rows,          \* external: the row of each request in its eIM's queue
  installed      \* observer: the triggers whose profile was installed

ipaVars == <<session_eim, cycle, error_count, late>>
vars    == <<euiccVars, ipaVars, rows, installed>>

\* Mutant: the associations are asked for first.
ScanReads_eims_first == <<"eim_config", "profiles", "certs">>

\* What a scan asks for, in this order; EID and certificates never change.
ScanReads == <<"profiles", "eim_config", "certs">>

Stages ==
  {"idle", "fetching", "at_euicc", "profiles", "eim_config", "certs", "addresses",
   "downloading", "replied", "sending"}

ScanData == [slots : [Iccids -> SlotState], assocs : Seq(EimAssociation)]

NoData == [slots |-> [i \in Iccids |-> "absent"], assocs |-> <<>>]

Cycle ==
  [at       : Stages,
   eim      : EimIds \cup {None},     \* the eIM of the last call
   request  : Requests \cup {None},
   rejected : BOOLEAN,                \* euiccPackageError in the reply
   results  : Seq(OpResult),
   data     : ScanData]

\* "data" is what a scan's row shows, if anything.
Row ==
  [status : {"queued", "completed", "failed"}, results : Seq(OpResult),
   data : ScanData \cup {None}]

Idle ==
  [at |-> "idle", eim |-> None, request |-> None, rejected |-> FALSE, results |-> <<>>,
   data |-> NoData]

Init ==
  /\ EuiccInit
  /\ session_eim \in Registered
  /\ cycle = [c \in Cycles |-> Idle]
  /\ error_count = 0
  /\ late = [p \in Packages |-> 0]
  /\ rows = [r \in Requests |-> [status |-> "queued", results |-> <<>>, data |-> None]]
  /\ installed = {}

----------------------------------------------------------------------------

Stops(c) == cycle' = [cycle EXCEPT ![c] = Idle]

\* Cycles that end well differ in the status they return only.
Ends(c) ==
  /\ Stops(c)
  /\ error_count' = IF c \in Counted THEN 0 ELSE error_count

Raises(c) ==
  /\ Stops(c)
  /\ error_count' = IF c \in Counted THEN error_count + 1 ELSE error_count

\* A known device: its eIM is replaced, in the middle of cycles as well.
register_device(e) ==
  /\ session_eim' = e
  /\ UNCHANGED <<euiccVars, cycle, error_count, late, rows, installed>>

\* poll_once at any time, the loop until it has given up; that it can be started
\* again is in EsipaPolling.
get_eim_package(c) ==
  /\ cycle[c].at = "idle"
  /\ c \in Counted => error_count <= MaxErrors
  /\ Len(executed) < MaxExecuted
  /\ cycle' = [cycle EXCEPT ![c] = [Idle EXCEPT !.at = "fetching", !.eim = session_eim]]
  /\ UNCHANGED <<euiccVars, session_eim, error_count, late, rows, installed>>

Queued(e) == {r \in Requests : r.eimId = e /\ rows[r].status = "queued"}

FirstCall(r) ==
  CASE r \in Packages -> "at_euicc"
    [] r \in Scans -> ScanReads[1]
    [] r \in Triggers /\ ~ r.addressed -> "addresses"
    [] OTHER -> "downloading"

\* External: the eIM answers, and the first call for the request is on its way
\* before the cycle is suspended again; a foreign request is dropped.
EimGives(c, r) ==
  /\ cycle[c].at = "fetching"
  /\ r \in Queued(cycle[c].eim)
  /\ IF r \in Foreign THEN Ends(c)
     ELSE /\ cycle' = [cycle EXCEPT ![c].at = FirstCall(r), ![c].request = r]
          /\ UNCHANGED error_count
  /\ UNCHANGED <<euiccVars, session_eim, late, rows, installed>>

\* The eIM has no request, answers with an error, or is not reached.
EimGivesNothing(c) ==
  /\ cycle[c].at = "fetching"
  /\ Ends(c)
  /\ UNCHANGED <<euiccVars, session_eim, late, rows, installed>>

EuiccServes(c) ==
  /\ cycle[c].at = "at_euicc"
  /\ LET reply == Reply(cycle[c].request) IN
       cycle' = [cycle EXCEPT ![c].at = "replied", ![c].rejected = reply.rejected,
                              ![c].results = reply.results]
  /\ load_euicc_package(cycle[c].request)
  /\ UNCHANGED <<session_eim, error_count, late, rows, installed>>

\* One call of a scan is answered and the next one is on its way.
EuiccShows(c, k) ==
  /\ cycle[c].at = ScanReads[k]
  /\ cycle' = [cycle EXCEPT
       ![c].at = IF k < Len(ScanReads) THEN ScanReads[k + 1] ELSE "replied",
       ![c].data.slots = IF ScanReads[k] = "profiles" THEN slots ELSE @,
       ![c].data.assocs = IF ScanReads[k] = "eim_config" THEN eim_associations ELSE @]
  /\ UNCHANGED <<euiccVars, session_eim, error_count, late, rows, installed>>

\* A trigger without an address: the default one is asked for.
EuiccTellsAddress(c) ==
  /\ cycle[c].at = "addresses"
  /\ cycle' = [cycle EXCEPT ![c].at = "downloading"]
  /\ UNCHANGED <<euiccVars, session_eim, error_count, late, rows, installed>>

\* Mutant: a download that was started is reported as done.
DownloadEnds_claimed(c) ==
  /\ cycle[c].at = "downloading"
  /\ cycle' = [cycle EXCEPT ![c].at = "replied", ![c].results = <<"ok">>]
  /\ installed' = installed \cup {cycle[c].request} \/ UNCHANGED installed
  /\ UNCHANGED <<euiccVars, session_eim, error_count, late, rows>>

\* A triggered download ends: installed, failed, or failed with the profile
\* installed unheard.
DownloadEnds(c) ==
  /\ cycle[c].at = "downloading"
  /\ \/ /\ installed' = installed \cup {cycle[c].request}
        /\ \E result \in {"ok", "error"} :
             cycle' = [cycle EXCEPT ![c].at = "replied", ![c].results = <<result>>]
     \/ /\ cycle' = [cycle EXCEPT ![c].at = "replied", ![c].results = <<"error">>]
        /\ UNCHANGED installed
  /\ UNCHANGED <<euiccVars, session_eim, error_count, late, rows>>

\* The request of a cycle that no longer waits for it is lost, or still served.
Abandons(c) ==
  \/ UNCHANGED <<late, installed>>
  \/ /\ cycle[c].at = "at_euicc"
     /\ late[cycle[c].request] < MaxLate
     /\ late' = [late EXCEPT ![cycle[c].request] = @ + 1]
     /\ UNCHANGED installed
  \/ /\ cycle[c].at = "downloading"
     /\ installed' = installed \cup {cycle[c].request}
     /\ UNCHANGED late

\* A call for a package or a scan fails or times out, or a package's result cannot
\* be encoded: nothing is sent to the eIM.
EuiccUnreachable(c) ==
  /\ \/ cycle[c].at \in {"at_euicc", "profiles", "eim_config", "certs"}
     \/ cycle[c].at = "replied" /\ cycle[c].request \in Packages
  /\ Abandons(c)
  /\ Ends(c)
  /\ UNCHANGED <<euiccVars, session_eim, rows>>

EuiccServesLate ==
  /\ \E p \in Packages :
       /\ late[p] > 0
       /\ load_euicc_package(p)
       /\ late' = [late EXCEPT ![p] = @ - 1]
  /\ UNCHANGED <<session_eim, cycle, error_count, rows, installed>>

\* Results are encoded one after the other; that of an unknown action as nothing.
Encoded(results) ==
  LET UpTo[k \in 0..Len(results)] ==
        IF k = 0 THEN <<>>
        ELSE IF results[k] = "unknownAction" THEN UpTo[k - 1]
        ELSE Append(UpTo[k - 1], results[k])
  IN  UpTo[Len(results)]

\* Mutant: a rejected package is reported as if every operation had succeeded.
Reported_ok(c) ==
  IF cycle[c].rejected
  THEN [k \in 1..Len(cycle[c].request.psmoList) |-> "ok"]
  ELSE IF cycle[c].request \in Packages THEN Encoded(cycle[c].results)
  ELSE cycle[c].results

\* A euiccPackageError has no euiccPackageResult: the result list is empty.
Reported(c) ==
  IF cycle[c].rejected THEN <<>>
  ELSE IF cycle[c].request \in Packages THEN Encoded(cycle[c].results)
  ELSE cycle[c].results

\* Mutant: nothing is sent for a rejected package.
provide_eim_package_result_accepted_only(c) ==
  /\ cycle[c].at = "replied"
  /\ IF cycle[c].rejected THEN Ends(c)
     ELSE /\ cycle' = [cycle EXCEPT ![c].at = "sending", ![c].eim = session_eim]
          /\ UNCHANGED error_count
  /\ UNCHANGED <<euiccVars, session_eim, late, rows, installed>>

\* The address is read from the session again.
provide_eim_package_result(c) ==
  /\ cycle[c].at = "replied"
  /\ cycle' = [cycle EXCEPT ![c].at = "sending", ![c].eim = session_eim]
  /\ UNCHANGED <<euiccVars, session_eim, error_count, late, rows, installed>>

\* External: a result settles the row it belongs to, if this eIM has that row and
\* it is still queued; a failed operation or download marks it failed.  The result
\* of a scan has no tag 5A, by which the eIM looks its queue up: what it shows is
\* there, and the row stays queued.
Recorded(e, r, results, data) ==
  IF r.eimId # e \/ rows[r].status # "queued" THEN rows
  ELSE [rows EXCEPT ![r] =
          IF r \in Scans THEN [status |-> "queued", results |-> <<>>, data |-> data]
          ELSE [status  |-> IF \E k \in DOMAIN results : results[k] # "ok"
                            THEN "failed" ELSE "completed",
                results |-> results, data |-> None]]

Records(c) ==
  /\ cycle[c].at = "sending"
  /\ rows' = Recorded(cycle[c].eim, cycle[c].request, Reported(c), cycle[c].data)

EimRecords(c) ==
  /\ Records(c)
  /\ Ends(c)
  /\ UNCHANGED <<euiccVars, session_eim, late, installed>>

\* The first of the two paths is served unheard, the second one is tried.
EimRecordsUnheard(c) ==
  /\ Records(c)
  /\ UNCHANGED <<euiccVars, ipaVars, installed>>

\* The eIM cannot be told, or is told but not heard: the result is dropped.
EimUnreachable(c) ==
  /\ cycle[c].at = "sending"
  /\ rows' = rows \/ Records(c)
  /\ Ends(c)
  /\ UNCHANGED <<euiccVars, session_eim, late, installed>>

\* What an exception leaves behind that ends the cycle where it is suspended.
BreaksOff(c) ==
  /\ Abandons(c)
  /\ rows' = rows \/ Records(c)

\* An answer of the eIM or the eUICC that is no JSON, an address that the eUICC
\* does not tell, a scan or a download whose result cannot be encoded: nobody
\* catches these.  A download catches its own.
CycleRaises(c) ==
  /\ \/ cycle[c].at \in {"fetching", "at_euicc", "profiles", "eim_config", "certs",
                          "addresses", "sending"}
     \/ cycle[c].at = "replied" /\ cycle[c].request \notin Packages
  /\ BreaksOff(c)
  /\ Raises(c)
  /\ UNCHANGED <<euiccVars, session_eim>>

\* stop_polling cancels the loop's cycle wherever it is suspended.
CycleCancelled(c) ==
  /\ c \in Stoppable
  /\ cycle[c].at # "idle"
  /\ BreaksOff(c)
  /\ Stops(c)
  /\ UNCHANGED <<euiccVars, session_eim, error_count>>

----------------------------------------------------------------------------

CycleNext(c) ==
  \/ get_eim_package(c) \/ EimGivesNothing(c) \/ EuiccServes(c) \/ EuiccUnreachable(c)
  \/ EuiccTellsAddress(c) \/ DownloadEnds(c) \/ \E k \in DOMAIN ScanReads : EuiccShows(c, k)
  \/ provide_eim_package_result(c) \/ EimRecords(c) \/ EimRecordsUnheard(c)
  \/ EimUnreachable(c) \/ CycleRaises(c) \/ CycleCancelled(c)
  \/ \E r \in Requests : EimGives(c, r)

Next ==
  \/ \E c \in Cycles : CycleNext(c)
  \/ \E e \in Registered : register_device(e)
  \/ EuiccServesLate
  \/ Maintenance /\ UNCHANGED <<ipaVars, rows, installed>>

Spec == Init /\ [][Next]_vars

\* An awaited call returns or raises, as the clients have timeouts, so that a cycle
\* moves on, and the loop polls again until it gives up.  The rest is an assumption
\* about the network and the servers: an eIM keeps no row back for ever, and no
\* call for one and the same request fails every time that it is tried.
FairSpec ==
  /\ Spec
  /\ \A c \in Cycles \ Stoppable :
       /\ WF_cycle(CycleNext(c))
       /\ \A r \in Packages \cup Triggers :
            /\ SF_vars(EimGives(c, r))
            /\ SF_vars(cycle[c].request = r /\ EuiccServes(c))
            /\ SF_vars(cycle[c].request = r /\ EuiccTellsAddress(c))
            /\ SF_vars(cycle[c].request = r /\ provide_eim_package_result(c))
            /\ SF_vars(cycle[c].request = r /\ EimRecords(c))

----------------------------------------------------------------------------
(* Properties.                                                             *)

\* The eUICC's, the IPA's and the eIMs' state are typed.
TypeOK ==
  /\ EuiccTypeOK
  /\ session_eim \in Registered
  /\ cycle \in [Cycles -> Cycle]
  /\ error_count \in Nat
  /\ late \in [Packages -> 0..MaxLate]
  /\ rows \in [Requests -> Row]
  /\ installed \in SUBSET Triggers

\* Results that an eIM stores are those of the package's execution on the eUICC,
\* and a download that it takes for done was done, although overlapping cycles
\* handle the same request, late requests overtake others, results are sent twice
\* and addresses change under way.
ReportedExecuted ==
  /\ \A p \in Packages :
       rows[p].results # <<>> =>
         \E k \in DOMAIN executed :
           executed[k].package = p /\ Encoded(executed[k].results) = rows[p].results
  /\ \A t \in Triggers : rows[t].status = "completed" => t \in installed

\* The four calls of a scan see the eUICC at four moments, with packages executed
\* in between.  What they show together is at least not ahead of the counters:
\* the profiles are shown as some number of executed packages has left them, and
\* each of these packages is counted in the associations that are shown, however
\* often the scan is repeated because its row stays queued.
ScansExplained ==
  \A s \in Scans :
    rows[s].data # None =>
      \E n \in 0..Len(executed) :
        /\ IF n = 0 THEN rows[s].data.slots \in InitialSlots
           ELSE rows[s].data.slots = executed[n].slots
        /\ \A k \in 1..n, a \in DOMAIN rows[s].data.assocs :
             rows[s].data.assocs[a].eim_id = executed[k].package.eimId =>
               rows[s].data.assocs[a].counter_value >= executed[k].package.counterValue

\* A queued package or trigger of the registered eIM does not stay queued for ever,
\* although neither a lost request nor a lost result is ever sent again by the IPA,
\* unless the loop has given up: it is handed out again, also between requests that
\* are never settled, and even a rejection or a failed download settles it.
RowsEnd ==
  \A r \in Packages \cup Triggers :
    r.eimId \in Registered => <>(rows[r].status # "queued" \/ error_count > MaxErrors)

----------------------------------------------------------------------------
(* The abstract promise, see RequestLedger.  A row without a result says   *)
(* that nothing is known, also when its status is "completed"; so does a   *)
(* failed download, which may have installed the profile.                  *)

Evident(r) == r \in Packages => rows[r].results # <<>>

Told(r) ==
  CASE rows[r].status = "queued" -> "none"
    [] rows[r].status = "completed" /\ Evident(r) -> "done"
    [] rows[r].status = "failed" /\ Evident(r) /\ r \in Packages -> "faulted"
    [] OTHER -> "unknown"

\* <<p, q>>: once p has been executed, q has too low a counter.
Outdated ==
  {pair \in Packages \X Packages :
     pair[1].eimId = pair[2].eimId /\ pair[1].counterValue >= pair[2].counterValue}

Ledger == INSTANCE RequestLedger
            WITH Package <- Packages, Download <- Triggers,
                 Stale <- Outdated,
                 log <- [k \in DOMAIN executed |-> executed[k].package],
                 downloaded <- installed,
                 answer <- [r \in Packages \cup Triggers |-> Told(r)]

\* No package takes effect twice or after a later one of its eIM, no request is
\* answered twice, and what its eIM is told to be done has been done before.
ImplementsLedger == Ledger!Spec
=============================================================================
