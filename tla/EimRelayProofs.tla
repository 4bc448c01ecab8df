--------------------------- MODULE EimRelayProofs ---------------------------
(***************************************************************************)
(* Proofs about EimRelay, with the eUICC that it relays to, for every set  *)
(* of eIMs, packages, scans, triggers, other requests and cycles.          *)
(***************************************************************************)
EXTENDS EimRelay, EuiccPackagesProofs

Reads == {"profiles", "eim_config", "certs"}
Ended == {"replied", "sending"}

\* Each call is for a request of its kind, and only packages are rejected.
Handles(r) ==
  /\ r.at = "at_euicc" => r.request \in Packages
  /\ r.at \in Reads => r.request \in Scans
  /\ r.at \in {"addresses", "downloading"} => r.request \in Triggers
  /\ r.at \in Ended => r.request \in Requests
  /\ r.rejected => r.at \in Ended /\ r.request \in Packages

\* The results a cycle has been told are those of an execution or download.
TruthfulIn(r, done, there) ==
  r.at \in Ended =>
    /\ r.request \in Packages /\ ~ r.rejected =>
         \E k \in DOMAIN done : done[k].package = r.request /\ done[k].results = r.results
    /\ r.request \in Triggers =>
         /\ r.results \in {<<"ok">>, <<"error">>}
         /\ r.results = <<"ok">> => r.request \in there

Truthful(r) == TruthfulIn(r, executed, installed)

\* Typed, up to the results in the rows.
RelayTyped ==
  /\ session_eim \in Registered
  /\ cycle \in [Cycles -> Cycle]
  /\ error_count \in Nat
  /\ late \in [Packages -> 0..MaxLate]
  /\ DOMAIN rows = Requests
  /\ installed \in SUBSET Triggers

CyclesOK == \A c \in Cycles : Handles(cycle[c]) /\ Truthful(cycle[c])

RelayInv == EuiccInv /\ RelayTyped /\ CyclesOK /\ ReportedExecuted

\* Nothing that was executed or installed is forgotten.
Grows ==
  /\ \A k \in DOMAIN executed : k \in DOMAIN executed' /\ executed'[k] = executed[k]
  /\ installed \subseteq installed'

LEMMA IdleIs ==
  /\ Idle \in Cycle /\ Idle.at = "idle" /\ ~ Idle.rejected
  /\ Idle.results = <<>> /\ Idle.request = None
<1>1. <<>> \in Seq(OpResult) /\ <<>> \in Seq(EimAssociation)
  OBVIOUS
<1>2. NoData \in ScanData
  BY <1>1 DEF NoData, ScanData, SlotState
<1> QED  BY <1>1, <1>2 DEF Idle, Cycle, Stages

LEMMA InitRelay == Init => RelayInv /\ Ahead
<1> SUFFICES ASSUME Init PROVE RelayInv /\ Ahead
  OBVIOUS
<1>1. EuiccInv /\ Ahead
  BY InitEuicc DEF Init
<1>2. RelayTyped
  BY IdleIs, RelayAssumption DEF Init, RelayTyped
<1>3. CyclesOK
  BY IdleIs DEF Init, CyclesOK, Handles, Truthful, TruthfulIn, Reads, Ended
<1>4. ReportedExecuted
  <2>1. \A r \in Requests : rows[r].results = <<>> /\ rows[r].status = "queued"
    BY DEF Init
  <2> QED  BY <2>1 DEF ReportedExecuted, Requests
<1> QED  BY <1>1, <1>2, <1>3, <1>4 DEF RelayInv

----------------------------------------------------------------------------
(* The eUICC under the relay.                                              *)

\* A step of the relay is one of the eUICC or leaves it alone.
LEMMA EuiccStep ==
  ASSUME RelayInv, [Next]_vars
  PROVE  \/ \E p \in Packages : load_euicc_package(p)
         \/ Maintenance
         \/ UNCHANGED euiccVars
<1>1. ASSUME NEW c \in Cycles, CycleNext(c)
      PROVE  (\E p \in Packages : load_euicc_package(p)) \/ UNCHANGED euiccVars
  <2>1. ASSUME EuiccServes(c) PROVE \E p \in Packages : load_euicc_package(p)
    <3>1. cycle[c].request \in Packages
      BY <2>1 DEF EuiccServes, RelayInv, CyclesOK, Handles
    <3> QED  BY <2>1, <3>1 DEF EuiccServes
  <2>2. ASSUME \/ get_eim_package(c) \/ EimGivesNothing(c) \/ EuiccUnreachable(c)
               \/ DownloadEnds(c) \/ \E k \in DOMAIN ScanReads : EuiccShows(c, k)
               \/ provide_eim_package_result(c) \/ EimRecords(c) \/ EimRecordsUnheard(c)
               \/ EimUnreachable(c) \/ EuiccTellsAddress(c) \/ CycleRaises(c)
               \/ CycleCancelled(c) \/ \E r \in Requests : EimGives(c, r)
        PROVE  UNCHANGED euiccVars
    BY <2>2 DEF get_eim_package, EimGivesNothing, EuiccUnreachable, DownloadEnds, EuiccShows,
         provide_eim_package_result, EimRecords, EimRecordsUnheard, EimUnreachable,
         EuiccTellsAddress, CycleRaises, CycleCancelled, EimGives
  <2> QED  BY <1>1, <2>1, <2>2 DEF CycleNext
<1>2. ASSUME NEW e \in Registered, register_device(e) PROVE UNCHANGED euiccVars
  BY <1>2 DEF register_device
<1>3. ASSUME EuiccServesLate PROVE \E p \in Packages : load_euicc_package(p)
  BY <1>3 DEF EuiccServesLate
<1>4. ASSUME UNCHANGED vars PROVE UNCHANGED euiccVars
  BY <1>4 DEF vars
<1> QED  BY <1>1, <1>2, <1>3, <1>4 DEF Next

\* It keeps the eUICC's invariants and what has been executed.
LEMMA EuiccKept ==
  ASSUME RelayInv, [Next]_vars
  PROVE  /\ EuiccInv'
         /\ eim_associations # <<>> => eim_associations' # <<>>
         /\ AssociationsLast /\ Ahead => Ahead'
         /\ \A k \in DOMAIN executed : k \in DOMAIN executed' /\ executed'[k] = executed[k]
<1>1. ASSUME NEW p \in Packages, load_euicc_package(p)
      PROVE  /\ EuiccInv'
             /\ eim_associations # <<>> => eim_associations' # <<>>
             /\ AssociationsLast /\ Ahead => Ahead'
             /\ \A k \in DOMAIN executed : k \in DOMAIN executed' /\ executed'[k] = executed[k]
  BY <1>1, LoadEffect DEF RelayInv
<1>2. CASE Maintenance
  BY <1>2, MaintenanceEffect DEF RelayInv
<1>3. CASE UNCHANGED euiccVars
  <2>1. eim_associations' = eim_associations /\ slots' = slots /\ executed' = executed
    BY <1>3 DEF euiccVars
  <2>2. EuiccInv'
    BY <2>1 DEF RelayInv, EuiccInv, EuiccTypeOK, OneOfEach, AtMostOneIn, LastSlots
  <2>3. Ahead => Ahead'
    BY <2>1 DEF Ahead, ExecutedInOrder, Settled, Done, Known
  <2> QED  BY <2>1, <2>2, <2>3
<1> QED  BY <1>1, <1>2, <1>3, EuiccStep

----------------------------------------------------------------------------
(* The cycles.                                                             *)

LEMMA OneCycle ==
  ASSUME RelayInv, Grows, NEW c \in Cycles, NEW r \in Cycle,
         Handles(r), TruthfulIn(r, executed', installed'),
         cycle' = [cycle EXCEPT ![c] = r]
  PROVE  cycle' \in [Cycles -> Cycle] /\ CyclesOK'
<1>1. cycle \in [Cycles -> Cycle]
  BY DEF RelayInv, RelayTyped
<1>2. ASSUME NEW d \in Cycles
      PROVE  Handles(cycle'[d]) /\ TruthfulIn(cycle'[d], executed', installed')
  <2>1. CASE d = c
    BY <1>1, <2>1
  <2>2. CASE d # c
    <3>1. cycle'[d] = cycle[d]
      BY <1>1, <2>2
    <3>2. Handles(cycle[d]) /\ TruthfulIn(cycle[d], executed, installed)
      BY DEF RelayInv, CyclesOK, Truthful
    <3>3. TruthfulIn(cycle[d], executed', installed')
      BY <3>2 DEF TruthfulIn, Grows
    <3> QED  BY <3>1, <3>2, <3>3
  <2> QED  BY <2>1, <2>2
<1>3. CyclesOK'
  BY <1>2 DEF CyclesOK, Handles, Truthful
<1> QED  BY <1>1, <1>3

LEMMA SameCycles ==
  ASSUME RelayInv, Grows, UNCHANGED cycle
  PROVE  cycle' \in [Cycles -> Cycle] /\ CyclesOK'
<1>1. ASSUME NEW d \in Cycles
      PROVE  Handles(cycle[d]) /\ TruthfulIn(cycle[d], executed', installed')
  BY DEF RelayInv, CyclesOK, Truthful, TruthfulIn, Grows
<1> QED  BY <1>1 DEF CyclesOK, Handles, Truthful, RelayInv, RelayTyped

LEMMA EndedCycle ==
  ASSUME RelayInv, Grows, NEW c \in Cycles, Stops(c)
  PROVE  cycle' \in [Cycles -> Cycle] /\ CyclesOK'
<1>1. Handles(Idle) /\ TruthfulIn(Idle, executed', installed')
  BY IdleIs DEF Handles, TruthfulIn, Reads, Ended
<1> QED  BY <1>1, IdleIs, OneCycle DEF Stops

LEMMA CycleKept ==
  ASSUME RelayInv, Grows, NEW c \in Cycles, CycleNext(c)
  PROVE  cycle' \in [Cycles -> Cycle] /\ CyclesOK'
<1> DEFINE old == cycle[c]
<1>1. old \in Cycle /\ Handles(old) /\ TruthfulIn(old, executed, installed)
  BY DEF RelayInv, RelayTyped, CyclesOK, Truthful
<1>2. cycle \in [Cycles -> Cycle] /\ session_eim \in EimIds
  BY RelayAssumption DEF RelayInv, RelayTyped
<1>3. CASE get_eim_package(c)
  <2> DEFINE r == [Idle EXCEPT !.at = "fetching", !.eim = session_eim]
  <2>1. r \in Cycle /\ r.at = "fetching" /\ ~ r.rejected
    BY <1>2, IdleIs DEF Cycle, Stages
  <2>2. cycle' = [cycle EXCEPT ![c] = r]
    BY <1>3 DEF get_eim_package
  <2> HIDE DEF r
  <2>3. Handles(r) /\ TruthfulIn(r, executed', installed')
    BY <2>1 DEF Handles, TruthfulIn, Reads, Ended
  <2> QED  BY <2>1, <2>2, <2>3, OneCycle
<1>4. CASE \E q \in Requests : EimGives(c, q)
  <2>1. PICK q \in Requests : EimGives(c, q)
    BY <1>4
  <2> DEFINE r == [old EXCEPT !.at = FirstCall(q), !.request = q]
  <2>a. CASE q \in Foreign
    <3>1. Stops(c)
      BY <2>1, <2>a DEF EimGives, Ends
    <3> QED  BY <3>1, EndedCycle
  <2>b. SUFFICES ASSUME q \notin Foreign PROVE cycle' \in [Cycles -> Cycle] /\ CyclesOK'
    BY <2>a
  <2>2. /\ FirstCall(q) \in {"at_euicc", "profiles", "addresses", "downloading"}
        /\ FirstCall(q) = "at_euicc" => q \in Packages
        /\ FirstCall(q) = "profiles" => q \in Scans
        /\ FirstCall(q) \in {"addresses", "downloading"} => q \in Triggers
        /\ FirstCall(q) \in Stages
    BY <2>b, RelayAssumption DEF FirstCall, ScanReads, Stages, Requests
  <2>3. old.at = "fetching"
    BY <2>1 DEF EimGives
  <2>4. r \in Cycle /\ r.at = FirstCall(q) /\ r.request = q /\ r.rejected = old.rejected
    BY <1>1, <2>2 DEF Cycle
  <2>5. cycle' = [cycle EXCEPT ![c] = r]
    BY <1>2, <2>1, <2>b DEF EimGives
  <2> HIDE DEF r, old
  <2>6. Handles(r) /\ TruthfulIn(r, executed', installed')
    BY <1>1, <2>2, <2>3, <2>4 DEF Handles, TruthfulIn, Reads, Ended
  <2> QED  BY <2>4, <2>5, <2>6, OneCycle
<1>5. CASE EuiccServes(c)
  <2> DEFINE p == old.request
             reply == Reply(p)
             r == [old EXCEPT !.at = "replied", !.rejected = reply.rejected,
                              !.results = reply.results]
  <2>1. p \in Packages /\ load_euicc_package(p)
    BY <1>1, <1>5 DEF EuiccServes, Handles
  <2>2. Accepts(p) => Effect(p).results \in Seq(OpResult)
    <3>1. {} \in SUBSET Packages
      OBVIOUS
    <3>2. Accepts(p) => CardOK(Effect(p))
      BY <2>1, <3>1, ExecutedEffect DEF RelayInv
    <3> QED  BY <3>2 DEF CardOK, Card
  <2>3. /\ reply.rejected \in BOOLEAN /\ reply.results \in Seq(OpResult)
        /\ ~ reply.rejected => Accepts(p) /\ reply.results = Effect(p).results
    BY <2>2 DEF Reply
  <2>4. ~ reply.rejected => \E k \in DOMAIN executed' :
          executed'[k].package = p /\ executed'[k].results = reply.results
    BY <2>1, <2>3, LoadEffect DEF RelayInv
  <2>5. cycle' = [cycle EXCEPT ![c] = r]
    BY <1>2, <1>5 DEF EuiccServes
  <2> HIDE DEF reply
  <2>6. /\ r \in Cycle /\ r.at = "replied" /\ r.request = p /\ r.rejected = reply.rejected
        /\ r.results = reply.results
    BY <1>1, <2>3 DEF Cycle, Stages
  <2> HIDE DEF r
  <2>7. Handles(r)
    BY <2>1, <2>6 DEF Handles, Reads, Ended, Requests
  <2>8. p \notin Triggers
    BY <2>1, RelayAssumption
  <2>9. TruthfulIn(r, executed', installed')
    BY <2>4, <2>6, <2>8 DEF TruthfulIn
  <2> QED  BY <2>5, <2>6, <2>7, <2>9, OneCycle
<1>6. CASE \E k \in DOMAIN ScanReads : EuiccShows(c, k)
  <2>1. PICK k \in DOMAIN ScanReads : EuiccShows(c, k)
    BY <1>6
  <2> DEFINE at == IF k < Len(ScanReads) THEN ScanReads[k + 1] ELSE "replied"
             s  == IF ScanReads[k] = "profiles" THEN slots ELSE old.data.slots
             a  == IF ScanReads[k] = "eim_config" THEN eim_associations ELSE old.data.assocs
             r == [old EXCEPT !.at = at, !.data.slots = s, !.data.assocs = a]
  <2>2. k \in 1..3 /\ Len(ScanReads) = 3 /\ ScanReads[1] = "profiles"
        /\ ScanReads[2] = "eim_config" /\ ScanReads[3] = "certs"
    BY DEF ScanReads
  <2>3. at \in {"eim_config", "certs", "replied"} /\ old.at \in Reads
    BY <2>1, <2>2 DEF EuiccShows, Reads
  <2>4. old.request \in Scans
    BY <1>1, <2>3 DEF Handles
  <2>5. old.data \in ScanData /\ s \in [Iccids -> SlotState] /\ a \in Seq(EimAssociation)
    BY <1>1 DEF RelayInv, EuiccInv, EuiccTypeOK, Cycle, ScanData
  <2>6. cycle' = [cycle EXCEPT ![c] = r]
    BY <1>2, <2>1 DEF EuiccShows
  <2> HIDE DEF at, s, a
  <2>7. /\ r \in Cycle /\ r.at = at /\ r.request = old.request /\ r.rejected = old.rejected
    BY <1>1, <2>3, <2>5 DEF Cycle, Stages, ScanData
  <2> HIDE DEF r
  <2>8. Handles(r) /\ TruthfulIn(r, executed', installed')
    BY <1>1, <2>3, <2>4, <2>7, RelayAssumption DEF Handles, TruthfulIn, Reads, Ended, Requests
  <2> QED  BY <2>6, <2>7, <2>8, OneCycle
<1>7. CASE DownloadEnds(c)
  <2>1. PICK result \in {"ok", "error"} :
          /\ cycle' = [cycle EXCEPT ![c].at = "replied", ![c].results = <<result>>]
          /\ result = "ok" => old.request \in installed'
    BY <1>7 DEF DownloadEnds
  <2> DEFINE r == [old EXCEPT !.at = "replied", !.results = <<result>>]
  <2>2. old.request \in Triggers /\ ~ old.rejected
    BY <1>1, <1>7 DEF DownloadEnds, Handles, Ended
  <2>3. <<result>> \in Seq(OpResult)
    BY DEF OpResult
  <2>4. r \in Cycle /\ r.at = "replied" /\ r.request = old.request
        /\ r.rejected = old.rejected /\ r.results = <<result>>
    BY <1>1, <2>3 DEF Cycle, Stages
  <2>5. cycle' = [cycle EXCEPT ![c] = r]
    BY <1>2, <2>1
  <2> HIDE DEF r
  <2>6. Handles(r)
    BY <2>2, <2>4 DEF Handles, Reads, Ended, Requests
  <2>7. TruthfulIn(r, executed', installed')
    BY <2>1, <2>2, <2>4, RelayAssumption DEF TruthfulIn
  <2> QED  BY <2>4, <2>5, <2>6, <2>7, OneCycle
<1>8. CASE provide_eim_package_result(c)
  <2> DEFINE r == [old EXCEPT !.at = "sending", !.eim = session_eim]
  <2>1. r \in Cycle /\ r.at = "sending" /\ r.request = old.request
        /\ r.rejected = old.rejected /\ r.results = old.results
    BY <1>1, <1>2 DEF Cycle, Stages
  <2>2. old.at = "replied" /\ cycle' = [cycle EXCEPT ![c] = r]
    BY <1>2, <1>8 DEF provide_eim_package_result
  <2> HIDE DEF r
  <2>3. Handles(r)
    BY <1>1, <2>1, <2>2 DEF Handles, Reads, Ended
  <2>4. TruthfulIn(r, executed', installed')
    BY <1>1, <2>1, <2>2 DEF TruthfulIn, Ended, Grows
  <2> QED  BY <2>1, <2>2, <2>3, <2>4, OneCycle
<1>9. CASE EimRecordsUnheard(c)
  BY <1>9, SameCycles DEF EimRecordsUnheard, ipaVars
<1>10. CASE EimGivesNothing(c) \/ EuiccUnreachable(c) \/ EimRecords(c)
            \/ EimUnreachable(c) \/ CycleRaises(c) \/ CycleCancelled(c)
  <2>1. Stops(c)
    BY <1>10 DEF EimGivesNothing, EuiccUnreachable, EimRecords, EimUnreachable, CycleRaises,
         CycleCancelled, Ends, Raises
  <2> QED  BY <2>1, EndedCycle
<1>11. CASE EuiccTellsAddress(c)
  <2> DEFINE r == [old EXCEPT !.at = "downloading"]
  <2>1. r \in Cycle /\ r.at = "downloading" /\ r.request = old.request /\ ~ r.rejected
    BY <1>1, <1>11 DEF EuiccTellsAddress, Cycle, Stages, Handles, Ended
  <2>2. old.at = "addresses" /\ cycle' = [cycle EXCEPT ![c] = r]
    BY <1>2, <1>11 DEF EuiccTellsAddress
  <2> HIDE DEF r
  <2>3. Handles(r) /\ TruthfulIn(r, executed', installed')
    BY <1>1, <2>1, <2>2 DEF Handles, TruthfulIn, Reads, Ended
  <2> QED  BY <2>1, <2>2, <2>3, OneCycle
<1> QED  BY <1>3, <1>4, <1>5, <1>6, <1>7, <1>8, <1>9, <1>10, <1>11 DEF CycleNext

----------------------------------------------------------------------------
(* The eIMs' rows.                                                         *)

LEMMA RowsKept ==
  ASSUME RelayInv, Grows, rows' = rows \/ \E c \in Cycles : Records(c)
  PROVE  DOMAIN rows' = Requests /\ ReportedExecuted'
<1>1. /\ DOMAIN rows = Requests /\ ReportedExecuted
      /\ Packages \subseteq Requests /\ Triggers \subseteq Requests
  BY DEF RelayInv, RelayTyped, Requests
<1>2. CASE rows' = rows
  <2>1. \A q \in Packages :
          rows'[q].results # <<>> =>
            \E k \in DOMAIN executed' :
              executed'[k].package = q /\ Encoded(executed'[k].results) = rows'[q].results
    BY <1>1, <1>2 DEF ReportedExecuted, Grows
  <2>2. \A t \in Triggers : rows'[t].status = "completed" => t \in installed'
    BY <1>1, <1>2 DEF ReportedExecuted, Grows
  <2> QED  BY <1>1, <1>2, <2>1, <2>2 DEF ReportedExecuted
<1>3. ASSUME NEW c \in Cycles, Records(c), rows' # rows
      PROVE  DOMAIN rows' = Requests /\ ReportedExecuted'
  <2> DEFINE r == cycle[c]
             q == r.request
             status == IF \E k \in DOMAIN Reported(c) : Reported(c)[k] # "ok"
                       THEN "failed" ELSE "completed"
             row == IF q \in Scans
                    THEN [status |-> "queued", results |-> <<>>, data |-> r.data]
                    ELSE [status |-> status, results |-> Reported(c), data |-> None]
  <2>1. r.at = "sending" /\ rows' = [rows EXCEPT ![q] = row]
    BY <1>3 DEF Records, Recorded
  <2>2. Handles(r) /\ TruthfulIn(r, executed, installed)
    BY DEF RelayInv, CyclesOK, Truthful
  <2>3. q \in Packages \cup Triggers => row.status = status /\ row.results = Reported(c)
    BY RelayAssumption
  <2> HIDE DEF row
  <2>4. rows'[q] = row /\ \A x \in Requests : x # q => rows'[x] = rows[x]
    BY <1>1, <2>1, <2>2 DEF Handles, Ended
  <2>5. \A p \in Packages :
          rows'[p].results # <<>> =>
            \E k \in DOMAIN executed' :
              executed'[k].package = p /\ Encoded(executed'[k].results) = rows'[p].results
    <3> TAKE p \in Packages
    <3> HAVE rows'[p].results # <<>>
    <3>1. CASE p = q
      <4>1. ~ r.rejected /\ Reported(c) = Encoded(r.results)
        BY <2>3, <2>4, <3>1 DEF Reported
      <4>2. PICK k \in DOMAIN executed :
              executed[k].package = p /\ executed[k].results = r.results
        BY <2>1, <2>2, <3>1, <4>1 DEF TruthfulIn, Ended
      <4>3. k \in DOMAIN executed' /\ executed'[k] = executed[k]
        BY DEF Grows
      <4> QED  BY <2>3, <2>4, <3>1, <4>1, <4>2, <4>3
    <3>2. CASE p # q
      <4>1. rows'[p] = rows[p]
        BY <1>1, <2>4, <3>2
      <4>2. PICK k \in DOMAIN executed :
              executed[k].package = p /\ Encoded(executed[k].results) = rows[p].results
        BY <1>1, <4>1 DEF ReportedExecuted
      <4>3. k \in DOMAIN executed' /\ executed'[k] = executed[k]
        BY DEF Grows
      <4> QED  BY <4>1, <4>2, <4>3
    <3> QED  BY <3>1, <3>2
  <2>6. \A t \in Triggers : rows'[t].status = "completed" => t \in installed'
    <3> TAKE t \in Triggers
    <3> HAVE rows'[t].status = "completed"
    <3>1. CASE t = q
      <4>1. t \notin Packages
        BY RelayAssumption
      <4>2. ~ r.rejected
        BY <2>2, <3>1, <4>1 DEF Handles
      <4>3. Reported(c) = r.results
        BY <3>1, <4>1, <4>2 DEF Reported
      <4>4. /\ r.results \in {<<"ok">>, <<"error">>}
            /\ r.results = <<"ok">> => t \in installed
        BY <2>1, <2>2, <3>1 DEF TruthfulIn, Ended
      <4>5. r.results # <<"error">>
        <5>1. status = "completed"
          BY <2>3, <2>4, <3>1
        <5>2. \A k \in DOMAIN r.results : r.results[k] = "ok"
          BY <4>3, <5>1
        <5>3. 1 \in DOMAIN <<"error">> /\ <<"error">>[1] = "error"
          OBVIOUS
        <5> QED  BY <5>2, <5>3
      <4> QED  BY <4>4, <4>5 DEF Grows
    <3>2. CASE t # q
      BY <1>1, <2>4, <3>2 DEF ReportedExecuted, Grows
    <3> QED  BY <3>1, <3>2
  <2>7. DOMAIN rows' = Requests
    BY <1>1, <2>1
  <2> QED  BY <2>5, <2>6, <2>7 DEF ReportedExecuted
<1> QED  BY <1>2, <1>3

----------------------------------------------------------------------------
(* Steps.                                                                  *)

\* What a step of a cycle does beside the cycles.
LEMMA CycleOthers ==
  ASSUME RelayInv, NEW c \in Cycles, CycleNext(c)
  PROVE  /\ session_eim' = session_eim
         /\ late' \in [Packages -> 0..MaxLate] /\ error_count' \in Nat
         /\ installed \subseteq installed' /\ installed' \in SUBSET Triggers
         /\ rows' = rows \/ Records(c)
<1>1. /\ late \in [Packages -> 0..MaxLate] /\ installed \in SUBSET Triggers
      /\ error_count \in Nat
      /\ Handles(cycle[c]) /\ MaxLate \in Nat
  BY RelayAssumption DEF RelayInv, RelayTyped, CyclesOK
<1>2. ASSUME Abandons(c)
      PROVE  /\ late' \in [Packages -> 0..MaxLate]
             /\ installed \subseteq installed' /\ installed' \in SUBSET Triggers
  <2>1. CASE UNCHANGED <<late, installed>>
    BY <1>1, <2>1
  <2>2. CASE /\ cycle[c].at = "at_euicc"
             /\ late[cycle[c].request] < MaxLate
             /\ late' = [late EXCEPT ![cycle[c].request] = @ + 1]
             /\ UNCHANGED installed
    <3>1. cycle[c].request \in Packages
      BY <1>1, <2>2 DEF Handles
    <3>2. late[cycle[c].request] + 1 \in 0..MaxLate
      BY <1>1, <2>2, <3>1
    <3> QED  BY <1>1, <2>2, <3>1, <3>2
  <2>3. CASE /\ cycle[c].at = "downloading"
             /\ installed' = installed \cup {cycle[c].request}
             /\ UNCHANGED late
    BY <1>1, <2>3 DEF Handles
  <2> QED  BY <1>2, <2>1, <2>2, <2>3 DEF Abandons
<1>3. ASSUME \/ get_eim_package(c) \/ EimGivesNothing(c) \/ EuiccServes(c)
             \/ \E k \in DOMAIN ScanReads : EuiccShows(c, k)
             \/ provide_eim_package_result(c) \/ EimRecords(c) \/ EimRecordsUnheard(c)
             \/ EimUnreachable(c) \/ EuiccTellsAddress(c)
             \/ \E r \in Requests : EimGives(c, r)
      PROVE  /\ session_eim' = session_eim /\ late' = late /\ installed' = installed
             /\ error_count' \in Nat
             /\ rows' = rows \/ Records(c)
  <2>1. /\ session_eim' = session_eim /\ late' = late /\ installed' = installed
        /\ error_count' = error_count \/ Ends(c)
        /\ rows' = rows \/ Records(c)
    BY <1>3 DEF get_eim_package, EimGivesNothing, EuiccServes, EuiccShows,
         provide_eim_package_result, EimRecords, EimRecordsUnheard, EimUnreachable,
         EuiccTellsAddress, EimGives, ipaVars
  <2>2. Ends(c) => error_count' \in Nat
    BY <1>1 DEF Ends
  <2> QED  BY <1>1, <2>1, <2>2
<1>4. CASE EuiccUnreachable(c)
  <2>1. /\ session_eim' = session_eim /\ rows' = rows /\ error_count' \in Nat
        /\ Abandons(c)
    BY <1>1, <1>4 DEF EuiccUnreachable, Ends
  <2> QED  BY <1>2, <2>1
<1>5. CASE CycleRaises(c) \/ CycleCancelled(c)
  <2>1. /\ session_eim' = session_eim /\ error_count' \in Nat
        /\ rows' = rows \/ Records(c)
        /\ Abandons(c)
    BY <1>1, <1>5 DEF CycleRaises, CycleCancelled, BreaksOff, Raises
  <2> QED  BY <1>2, <2>1
<1>6. CASE DownloadEnds(c)
  <2>1. /\ session_eim' = session_eim /\ rows' = rows /\ late' = late
        /\ error_count' = error_count
        /\ installed' = installed \cup {cycle[c].request} \/ installed' = installed
        /\ cycle[c].at = "downloading"
    BY <1>6 DEF DownloadEnds
  <2> QED  BY <1>1, <2>1 DEF Handles
<1> QED  BY <1>1, <1>3, <1>4, <1>5, <1>6 DEF CycleNext

LEMMA NextRelay == RelayInv /\ [Next]_vars => RelayInv' /\ Grows
<1> SUFFICES ASSUME RelayInv, [Next]_vars PROVE RelayInv' /\ Grows
  OBVIOUS
<1>1. /\ EuiccInv'
      /\ \A k \in DOMAIN executed : k \in DOMAIN executed' /\ executed'[k] = executed[k]
  BY EuiccKept
<1>2. session_eim \in Registered /\ late \in [Packages -> 0..MaxLate]
      /\ installed \in SUBSET Triggers /\ MaxLate \in Nat /\ error_count \in Nat
  BY RelayAssumption DEF RelayInv, RelayTyped
<1>3. ASSUME NEW c \in Cycles, CycleNext(c) PROVE RelayInv' /\ Grows
  <2>1. /\ session_eim' = session_eim /\ late' \in [Packages -> 0..MaxLate]
        /\ error_count' \in Nat
        /\ installed \subseteq installed' /\ installed' \in SUBSET Triggers
        /\ rows' = rows \/ Records(c)
    BY <1>3, CycleOthers
  <2>2. Grows
    BY <1>1, <2>1 DEF Grows
  <2>3. cycle' \in [Cycles -> Cycle] /\ CyclesOK'
    BY <1>3, <2>2, CycleKept
  <2>4. DOMAIN rows' = Requests /\ ReportedExecuted'
    BY <2>1, <2>2, RowsKept
  <2> QED  BY <1>1, <1>2, <2>1, <2>2, <2>3, <2>4 DEF RelayInv, RelayTyped
<1>4. ASSUME session_eim' \in Registered, late' \in [Packages -> 0..MaxLate],
             UNCHANGED <<cycle, error_count, rows, installed>>
      PROVE  RelayInv' /\ Grows
  <2>1. Grows
    BY <1>1, <1>4 DEF Grows
  <2>2. cycle' \in [Cycles -> Cycle] /\ CyclesOK'
    BY <1>4, <2>1, SameCycles
  <2>3. DOMAIN rows' = Requests /\ ReportedExecuted'
    BY <1>4, <2>1, RowsKept
  <2> QED  BY <1>1, <1>2, <1>4, <2>1, <2>2, <2>3 DEF RelayInv, RelayTyped
<1>5. ASSUME NEW e \in Registered, register_device(e) PROVE RelayInv' /\ Grows
  BY <1>2, <1>4, <1>5 DEF register_device
<1>6. ASSUME EuiccServesLate PROVE RelayInv' /\ Grows
  <2>1. PICK p \in Packages : late[p] > 0 /\ late' = [late EXCEPT ![p] = @ - 1]
    BY <1>6 DEF EuiccServesLate
  <2>2. late[p] - 1 \in 0..MaxLate
    BY <1>2, <2>1
  <2>3. late' \in [Packages -> 0..MaxLate]
    BY <1>2, <2>1, <2>2
  <2> QED  BY <1>2, <1>4, <1>6, <2>3 DEF EuiccServesLate
<1>7. ASSUME Maintenance /\ UNCHANGED <<ipaVars, rows, installed>> PROVE RelayInv' /\ Grows
  BY <1>2, <1>4, <1>7 DEF ipaVars
<1>8. ASSUME UNCHANGED vars PROVE RelayInv' /\ Grows
  BY <1>2, <1>4, <1>8 DEF vars, ipaVars
<1> QED  BY <1>3, <1>5, <1>6, <1>7, <1>8 DEF Next

LEMMA RelayInvariance == Spec => []RelayInv
<1>1. Init => RelayInv
  BY InitRelay
<1>2. RelayInv /\ [Next]_vars => RelayInv'
  BY NextRelay
<1> QED  BY <1>1, <1>2, PTL DEF Spec

----------------------------------------------------------------------------
(* Types of the rows.                                                      *)

\* What is left of a list of results is such a list.
LEMMA EncodedTyped ==
  ASSUME NEW results \in Seq(OpResult)
  PROVE  Encoded(results) \in Seq(OpResult)
<1> DEFINE n == Len(results)
           X == Seq(OpResult)
           Next1(k, s) == IF results[k] = "unknownAction" THEN s ELSE Append(s, results[k])
           G == [y \in (1..n) \X X |-> Next1(y[1], y[2])]
           Step(h) == [k \in 0..n |->
                         IF k = 0 THEN <<>>
                         ELSE IF results[k] = "unknownAction" THEN h[k - 1]
                         ELSE Append(h[k - 1], results[k])]
           UpTo == CHOOSE h : h = Step(h)
<1>1. n \in Nat /\ <<>> \in X /\ \A k \in 1..n : results[k] \in OpResult
  OBVIOUS
<1>2. \A s \in X, k \in 1..n : Next1(k, s) \in X
  BY <1>1
<1>3. /\ G \in [(1..n) \X X -> X]
      /\ \A k \in 1..n, s \in X : G[<<k, s>>] = Next1(k, s)
  <2> HIDE DEF Next1, X
  <2> QED  BY <1>2
<1> HIDE DEF X, G, n
<1>4. /\ \E g \in [0..n -> X] : Iterates(g, <<>>, n, G, X)
      /\ \A h : Iterates(h, <<>>, n, G, X) => \A k \in 0..n : h[k] \in X
  BY <1>1, <1>3, Iteration
<1>5. PICK g \in [0..n -> X] : Iterates(g, <<>>, n, G, X)
  BY <1>4
<1>6. g = Step(g)
  <2>1. \A k \in 1..n : g[k - 1] \in X
    BY <1>1
  <2>2. g[0] = <<>> /\ \A k \in 1..n : g[k] = Next1(k, g[k - 1])
    <3> HIDE DEF Next1
    <3> QED  BY <1>3, <1>5, <2>1 DEF Iterates
  <2> QED  BY <1>1, <1>5, <2>2
<1>7. UpTo = Step(UpTo)
  BY <1>6
<1> HIDE DEF UpTo
<1>8. UpTo[0] = <<>> /\ \A k \in 1..n : UpTo[k] = Next1(k, UpTo[k - 1])
  <2>1. ASSUME NEW k \in 0..n
        PROVE  UpTo[k] = IF k = 0 THEN <<>>
                         ELSE IF results[k] = "unknownAction" THEN UpTo[k - 1]
                         ELSE Append(UpTo[k - 1], results[k])
    <3>1. Step(UpTo)[k] = IF k = 0 THEN <<>>
                          ELSE IF results[k] = "unknownAction" THEN UpTo[k - 1]
                          ELSE Append(UpTo[k - 1], results[k])
      OBVIOUS
    <3> HIDE DEF Step
    <3> QED  BY <1>7, <3>1
  <2> HIDE DEF Step
  <2>2. 0 \in 0..n /\ \A k \in 1..n : k \in 0..n /\ k # 0
    BY <1>1
  <2> QED  BY <2>1, <2>2
<1>9. Iterates(UpTo, <<>>, n, G, X)
  <2> HIDE DEF Next1
  <2> QED  BY <1>3, <1>8 DEF Iterates
<1>10. UpTo[n] \in X
  <2>1. \A k \in 0..n : UpTo[k] \in X
    BY <1>4, <1>9
  <2> QED  BY <1>1, <2>1
<1>11. Encoded(results) = UpTo[n]
  BY DEF Encoded, UpTo, n
<1> QED  BY <1>10, <1>11 DEF X

RowsTyped == rows \in [Requests -> Row]

LEMMA RowsStayTyped ==
  ASSUME RelayInv, RowsTyped, [Next]_vars
  PROVE  RowsTyped'
<1>1. ASSUME NEW c \in Cycles, Records(c)
      PROVE  RowsTyped'
  <2> DEFINE r == cycle[c]
             q == r.request
             status == IF \E k \in DOMAIN Reported(c) : Reported(c)[k] # "ok"
                       THEN "failed" ELSE "completed"
             row == IF q \in Scans
                    THEN [status |-> "queued", results |-> <<>>, data |-> r.data]
                    ELSE [status |-> status, results |-> Reported(c), data |-> None]
  <2>1. /\ r.results \in Seq(OpResult) /\ r.data \in ScanData
    BY DEF RelayInv, RelayTyped, Cycle
  <2>2. Reported(c) \in Seq(OpResult)
    BY <2>1, EncodedTyped DEF Reported
  <2>3. status \in {"completed", "failed"}
    OBVIOUS
  <2> HIDE DEF status
  <2>4. row \in Row
    BY <2>1, <2>2, <2>3 DEF Row
  <2>5. rows' = [rows EXCEPT ![q] = row] \/ rows' = rows
    BY <1>1 DEF Records, Recorded, status
  <2> HIDE DEF row
  <2> QED  BY <2>4, <2>5 DEF RowsTyped
<1>2. rows' = rows \/ \E c \in Cycles : Records(c)
  <2>1. ASSUME NEW c \in Cycles, CycleNext(c) PROVE rows' = rows \/ Records(c)
    BY <2>1, CycleOthers
  <2>2. ASSUME NEW e \in Registered, register_device(e) PROVE rows' = rows
    BY <2>2 DEF register_device
  <2>3. CASE EuiccServesLate
    BY <2>3 DEF EuiccServesLate
  <2>4. CASE Maintenance /\ UNCHANGED <<ipaVars, rows, installed>>
    BY <2>4
  <2>5. CASE UNCHANGED vars
    BY <2>5 DEF vars
  <2> QED  BY <2>1, <2>2, <2>3, <2>4, <2>5 DEF Next
<1> QED  BY <1>1, <1>2 DEF RowsTyped

----------------------------------------------------------------------------

\* The eUICC, the cycles, the late requests and the eIMs' rows keep their types,
\* whatever is encoded, lost, repeated and cancelled.
THEOREM RelayTypes == Spec => []TypeOK
<1>1. Init => RowsTyped
  <2> SUFFICES ASSUME Init PROVE RowsTyped
    OBVIOUS
  <2>1. <<>> \in Seq(OpResult)
    OBVIOUS
  <2>2. [status |-> "queued", results |-> <<>>, data |-> None] \in Row
    BY <2>1 DEF Row
  <2> QED  BY <2>2 DEF Init, RowsTyped
<1>2. RelayInv /\ RowsTyped /\ [Next]_vars => RowsTyped'
  BY RowsStayTyped
<1>3. RelayInv /\ RowsTyped => TypeOK
  BY DEF RelayInv, EuiccInv, RelayTyped, RowsTyped, TypeOK
<1> QED  BY <1>1, <1>2, <1>3, RelayInvariance, PTL DEF Spec

\* However packages are redelivered and overtake each other: at most one profile
\* is enabled, and no eIM is associated twice.
THEOREM OneProfileOneAssociation == Spec => []OneOfEach
<1>1. RelayInv => OneOfEach
  BY DEF RelayInv, EuiccInv
<1> QED  BY <1>1, RelayInvariance, PTL

\* What an eIM stores about a package is what its execution gave, and a download
\* it takes for done was done.
THEOREM ReportsAreTrue == Spec => []ReportedExecuted
<1>1. RelayInv => ReportedExecuted
  BY DEF RelayInv
<1> QED  BY <1>1, RelayInvariance, PTL

\* No package, no route and no order of them takes the last association.
THEOREM LastAssociationStays == Spec => LastAssociationKept
<1>1. RelayInv /\ [Next]_vars =>
        [eim_associations # <<>> => eim_associations' # <<>>]_eim_associations
  BY EuiccKept
<1> QED  BY <1>1, RelayInvariance, PTL DEF Spec, LastAssociationKept

\* As long as no eIM is both added and deleted, and no update sets a counter: each
\* eIM's packages are executed in the order of their counters, whatever the relay
\* loses, repeats and delays.
THEOREM OrderHolds == AssociationsLast => (Spec => []ExecutedInOrder)
<1> SUFFICES ASSUME AssociationsLast PROVE Spec => []ExecutedInOrder
  OBVIOUS
<1>1. Init => Ahead
  BY InitRelay
<1>2. RelayInv /\ Ahead /\ [Next]_vars => Ahead'
  BY EuiccKept
<1>3. Ahead => ExecutedInOrder
  BY DEF Ahead
<1> QED  BY <1>1, <1>2, <1>3, RelayInvariance, PTL DEF Spec

----------------------------------------------------------------------------
(* Scans.                                                                  *)

\* The profiles are shown as the first n packages have left them.
ShownIn(d, n, done) ==
  /\ n \in 0..Len(done)
  /\ IF n = 0 THEN d.slots \in InitialSlots ELSE d.slots = done[n].slots

\* The associations that are shown count the first n packages.
CountedIn(d, n, done) ==
  \A k \in 1..n, a \in DOMAIN d.assocs :
    d.assocs[a].eim_id = done[k].package.eimId =>
      d.assocs[a].counter_value >= done[k].package.counterValue

Explained(d, done) == \E n \in Nat : ShownIn(d, n, done) /\ CountedIn(d, n, done)

\* How far a scan has got.
Scanned(r, done) ==
  /\ r.at = "eim_config" => \E n \in Nat : ShownIn(r.data, n, done)
  /\ r.at = "certs" \/ (r.at \in Ended /\ r.request \in Scans) => Explained(r.data, done)

ScansInv ==
  /\ \A c \in Cycles : Scanned(cycle[c], executed)
  /\ \A s \in Scans : rows[s].data # None => Explained(rows[s].data, executed)

LEMMA ShownGrows ==
  ASSUME EuiccTypeOK, EuiccTypeOK', Grows, NEW d, NEW n \in Nat, ShownIn(d, n, executed)
  PROVE  /\ ShownIn(d, n, executed')
         /\ CountedIn(d, n, executed) => CountedIn(d, n, executed')
<1>1. /\ Len(executed) \in Nat /\ DOMAIN executed = 1..Len(executed)
      /\ Len(executed') \in Nat /\ DOMAIN executed' = 1..Len(executed')
  BY DEF EuiccTypeOK
<1>2. \A k \in 1..n : k \in 1..Len(executed') /\ executed'[k] = executed[k]
  BY <1>1 DEF ShownIn, Grows
<1>3. ShownIn(d, n, executed')
  BY <1>1, <1>2 DEF ShownIn
<1> QED  BY <1>2, <1>3 DEF CountedIn

LEMMA ScannedGrows ==
  ASSUME EuiccTypeOK, EuiccTypeOK', Grows, NEW r, Scanned(r, executed)
  PROVE  Scanned(r, executed')
BY ShownGrows DEF Scanned, Explained

LEMMA ScanCycleKept ==
  ASSUME RelayInv, EuiccTypeOK', Grows, Ahead, NEW c \in Cycles, CycleNext(c),
         Scanned(cycle[c], executed)
  PROVE  Scanned(cycle'[c], executed')
<1> DEFINE old == cycle[c]
           new == cycle'[c]
<1>1. /\ cycle \in [Cycles -> Cycle] /\ old \in Cycle /\ Handles(old) /\ EuiccTypeOK /\ LastSlots
  BY DEF RelayInv, RelayTyped, CyclesOK, EuiccInv
<1>2. CASE \E k \in DOMAIN ScanReads : EuiccShows(c, k)
  <2>1. PICK k \in DOMAIN ScanReads : EuiccShows(c, k)
    BY <1>2
  <2>2. k \in 1..3 /\ Len(ScanReads) = 3 /\ ScanReads[1] = "profiles"
        /\ ScanReads[2] = "eim_config" /\ ScanReads[3] = "certs"
    BY DEF ScanReads
  <2> DEFINE at == IF k < Len(ScanReads) THEN ScanReads[k + 1] ELSE "replied"
             s  == IF ScanReads[k] = "profiles" THEN slots ELSE old.data.slots
             as == IF ScanReads[k] = "eim_config" THEN eim_associations ELSE old.data.assocs
  <2>3. /\ old.at = ScanReads[k] /\ executed' = executed
        /\ new = [old EXCEPT !.at = at, !.data.slots = s, !.data.assocs = as]
    BY <1>1, <2>1 DEF EuiccShows, euiccVars
  <2>4. old.data \in ScanData
    BY <1>1 DEF Cycle
  <2>5. /\ new.at = IF k < 3 THEN ScanReads[k + 1] ELSE "replied"
        /\ new.data.slots = IF k = 1 THEN slots ELSE old.data.slots
        /\ new.data.assocs = IF k = 2 THEN eim_associations ELSE old.data.assocs
    <3>1. /\ at = IF k < 3 THEN ScanReads[k + 1] ELSE "replied"
          /\ s = IF k = 1 THEN slots ELSE old.data.slots
          /\ as = IF k = 2 THEN eim_associations ELSE old.data.assocs
      BY <2>2
    <3> HIDE DEF at, s, as
    <3>2. new.at = at /\ new.data.slots = s /\ new.data.assocs = as
      <4> HIDE DEF old, new
      <4>1. "at" \in DOMAIN old /\ "data" \in DOMAIN old
        BY <1>1 DEF Cycle
      <4>2. "slots" \in DOMAIN old.data /\ "assocs" \in DOMAIN old.data
        BY <2>4 DEF ScanData
      <4> QED  BY <2>3, <4>1, <4>2
    <3> QED  BY <3>1, <3>2
  <2> SUFFICES Scanned(new, executed')
    OBVIOUS
  <2> HIDE DEF new
  <2>6. CASE k = 1
    <3>1. new.at = "eim_config" /\ new.data.slots = slots
      BY <2>2, <2>5, <2>6
    <3>2. ShownIn(new.data, Len(executed), executed) /\ Len(executed) \in Nat
      <4>1. Len(executed) \in Nat /\ (executed = <<>> <=> Len(executed) = 0)
        BY <1>1 DEF EuiccTypeOK
      <4> QED  BY <1>1, <3>1, <4>1 DEF ShownIn, LastSlots
    <3> QED  BY <2>3, <3>1, <3>2 DEF Scanned, Ended
  <2>7. CASE k = 2
    <3>1. /\ new.at = "certs" /\ new.data.slots = old.data.slots
          /\ new.data.assocs = eim_associations /\ old.at = "eim_config"
      BY <2>2, <2>3, <2>5, <2>7
    <3>2. PICK n \in Nat : ShownIn(old.data, n, executed)
      BY <3>1 DEF Scanned
    <3>3. \A j \in 1..n : j \in DOMAIN executed
      BY <1>1, <3>2 DEF ShownIn, EuiccTypeOK
    <3>4. ASSUME NEW j \in 1..n, NEW a \in DOMAIN eim_associations,
                 eim_associations[a].eim_id = executed[j].package.eimId
          PROVE  eim_associations[a].counter_value >= executed[j].package.counterValue
      <4> DEFINE p == executed[j].package
      <4>1. p \in Done /\ p \in Packages
        BY <1>1, <3>3, EntryTyped DEF Done
      <4>2. p.counterValue <= eim_associations[a].counter_value
        BY <3>4, <4>1 DEF Ahead, Settled
      <4>3. p \in Package /\ eim_associations[a] \in EimAssociation /\ MaxCounter \in Nat
        BY <1>1, <4>1, PackagesAssumption DEF EuiccTypeOK
      <4>4. p.counterValue \in 0..MaxCounter /\ eim_associations[a].counter_value \in 0..MaxCounter
        BY <4>3 DEF Package, EimAssociation
      <4> QED  BY <4>2, <4>3, <4>4
    <3>5. ShownIn(new.data, n, executed) /\ CountedIn(new.data, n, executed)
      BY <3>1, <3>2, <3>4 DEF ShownIn, CountedIn
    <3> QED  BY <2>3, <3>1, <3>5 DEF Scanned, Explained, Ended
  <2>8. CASE k = 3
    <3>1. /\ new.at = "replied" /\ new.data.slots = old.data.slots
          /\ new.data.assocs = old.data.assocs /\ old.at = "certs"
      BY <2>2, <2>3, <2>5, <2>8
    <3>2. Explained(new.data, executed)
      BY <3>1 DEF Scanned, Explained, ShownIn, CountedIn
    <3> QED  BY <2>3, <3>1, <3>2 DEF Scanned
  <2> QED  BY <2>2, <2>6, <2>7, <2>8
<1>3. CASE provide_eim_package_result(c)
  <2>1. /\ old.at = "replied" /\ new = [old EXCEPT !.at = "sending", !.eim = session_eim]
    BY <1>1, <1>3 DEF provide_eim_package_result
  <2>2. new.at = "sending" /\ new.request = old.request /\ new.data = old.data
    BY <1>1, <2>1 DEF Cycle
  <2>3. Scanned(old, executed')
    BY <1>1, ScannedGrows
  <2> QED  BY <2>1, <2>2, <2>3 DEF Scanned, Ended
<1>4. CASE EuiccServes(c)
  <2>1. new.at = "replied" /\ new.request = old.request /\ old.at = "at_euicc"
    BY <1>1, <1>4 DEF EuiccServes, Cycle
  <2>2. new.request \notin Scans
    BY <1>1, <2>1, RelayAssumption DEF Handles
  <2> QED  BY <2>1, <2>2 DEF Scanned
<1>5. CASE DownloadEnds(c)
  <2>1. new.at = "replied" /\ new.request = old.request /\ old.at = "downloading"
    BY <1>1, <1>5 DEF DownloadEnds, Cycle
  <2>2. new.request \notin Scans
    BY <1>1, <2>1, RelayAssumption DEF Handles
  <2> QED  BY <2>1, <2>2 DEF Scanned
<1>6. CASE get_eim_package(c)
  <2>1. new.at = "fetching"
    BY <1>1, <1>6, IdleIs DEF get_eim_package, Cycle
  <2> QED  BY <2>1 DEF Scanned, Ended
<1>7. CASE \E q \in Requests : EimGives(c, q)
  <2>1. PICK q \in Requests : EimGives(c, q)
    BY <1>7
  <2>2. CASE q \in Foreign
    <3>1. new.at = "idle"
      BY <1>1, <2>1, <2>2, IdleIs DEF EimGives, Ends, Stops
    <3> QED  BY <3>1 DEF Scanned, Ended
  <2>3. CASE q \notin Foreign
    <3>1. new.at = FirstCall(q)
      BY <1>1, <2>1, <2>3 DEF EimGives, Cycle
    <3>2. FirstCall(q) \in {"at_euicc", "profiles", "addresses", "downloading"}
      BY DEF FirstCall, ScanReads
    <3> QED  BY <3>1, <3>2 DEF Scanned, Ended
  <2> QED  BY <2>2, <2>3
<1>8. CASE EimRecordsUnheard(c)
  <2>1. new = old
    BY <1>8 DEF EimRecordsUnheard, ipaVars
  <2> QED  BY <1>1, <2>1, ScannedGrows
<1>9. CASE EimGivesNothing(c) \/ EuiccUnreachable(c) \/ EimRecords(c)
           \/ EimUnreachable(c) \/ CycleRaises(c) \/ CycleCancelled(c)
  <2>1. Stops(c)
    BY <1>9 DEF EimGivesNothing, EuiccUnreachable, EimRecords, EimUnreachable, CycleRaises,
         CycleCancelled, Ends, Raises
  <2>2. new.at = "idle"
    BY <1>1, <2>1, IdleIs DEF Stops
  <2> QED  BY <2>2 DEF Scanned, Ended
<1>10. CASE EuiccTellsAddress(c)
  <2>1. new.at = "downloading"
    BY <1>1, <1>10 DEF EuiccTellsAddress, Cycle
  <2> QED  BY <2>1 DEF Scanned, Ended
<1> QED  BY <1>2, <1>3, <1>4, <1>5, <1>6, <1>7, <1>8, <1>9, <1>10 DEF CycleNext

LEMMA ScanRowsKept ==
  ASSUME RelayInv, EuiccTypeOK', Grows, ScansInv,
         rows' = rows \/ \E c \in Cycles : Records(c),
         NEW s \in Scans, rows'[s].data # None
  PROVE  Explained(rows'[s].data, executed')
<1>1. EuiccTypeOK /\ DOMAIN rows = Requests /\ s \in Requests
  BY DEF RelayInv, EuiccInv, RelayTyped, Requests
<1>2. \A d : Explained(d, executed) => Explained(d, executed')
  BY <1>1, ShownGrows DEF Explained
<1>3. CASE rows'[s] = rows[s]
  BY <1>2, <1>3 DEF ScansInv
<1>4. ASSUME NEW c \in Cycles, Records(c), rows'[s] # rows[s]
      PROVE  Explained(rows'[s].data, executed')
  <2> DEFINE q == cycle[c].request
  <2>1. /\ cycle[c].at = "sending" /\ s = q
        /\ rows' = [rows EXCEPT ![q] =
                      [status |-> "queued", results |-> <<>>, data |-> cycle[c].data]]
    <3>1. \E row : rows' = [rows EXCEPT ![q] = row]
      BY <1>4 DEF Records, Recorded
    <3>2. s = q
      BY <1>1, <1>4, <3>1
    <3> QED  BY <1>4, <3>2 DEF Records, Recorded
  <2>2. rows'[s].data = cycle[c].data
    BY <1>1, <2>1
  <2>3. Explained(cycle[c].data, executed)
    BY <2>1 DEF ScansInv, Scanned, Ended
  <2> QED  BY <1>2, <2>2, <2>3
<1> QED  BY <1>3, <1>4

LEMMA ScansStep == RelayInv /\ Ahead /\ ScansInv /\ [Next]_vars => ScansInv'
<1> SUFFICES ASSUME RelayInv, Ahead, ScansInv, [Next]_vars PROVE ScansInv'
  OBVIOUS
<1>1. /\ RelayInv' /\ Grows /\ EuiccTypeOK /\ EuiccTypeOK'
      /\ cycle \in [Cycles -> Cycle]
  BY NextRelay DEF RelayInv, EuiccInv, RelayTyped
<1>2. \A c \in Cycles : Scanned(cycle[c], executed')
  BY <1>1, ScannedGrows DEF ScansInv
<1>3. ASSUME NEW c \in Cycles, CycleNext(c)
      PROVE  /\ rows' = rows \/ \E d \in Cycles : Records(d)
             /\ \A d \in Cycles : Scanned(cycle'[d], executed')
  <2>1. rows' = rows \/ Records(c)
    BY <1>3, CycleOthers
  <2>2. Scanned(cycle'[c], executed')
    BY <1>1, <1>3, ScanCycleKept DEF ScansInv
  <2>3. \A d \in Cycles : d # c => cycle'[d] = cycle[d]
    BY <1>1, <1>3 DEF CycleNext, get_eim_package, EimGivesNothing, EuiccServes,
         EuiccUnreachable, DownloadEnds, EuiccShows, provide_eim_package_result, EimRecords,
         EimRecordsUnheard, EimUnreachable, EuiccTellsAddress, CycleRaises, CycleCancelled,
         EimGives, Ends, Raises, Stops, ipaVars
  <2> QED  BY <1>2, <2>1, <2>2, <2>3
<1>4. ASSUME \/ \E e \in Registered : register_device(e)
             \/ EuiccServesLate
             \/ Maintenance /\ UNCHANGED <<ipaVars, rows, installed>>
             \/ UNCHANGED vars
      PROVE  UNCHANGED <<cycle, rows>>
  BY <1>4 DEF register_device, EuiccServesLate, ipaVars, vars
<1>5. /\ rows' = rows \/ \E d \in Cycles : Records(d)
      /\ \A d \in Cycles : Scanned(cycle'[d], executed')
  BY <1>2, <1>3, <1>4 DEF Next
<1>6. \A s \in Scans : rows'[s].data # None => Explained(rows'[s].data, executed')
  BY <1>1, <1>5, ScanRowsKept
<1> QED  BY <1>5, <1>6 DEF ScansInv, Scanned, Explained, ShownIn, CountedIn

\* Under the same condition a scan shows no package's profiles without counting the
\* package, whatever is executed and removed between the calls of the scan.
THEOREM ScansHold == AssociationsLast => (Spec => []ScansExplained)
<1> SUFFICES ASSUME AssociationsLast PROVE Spec => []ScansExplained
  OBVIOUS
<1>1. Init => Ahead /\ ScansInv
  <2> SUFFICES ASSUME Init PROVE Ahead /\ ScansInv
    OBVIOUS
  <2>1. Ahead
    BY InitRelay
  <2>2. \A c \in Cycles : Scanned(cycle[c], executed)
    BY IdleIs DEF Init, Scanned, Ended
  <2>3. \A s \in Scans : rows[s].data = None
    BY DEF Init, Requests
  <2> QED  BY <2>1, <2>2, <2>3 DEF ScansInv
<1>2. RelayInv /\ Ahead /\ ScansInv /\ [Next]_vars => Ahead' /\ ScansInv'
  BY EuiccKept, ScansStep
<1>3. RelayInv /\ ScansInv => ScansExplained
  <2> SUFFICES ASSUME RelayInv, ScansInv PROVE ScansExplained
    OBVIOUS
  <2>1. ASSUME NEW s \in Scans, rows[s].data # None
        PROVE  \E n \in 0..Len(executed) :
                 ShownIn(rows[s].data, n, executed) /\ CountedIn(rows[s].data, n, executed)
    BY <2>1 DEF ScansInv, Explained, ShownIn
  <2> QED  BY <2>1 DEF ScansExplained, ShownIn, CountedIn
<1> QED  BY <1>1, <1>2, <1>3, RelayInvariance, PTL DEF Spec

----------------------------------------------------------------------------
(* Refinement of RequestLedger.                                            *)

Log == [k \in DOMAIN executed |-> executed[k].package]

ToldAll == [r \in Packages \cup Triggers |-> Told(r)]

LEMMA ToldIs ==
  ASSUME NEW r
  PROVE  /\ Told(r) \in {"none", "done", "faulted", "unknown"}
         /\ Told(r) = "none" <=> rows[r].status = "queued"
         /\ Told(r) = "done" => rows[r].status = "completed" /\ Evident(r)
         /\ Told(r) = "faulted" => r \in Packages /\ Evident(r)
BY DEF Told

LEMMA LedgerInit == Init => Ledger!Init
<1> SUFFICES ASSUME Init PROVE Ledger!Init
  OBVIOUS
<1>1. executed = <<>> /\ installed = {}
  BY DEF Init, EuiccInit
<1>2. [k \in DOMAIN executed |-> executed[k].package] = <<>>
  BY <1>1
<1>3. \A r \in Packages \cup Triggers : rows[r].status = "queued"
  BY DEF Init, Requests
<1>4. [r \in Packages \cup Triggers |-> Told(r)] = [r \in Packages \cup Triggers |-> "none"]
  BY <1>3, ToldIs
<1> QED  BY <1>1, <1>2, <1>4 DEF Ledger!Init

\* Executing a package adds it to the log, and nothing in there has outdated it.
LEMMA LoadLogged ==
  ASSUME EuiccInv, ExecutedInOrder', NEW p \in Packages, load_euicc_package(p)
  PROVE  \/ Log' = Log
         \/ /\ Log' = Append(Log, p)
            /\ \A k \in DOMAIN Log : <<Log[k], p>> \notin Outdated
<1>1. CASE UNCHANGED euiccVars
  BY <1>1 DEF Log, euiccVars
<1>2. CASE ~ UNCHANGED euiccVars
  <2> DEFINE n == Len(executed)
             entry == [package |-> p, results |-> Effect(p).results, slots |-> Effect(p).slots]
             Entry == [package : Packages, results : Seq(OpResult), slots : [Iccids -> SlotState]]
  <2>1. executed' = Append(executed, entry) /\ entry.package = p
    BY <1>2 DEF load_euicc_package
  <2>2. executed \in Seq(Entry)
    BY DEF EuiccInv, EuiccTypeOK
  <2> HIDE DEF entry, Entry
  <2>3. /\ n \in Nat /\ DOMAIN executed = 1..n /\ DOMAIN executed' = 1..(n + 1)
        /\ \A k \in 1..n : executed'[k] = executed[k]
        /\ executed'[n + 1].package = p
    BY <2>1, <2>2
  <2>4. \A k \in 1..n : executed[k].package \in Packages
    BY EntryTyped, <2>3 DEF EuiccInv
  <2>5. Log' = Append(Log, p)
    <3>1. Log \in Seq(Packages) /\ Len(Log) = n /\ \A k \in 1..n : Log[k] = executed[k].package
      BY <2>3, <2>4 DEF Log
    <3>2. Log' = [k \in 1..(n + 1) |-> IF k = n + 1 THEN p ELSE executed[k].package]
      BY <2>3 DEF Log
    <3> DEFINE longer == Append(Log, p)
    <3>3. /\ longer \in Seq(Packages) /\ Len(longer) = n + 1 /\ longer[n + 1] = p
          /\ \A k \in 1..n : longer[k] = executed[k].package
      BY <2>3, <3>1
    <3> HIDE DEF longer
    <3>4. longer = [k \in 1..(n + 1) |-> IF k = n + 1 THEN p ELSE executed[k].package]
      BY <2>3, <3>3
    <3> QED  BY <3>2, <3>4 DEF longer
  <2>6. ASSUME NEW k \in DOMAIN Log PROVE <<Log[k], p>> \notin Outdated
    <3>1. k \in 1..n /\ Log[k] = executed[k].package
      BY <2>3 DEF Log
    <3>2. k < n + 1 /\ k \in 1..(n + 1) /\ n + 1 \in 1..(n + 1)
      BY <2>3, <3>1
    <3>3. executed[k].package.eimId = p.eimId =>
            executed[k].package.counterValue < p.counterValue
      BY <2>3, <3>1, <3>2 DEF ExecutedInOrder
    <3>4. executed[k].package.counterValue \in Int /\ p.counterValue \in Int
      BY <2>4, <3>1, PackagesAssumption DEF Package
    <3>5. ~ (executed[k].package.eimId = p.eimId
             /\ executed[k].package.counterValue >= p.counterValue)
      BY <3>3, <3>4
    <3> QED  BY <3>1, <3>5 DEF Outdated
  <2> QED  BY <2>5, <2>6
<1> QED  BY <1>1, <1>2

\* A result that is recorded answers a request that had no answer yet.
LEMMA RecordAnswers ==
  ASSUME RelayInv, ReportedExecuted', NEW c \in Cycles, Records(c), rows' # rows,
         executed' = executed, installed' = installed
  PROVE  \/ ToldAll' = ToldAll
         \/ \E r \in Packages \cup Triggers, a \in {"done", "faulted", "unknown"} :
              /\ Told(r) = "none"
              /\ a # "unknown" => r \in installed \/ \E k \in DOMAIN executed : executed[k].package = r
              /\ ToldAll' = [ToldAll EXCEPT ![r] = a]
<1> DEFINE J == Packages \cup Triggers
<1>1. PICK q \in Requests : q = cycle[c].request
  BY DEF RelayInv, CyclesOK, Handles, Records, Ended
<1>2. /\ rows[q].status = "queued"
      /\ \A x \in Requests : x # q => rows'[x] = rows[x]
  <2>1. DOMAIN rows = Requests
    BY DEF RelayInv, RelayTyped
  <2> QED  BY <1>1, <2>1 DEF Records, Recorded
<1>3. \A r : /\ Told(r)' \in {"none", "done", "faulted", "unknown"}
             /\ Told(r)' = "none" <=> rows'[r].status = "queued"
             /\ Told(r)' = "done" => rows'[r].status = "completed" /\ Evident(r)'
             /\ Told(r)' = "faulted" => r \in Packages /\ Evident(r)'
  BY DEF Told, Evident
<1>4. q \in J => rows'[q].status \in {"completed", "failed"}
  BY <1>1, <1>2, RelayAssumption DEF Records, Recorded, RelayInv, RelayTyped
<1>5. \A x \in J : x # q => Told(x)' = Told(x)
  BY <1>2 DEF Told, Evident, Requests
<1>6. CASE q \notin J
  BY <1>5, <1>6 DEF ToldAll
<1>7. CASE q \in J
  <2>1. Told(q) = "none"
    BY <1>2, ToldIs
  <2>2. Told(q)' \in {"done", "faulted", "unknown"}
    BY <1>3, <1>4, <1>7
  <2>3. ASSUME Told(q)' # "unknown"
        PROVE  q \in installed \/ \E k \in DOMAIN executed : executed[k].package = q
    <3>1. CASE q \in Packages
      <4>1. rows'[q].results # <<>>
        BY <1>3, <1>4, <1>7, <2>3, <3>1 DEF Evident
      <4> QED  BY <3>1, <4>1 DEF ReportedExecuted
    <3>2. CASE q \in Triggers
      <4>1. q \notin Packages
        BY <3>2, RelayAssumption
      <4>2. rows'[q].status = "completed"
        BY <1>3, <1>4, <1>7, <2>3, <4>1
      <4> QED  BY <3>2, <4>2 DEF ReportedExecuted
    <3> QED  BY <1>7, <3>1, <3>2
  <2>4. ToldAll' = [ToldAll EXCEPT ![q] = Told(q)']
    BY <1>5, <1>7 DEF ToldAll
  <2> QED  BY <1>7, <2>1, <2>2, <2>3, <2>4
<1> QED  BY <1>6, <1>7

\* A step records a result, or ends a download, or executes a package; never two.
LEMMA OneAtATime ==
  ASSUME RelayInv, [Next]_vars
  PROVE  \/ /\ UNCHANGED <<rows, installed>>
            /\ (\E p \in Packages : load_euicc_package(p)) \/ executed' = executed
         \/ /\ UNCHANGED <<rows, executed>>
            /\ \E t \in Triggers : installed' = installed \cup {t}
         \/ /\ UNCHANGED <<executed, installed>>
            /\ \E c \in Cycles : Records(c)
<1>1. ASSUME NEW c \in Cycles, CycleRaises(c) \/ CycleCancelled(c)
      PROVE  \/ UNCHANGED <<rows, installed, executed>>
             \/ /\ UNCHANGED <<rows, executed>>
                /\ \E t \in Triggers : installed' = installed \cup {t}
             \/ UNCHANGED <<executed, installed>> /\ Records(c)
  <2>1. /\ Abandons(c) /\ (rows' = rows \/ Records(c)) /\ executed' = executed
    BY <1>1 DEF CycleRaises, CycleCancelled, BreaksOff, euiccVars
  <2>2. installed' = installed \/ (cycle[c].at = "downloading" /\
                                   installed' = installed \cup {cycle[c].request})
    BY <2>1 DEF Abandons
  <2>3. cycle[c].at = "downloading" => cycle[c].request \in Triggers
    BY DEF RelayInv, CyclesOK, Handles
  <2>4. Records(c) => cycle[c].at = "sending"
    BY DEF Records
  <2> QED  BY <2>1, <2>2, <2>3, <2>4
<1>2. ASSUME NEW c \in Cycles, DownloadEnds(c)
      PROVE  /\ UNCHANGED <<rows, executed>>
             /\ installed' = installed \/ \E t \in Triggers : installed' = installed \cup {t}
  <2>1. cycle[c].request \in Triggers
    BY <1>2 DEF RelayInv, CyclesOK, Handles, DownloadEnds
  <2> QED  BY <1>2, <2>1 DEF DownloadEnds, euiccVars
<1>3. ASSUME NEW c \in Cycles, EuiccUnreachable(c)
      PROVE  UNCHANGED <<rows, installed, executed>>
  BY <1>3 DEF EuiccUnreachable, Abandons, euiccVars
<1>4. ASSUME NEW c \in Cycles, EuiccServes(c)
      PROVE  UNCHANGED <<rows, installed>> /\ \E p \in Packages : load_euicc_package(p)
  BY <1>4 DEF EuiccServes, RelayInv, CyclesOK, Handles
<1>5. ASSUME NEW c \in Cycles,
             \/ get_eim_package(c) \/ EimGivesNothing(c)
             \/ \E k \in DOMAIN ScanReads : EuiccShows(c, k)
             \/ EuiccTellsAddress(c) \/ provide_eim_package_result(c)
             \/ \E r \in Requests : EimGives(c, r)
      PROVE  UNCHANGED <<rows, installed, executed>>
  BY <1>5 DEF get_eim_package, EimGivesNothing, EuiccShows, EuiccTellsAddress,
              provide_eim_package_result, EimGives, euiccVars
<1>6. ASSUME NEW c \in Cycles, EimRecords(c) \/ EimRecordsUnheard(c) \/ EimUnreachable(c)
      PROVE  UNCHANGED <<executed, installed>> /\ (rows' = rows \/ Records(c))
  BY <1>6 DEF EimRecords, EimRecordsUnheard, EimUnreachable, euiccVars
<1>7. ASSUME NEW e \in Registered, register_device(e)
      PROVE  UNCHANGED <<rows, installed, executed>>
  BY <1>7 DEF register_device, euiccVars
<1>8. ASSUME EuiccServesLate
      PROVE  UNCHANGED <<rows, installed>> /\ \E p \in Packages : load_euicc_package(p)
  BY <1>8 DEF EuiccServesLate
<1>9. ASSUME Maintenance /\ UNCHANGED <<ipaVars, rows, installed>>
      PROVE  UNCHANGED <<rows, installed, executed>>
  BY <1>9 DEF Maintenance, add_eim, delete_eim
<1>10. ASSUME UNCHANGED vars PROVE UNCHANGED <<rows, installed, executed>>
  BY <1>10 DEF vars, euiccVars
<1> QED
  BY <1>1, <1>2, <1>3, <1>4, <1>5, <1>6, <1>7, <1>8, <1>9, <1>10 DEF Next, CycleNext

LEMMA LedgerNext ==
  ASSUME RelayInv, RelayInv', ExecutedInOrder', [Next]_vars
  PROVE  [Ledger!Next]_(Ledger!vars)
<1>1. ToldAll' = ToldAll \/ rows' # rows
  BY DEF ToldAll, Told, Evident
<1>2. CASE /\ UNCHANGED <<rows, installed>>
           /\ (\E p \in Packages : load_euicc_package(p)) \/ executed' = executed
  <2>1. ToldAll' = ToldAll
    BY <1>1, <1>2
  <2>2. CASE executed' = executed
    BY <1>2, <2>1, <2>2 DEF Ledger!vars, ToldAll
  <2>3. CASE \E p \in Packages : load_euicc_package(p)
    <3>1. PICK p \in Packages : load_euicc_package(p)
      BY <2>3
    <3>2. CASE Log' = Log
      BY <1>2, <2>1, <3>2 DEF Ledger!vars, ToldAll, Log
    <3>3. CASE Log' = Append(Log, p) /\ \A k \in DOMAIN Log : <<Log[k], p>> \notin Outdated
      <4>1. Ledger!Execute(p)
        BY <1>2, <2>1, <3>3 DEF Ledger!Execute, ToldAll, Log
      <4> QED  BY <4>1 DEF Ledger!Next
    <3> QED  BY <3>1, <3>2, <3>3, LoadLogged DEF RelayInv
  <2> QED  BY <1>2, <2>2, <2>3
<1>3. CASE /\ UNCHANGED <<rows, executed>>
           /\ \E t \in Triggers : installed' = installed \cup {t}
  <2>1. PICK t \in Triggers : installed' = installed \cup {t}
    BY <1>3
  <2>2. Ledger!Finish(t)
    BY <1>1, <1>3, <2>1 DEF Ledger!Finish, ToldAll
  <2> QED  BY <2>2 DEF Ledger!Next
<1>4. CASE UNCHANGED <<executed, installed>> /\ \E c \in Cycles : Records(c)
  <2>1. CASE ToldAll' = ToldAll
    BY <1>4, <2>1 DEF Ledger!vars, ToldAll
  <2>2. CASE ToldAll' # ToldAll
    <3>1. PICK r \in Packages \cup Triggers, a \in {"done", "faulted", "unknown"} :
            /\ Told(r) = "none"
            /\ a # "unknown" => r \in installed \/ \E k \in DOMAIN executed : executed[k].package = r
            /\ ToldAll' = [ToldAll EXCEPT ![r] = a]
      BY <1>1, <1>4, <2>2, RecordAnswers DEF RelayInv
    <3>2. ToldAll[r] = "none"
      BY <3>1 DEF ToldAll
    <3>3. a # "unknown" => Ledger!Performed(r)
      BY <3>1 DEF Ledger!Performed
    <3>4. Ledger!Answer(r, a)
      BY <1>4, <3>1, <3>2, <3>3 DEF Ledger!Answer, ToldAll
    <3> QED  BY <3>4 DEF Ledger!Next, Ledger!Answers
  <2> QED  BY <2>1, <2>2
<1> QED  BY <1>2, <1>3, <1>4, OneAtATime

\* Where associations last, the relay keeps the ledger's promise for any number of
\* cycles, eIMs and requests: a package takes effect once at most and never after a
\* later one of its eIM, a row is answered once, and only with what has happened.
THEOREM KeepsLedger == AssociationsLast => (Spec => ImplementsLedger)
<1> SUFFICES ASSUME AssociationsLast PROVE Spec => ImplementsLedger
  OBVIOUS
<1>1. Spec => []ExecutedInOrder
  BY OrderHolds
<1>2. Init => Ledger!Init
  BY LedgerInit
<1>3. RelayInv /\ RelayInv' /\ ExecutedInOrder' /\ [Next]_vars => [Ledger!Next]_(Ledger!vars)
  BY LedgerNext
<1> QED  BY <1>1, <1>2, <1>3, RelayInvariance, PTL DEF Spec, Ledger!Spec, ImplementsLedger
============================================================================
