# Verification of the eUICC / IPA simulators

TLA+ models, TLC runs and TLAPS proofs for the eUICC simulator
(`src/euicc-simulator`), the IPA simulator (`src/ipa-simulator`) and the
protocols between them, an external eIM and an external SM-DP+.

## 1. The system

Two single-process asyncio FastAPI services and a dashboard.

| part | code | state | operations | properties that make it correct |
|---|---|---|---|---|
| profile slots and notifications | `models/euicc.py`, `es10/es10c.py`, `es10/es10b*.py` | list of ISD-P slots, `free_nvm`, notification queue and number | ES10c enable / disable / delete / reset, PSMO operations of eIM packages, installation, removal of notifications, creation with preloaded profiles | one enabled profile, memory accounted for, AIDs unique, notifications in event order and telling which profile is active |
| download session | `es10/es10b.py` | `active_session` (challenge, transaction, keys, flags) | GetEuiccChallenge, AuthenticateServer, PrepareDownload, LoadBoundProfilePackage, CancelSession | one installation per transaction, prepared only for the authenticated transaction |
| download orchestrator | `orchestrator/profile_download.py`, `clients/*` | a session per EID, the step each coroutine is in | `start_download` (eight awaited calls), `cancel_download` | what is reported happened, what is cancelled does not go on, every download ends |
| eIM associations and packages | `es10/es10b_iot.py` | list of associations with counters | LoadEuiccPackage, add / delete / update / list eIM | packages at most once and in order, the last eIM stays |
| ESipa relay and polling | `orchestrator/esipa_handler.py`, `clients/eim_client.py` | registered device, poll tasks, error count | register, start / stop polling, `poll_once`, the loop | results reach the eIM that waits for them and are true; packages and triggers are settled |
| manager and persistence | `services/euicc_manager.py`, `models/database.py`, `services/laravel_seeder.py`, `main.py` | instances in memory, rows in SQLite, the dashboard's list | create, delete, load, save at shutdown, reseed | an eUICC repeats only what it was told to forget, a restart brings back what was saved |
| certificate files | `crypto/certificates.py` | six files per EID, the chain in memory | `initialize`: load, generate, SGP.26 package | a chain in service holds together, an eUICC keeps its identity and gets back into service |
| APDU transport | `services/apdu_handler.py` | selected application, block buffer | SELECT, STORE DATA, response segmentation | the reassembled command is the one sent |
| codecs, signatures, SCP03t | `services/asn1_codec.py`, `crypto/ecdsa_engine.py`, `crypto/cert_validator.py`, `crypto/scp03t.py` | none | pure functions | decode inverts encode |
| dashboard | `src/frontend/app` | devices; otherwise a view of both services | device form, clone, push, seed list, console | a device is the same eUICC in the dashboard and in the simulator |

How they interact, and what is hard about it:

* A handler of the eUICC simulator contains no `await` between its first read
  and its last write, and one worker serves all requests: a request is one
  atomic step. The hard part there is the **order** of requests, which nobody
  controls: the dashboard, the IPA's download coroutines and the IPA's poll
  cycles call the same eUICC.
* A coroutine of the IPA is suspended at every `await`. Several downloads, poll
  cycles and cancel calls for one device run at a time, and each uses state it
  read before a suspension.
* The HTTP clients have timeouts (30 s, 60 s towards the SM-DP+) and never
  retry. A request that timed out may be lost, may have been served, or may
  still be served later.
* The eUICC's state lives in memory and is saved at a graceful shutdown only.

## 2. Modules

| module | models | composed with |
|---|---|---|
| `ActiveProfile` | abstract: installed profiles, the active one, switching it | |
| `EuiccProfiles` | slots, memory, AIDs, notifications | implements `ActiveProfile` |
| `InstallPermit` | abstract: permits to install, spent, withdrawn, revoked | |
| `Es10bSession` | the download session of one eUICC | `EuiccProfiles` as `Card` |
| `ProfileDownload` | download coroutines, cancel calls, clients, external SM-DP+ | extends `Es10bSession`, implements `InstallPermit` |
| `EuiccPackages` | eIM associations and LoadEuiccPackage | |
| `RequestLedger` | abstract: what an eIM may rely on: packages executed at most once and in order, a request answered once and with what happened | |
| `EimRelay` | poll cycles: packages, scans, download triggers, requests that are dropped; what the loop counts as errors; re-registration, external eIMs | extends `EuiccPackages`, implements `RequestLedger` |
| `EsipaPolling` | starting and stopping the polling loop, its error limit, its cancellation | |
| `EuiccStore` | the manager's eUICCs, their packages, eCOs and routes, their rows, the dashboard's devices, restarts | takes what an eCO does from `EuiccPackages` (`Esep`) |
| `EuiccCertificates` | the certificate files of one EID, starts that are cut off | |
| `EuiccProfilesProofs`, `ProfileDownloadProofs`, `EuiccPackagesProofs`, `EimRelayProofs`, `EsipaPollingProofs`, `EuiccStoreProofs`, `EuiccCertificatesProofs` | theorems about the module they are named after | `EimRelayProofs` builds on `EuiccPackagesProofs`; `ProfileDownloadProofs` takes the theorems of `EuiccProfilesProofs` for its card; `EuiccProfilesProofs` relates the slots to those of `EuiccPackages` |
| `NatSetInduction` | induction over finite sets and naturals, and iteration, as lemmas without an operator parameter | used by the proofs |
| `MCEuiccProfiles`, `MCProfileDownload`, `MCEimRelay`, `MCEuiccStore` | instances for TLC | |

### EuiccProfiles

`profiles` is the list of `ProfileSlot`s in list order (the code searches it
from the front), reduced to ICCID, AID number, state, size charged and class;
`free_nvm`, `notifications` and `notification_seq` are the fields of
`EuiccState`. Each ES10c call, each PSMO operation, the installation, the memory
reset and the notification removal is one action with the code's error returns
left out (they change nothing). The two paths that enable a profile
(`es10c.enable_profile`, `_execute_psmo`) are separate actions because they
differ: only the first one queues notifications, only the second one leaves
`free_nvm` as it is when it deletes. A device is created with up to
`MaxPreloads` profiles, which the manager neither charges nor limits: that this
bound stays below `max_profiles` and fits the chip is an assumption about the
caller (`SizesAssumption` and its neighbours in the module).

### Es10bSession and ProfileDownload

Random values are distinct, so the challenge, the transaction, the signatures
and the one-time keys that belong to one download attempt are all named by that
attempt. A session record keeps the challenge, the transaction, the keys and the
two flags, and the five ES10b handlers are five actions. Verifications of
certificates and signatures may succeed or fail. A coroutine is its step
(`step`), the request no server has served yet (`request`) and the answer on its
way back (`reply`); a timeout (`StepRaises`) may leave the request behind, to be
served when nobody waits for it. A `cancel_download` call remembers the download
it looked up and walks through its own stages. `BppNamesTransaction` says
whether the package reaches the eUICC as a dictionary with a transaction id
(tests) or as the base64 string an SM-DP+ sends, from which the route does not
extract it.

### EuiccPackages and EimRelay

The associations keep eIM and counter in list order; the slots are seen from
the PSMO operations only. `Effect` runs the package's operations one after the
other, PSMOs before eCOs, each on the result of the one before. `EimRelay` adds
poll cycles (from the loop and from `poll_once`, which run side by side),
re-registration under way, requests to the eUICC that nobody waits for
(`late`), and eIMs that hand out a row of their queue until it is settled.
A cycle takes one of three branches, as `_dispatch_package` does: it relays a
package in one call; it scans the eUICC, where `EuiccShows` is one awaited call
of the scan and the eUICC changes between two of them; or it runs a triggered
download, after the default address was asked for if the trigger has none
(`EuiccTellsAddress`). `ProfileDownload` has the detail of the download; here only
its outcome counts: installed and reported, failed, or installed and reported as
failed. Requests that the IPA does not support or cannot decode (`Foreign`) are
dropped, and come again. A cycle ends well (`Ends`) or raises (`Raises`):
`_process_poll` turns an eIM that is not reached, and in the first two branches an
eUICC that is not reached, into a status, while an answer that is no JSON, the
address of a trigger that the eUICC does not tell, and a scan or download result
that cannot be encoded leave it as exceptions. `error_count` counts these in a row
for the cycles of the loop (`Counted`), which gives up beyond `MaxErrors`; it is
kept in this module so that what is settled and what is not can be told apart,
and `EsipaPolling` has how the loop is started, stopped and started again.

A result settles its row, except that of a scan. eIM-go looks its queue up by the
tag `5A` of the result and leaves the row `queued` without it
(`asn1_codec.py:370-372`); `encode_ipa_euicc_data_response` writes none. So a
scan's row shows what was scanned (`data`) and stays queued.

`executed` and `installed` are observers, `executed` with the slots that each
package has left. For `RequestLedger`, `Told` reads off a row what its eIM knows:
a row that is completed without a result, as that of a rejected package is
(section 5), tells nothing, and so does a download reported as failed.

### EsipaPolling

A polling task is created, in a cycle, in its pause or over; `cancelled` holds
the tasks that `task.cancel()` has marked and that have not been stepped since.
`start_polling`, `stop_polling` and `register_device` await nothing and are one
action each. `_poll_loop` is three: the test of its condition, a cycle that
ends well, a cycle that raises. An error that the eIM answers with, an eIM that is
not reached and, for packages and scans, an eUICC that is not reached do not raise
(`_process_poll` returns a status), so they are good cycles; `EimRelay` has what
raises. `error_count` is not touched by
`start_polling`, as in the code.

### EuiccStore

`instances`, `database` and `devices` are the manager's dictionary, the three
SQLite tables and the dashboard's table. The application is up or down:
`lifespan_start` loads, reseeds (device by device, in any order, because the
dashboard's query states none) and falls back to test devices; `lifespan_stop`
saves all or nothing; `Crash` saves nothing. An eUICC is reduced to what a
restart keeps or loses. It accepts packages with their eCOs, each on the
associations that the one before has left (`ExecuteEcos`), and the routes
`POST /eim/add` and `POST /eim/delete` are the actions `add_eim` and `delete_eim`;
PSMOs are left out, because profiles here are a set that other actions change. Its pending notifications are a set, because no property
here depends on their order (`EuiccProfiles` has it). Its fields `packages` and
`numbers` are observers of what it has done, restored with the row, so that
"remembers" means: since its last save, or since the last start. It forgets the
packages of an eIM on purpose where the code does so (`Remembered`): when an eCO or
the route takes the eIM's association away, since one added later starts at the
counter that comes with it, and when `updateEim` sets the counter. What is left to
`NothingForgotten` is that nothing else makes it forget: no restart, save, crash,
reseed, push or deletion of the eUICC. `saved` is the
observer of its last save. `ClonesEdited` says whether users do what the
dashboard asks of them after a clone, "edit EID before use". That a device lists
no eIM twice (`NoneTwice`) is the unique key of the dashboard's table.

### EuiccCertificates

A key is a number, a certificate the number of its key and of the key that
signed it; generated keys are fresh. `disk` has the six PEM files of an EID, each
whole, in part or missing. `initialize` is one action per way to a chain
(`initialize_sgp26`, `_load_existing`, `_generate_full_chain`), each with the
code's conditions on which files exist and which can be read; where reading
raises there is no step, because the eUICC is not created. Then the files are
written one at a time, and `Stop` may come between two of them or leave one in
part. The SGP.26 package may be installed at any time.

## 3. Runs

| run | configuration | shows |
|---|---|---|
| `profiles` | 2 ICCIDs on a list of up to 3 slots, notification numbers up to 3, all operations | one enabled profile, memory, notification order, refinement of `ActiveProfile`; no call but an eIM's PSMO loses memory or makes the queue misleading |
| `duplicate_aids` (violation) | the same | an AID is handed out twice |
| `download` | 2 downloads, one of them triggered by a poll task, 2 cancel calls, late and lost requests | session consistency, one installation per transaction, true reports, refinement of `InstallPermit` |
| `download_ends` | packages that name their transaction, fair timeouts | no package in another download's session; each download started over HTTP ends |
| `download_mixed` (violation) | packages as SM-DP+s send them | a package is installed in another download's session |
| `download_cancel` (violation) | 1 cancel call | a download reported as cancelled installs |
| `relay` | 2 eIMs, 3 packages that switch and delete profiles and associations, 2 cycles, 1 late request per package | order and single execution of packages, true results, one association per eIM, the last one stays |
| `relay_ends` | a package, a scan, a trigger without an address and an unsupported request of one eIM, the loop and a stoppable cycle | the package and the trigger are settled, though the other two come up again and again, unless the loop has given up; refinement of `RequestLedger`: executions in order, one true answer per request, a scan not ahead of its counters |
| `store` | one device of the dashboard with two eIMs and its clone, one test device; packages with and without eCOs, the eIM routes; starts, shutdowns that save or fail to, crashes | an eUICC repeats only what an eCO or a route made it forget, and comes back as it was last saved |
| `store_clones` (violation) | a clone that keeps its lower-case EID | associations are appended again at each start |
| `polling` | 4 tasks, the code's limit of 10 errors, starts, stops, restarts | a device shown as polling has exactly one loop, which goes on; a loop that only fails gives up |
| `certs` | 4 stops, EIDs with and without the SGP.26 prefix | chains in service hold together, identity is kept, SGP.26 eUICCs heal |

Bounds. Two downloads are enough for one to take over the other's session at
every step, and two cancel calls for one to be overtaken by another; a third
download adds no new kind of takeover, because a session is only ever replaced
as a whole (and the safety properties are proved for every number). Two cycles
and three packages of two eIMs give overtaking, redelivery and one package
changing the association of another; `MaxExecuted` stops cycles after three
executions, `MaxLate` allows one late request per package. `relay_ends` has no
late requests (`MaxLate = 0`) and no maintenance routes, which `relay` has, to
keep the state graph small enough for liveness; the four requests can still
overtake each other, fail, raise and be handed out again. Its loop gives up at the
second error in a row (`MaxErrors = 1`, ten in the code): one error that a good
cycle makes good, and one too many. In `relay` no cycle is counted, because no
property there depends on the count. `MaxSeq` bounds notification
numbers; two ICCIDs, two preloaded profiles and three slots (an ICCID may be installed twice) allow a slot
before and behind the one that is removed.

`store` has two eUICCs, one of them without an eIM, one counter value for the
packages of each of the two eIMs and one notification number: enough for a second
one to be the repetition that `NothingForgotten` excludes, and for one eUICC to be
saved, deleted, or brought back while the other is not. A package carries no eCO,
one that sets the counter of an eIM back to 0, or a pair that deletes an eIM and
adds it again; the routes delete any eIM and add one with the counter 0. So an
association is removed and added by both ways, while the other eIM keeps its own.

`polling` keeps the code's limit of ten errors. Polling is started up to an error
count of twelve (`MaxCount`): once past the limit, every further start behaves
alike. Four tasks let three cancelled ones unwind while a fourth is started.
`certs` allows four stops: one to cut off the first generation, one to cut off
the change to the SGP.26 chain, and two more after that. `PackageMayGo` is FALSE:
section 5 says what happens when the package is removed.

Fairness. `download_ends` assumes only that an awaited call returns or raises,
which the clients' timeouts guarantee; triggered downloads are left out of
`DownloadEnds` because `stop_polling` may cancel their task. `relay_ends` assumes
of the loop's cycle only that it moves on (weak fairness of `CycleNext`): awaited
calls return or raise, because the clients have timeouts, and a loop that has not
given up polls again. `stop_polling` cancels the other cycle only. The rest is an
assumption about the network and the servers, without which no relay can settle
anything: the eIM does not keep one row back for ever, and no call for one and the
same request (to the eUICC, for the default address, to the eIM with the result)
fails every time that it is tried (strong fairness per request). That the loop does
not raise is not assumed: `RowsEnd` says that a row is settled or that the loop has
given up. An eIM that handed out nothing but its oldest queued row would not
satisfy the assumption: behind a scan or a request that cannot be decoded, which
are never settled, nothing else would be fetched.
`polling` assumes that a task's awaited calls return or raise and that the event
loop gives it its steps (weak fairness of `LoopNext`), not that any cycle
succeeds. `certs` assumes that an eUICC that is not there is created again
and that files get written.

Deadlock is checked in the runs of `EimRelay`, `EuiccStore` and `EsipaPolling`.
The runs of `ProfileDownload` switch the check off because downloads and cancel
calls that have all ended are a proper end, those of `EuiccProfiles` because a
behaviour stops where the notification numbers reach `MaxSeq`, `certs` because
an EID outside SGP.26 whose first generation was cut off has no further step
(section 5), and because of `MaxStops`.

## 4. Proofs

TLAPS proves for every value of the constants that satisfies the named ASSUMEs of
the modules:

* `EuiccProfilesProofs`: `Typing`, `OneEnabled`, `Capacity`, `Ordered`,
  `KeepsMemory`, `QueueTellsActive` and the refinement `KeepsPromise` of
  `ActiveProfile`. `WithinCapacity` speaks of a sum over the slots, which is not
  inductive as it stands: the invariant relates the charges of the slots to
  `free_nvm` and carries the number of slots whose charge was never deducted.
  Sums over a changed list are handled by lemmas on a recursive function, by
  induction over finite sets (`NatSetInduction`). `PsmosAgree` and
  `PsmoErrorsAgree` connect the two models of `_execute_psmo`: as long as no ICCID
  is installed twice (`DistinctIccids`), an operation on the list that is searched
  from its front fails and succeeds as it does in `EuiccPackages`, which sees one
  state per ICCID (`SlotOf`), and leaves the same states. With an ICCID installed
  twice they differ: the operation reaches the first of the two profiles only.
* `ProfileDownloadProofs`: `SessionsConsistent`, `InstallsOnce`, `ReportsTrue`,
  the refinement `KeepsPermit` of `InstallPermit`, `DownloadTyped`, and, if
  packages name their transaction (`BppNamesTransaction`), `InstallsOwn`. `CardIsAnEuicc` says that each step of the composition is a step
  of `EuiccProfiles` for the card or leaves it alone, so `CardStaysSound` takes
  capacity, the one enabled profile and the order of notifications over from the
  theorems of `EuiccProfilesProofs`, for every number of downloads. The
  argument for the sessions: a transaction is authenticated by the one request of its fourth step.
  Once that request was served or is lost (`Passed`), no session can take the
  transaction on again. A transaction that left the session by an installation
  (`Spent`) or by a cancellation the SM-DP+ may hear of (`GivenUp`) has passed,
  so it is gone for ever; and the session's own transaction is neither spent nor
  given up. `Inv` is this (`Transactions`) with the bookkeeping of requests and
  answers (`Calls`) that says an answer belongs to the step that waits for it.
* `EimRelayProofs`: `RelayTypes`, `OneProfileOneAssociation`, `ReportsAreTrue`,
  `LastAssociationStays`, and, if no eIM is both added and deleted and no update
  sets a counter (`AssociationsLast`), `OrderHolds`, `ScansHold` and the refinement `KeepsLedger`
  of `RequestLedger`. What a package
  does is proved in `EuiccPackagesProofs`, by iterating what one operation does
  (`NatSetInduction`). `RelayInv` says that every result under way, in a cycle or
  in a row, is one that the eUICC gave. For the order, every executed package
  must be counted in the association of its eIM if that association is there
  (`Ahead`); without `AssociationsLast` a deletion breaks just this. For the
  scans, a half-finished one must be explained by a prefix of `executed` whose
  packages are counted by now (`ScansInv`), and counters only grow. For the
  refinement, a step changes at most one of the log, the downloads and the rows
  (`OneAtATime`); a package enters the log only if nothing there makes it stale
  (`LoadLogged`), and a row that changes was queued and gets an answer that
  `ReportedExecuted` backs (`RecordAnswers`).
* `EsipaPollingProofs`: `SingleLoop` and `PollingTyped`, for any number of tasks
  and any error limit.
* `EuiccStoreProofs`: `StoreTyped`, `NothingIsForgotten` and `RestartsKeep`, if
  clones are edited (`ClonesEdited`), for any number of devices, eIMs and eCO lists.
  The invariant: in every eUICC, in memory and saved alike, no eIM is listed twice,
  every association is ahead of what is remembered of its eIM, and nothing is
  remembered of an eIM that has none (which is what lets `add_eim` start at any
  counter); and the rows are those of `saved`, which is what makes a start bring
  back a sound eUICC. That a list of eCOs keeps this follows by iterating what one
  of them does (`EcoSound`, `EcosSound`). What an eUICC forgets on purpose
  (`Remembered`) is not promised: section 5.
* `EuiccCertificatesProofs`: `ChainHolds`, `CertificatesTyped` and `IdentityStays`,
  as long as the SGP.26 package stays once it is installed. The invariant describes the disks
  that cut-off starts leave behind: which prefix of the files is of the chain in
  memory and which rest is of an older one, for an EID's local chain and for
  its eUICC key and certificate separately (`LocalDisk`, `EuiccDisk`). The identity
  stays because a key and a certificate that were in service are on the disk with
  no file left to be written (`IdentityOnDisk`), until the package invalidates them.

What is only model-checked: the liveness properties (`DownloadEnds`, `RowsEnd`,
`KeepsPolling`, `GivesUp`, `HealsUnderSgp26`, `ComesBack`), which are out of the
prover's reach. Every other property of a passing run is a theorem, some of them
under a condition that the theorem names.

## 5. Disagreements between the code and its documents, and limits

PROJECT.json lists under `findings`, each with the run that shows it: AIDs that
repeat (`duplicate_aids`), packages loaded into another download's session
(`download_mixed`), cancelled downloads that go on (`download_cancel`),
associations that are appended again (`store_clones`).

These have no run of their own:

* `delete_eim` forgets an association's counter and `add_eim` starts the new
  association at the `counterValue` of the request, 0 by default; `updateEim` may
  set it to any value. Packages that were executed before are then accepted again.
  In `EimRelay`, where `ExecutedInOrder` fails when this happens between two relays
  of a row, the runs never add back what they delete nor set a counter, and
  `OrderHolds` has `AssociationsLast` as its condition. `EuiccStore` has all of
  these operations, by eCO and by route; there the observer of accepted packages
  forgets what the eUICC was made to forget (`Remembered`), so that
  `NothingForgotten` and `NothingIsForgotten` promise nothing about such packages.
* The result of a scan has no tag `5A`, which `asn1_codec.py:323` and `:370-372`
  and `docs/build_cert_guide.py:642` call required: its row stays `queued` and the
  eUICC is scanned at every poll. `RowsEnd` is about packages and triggers only.
* A request that is none of the three kinds, or that cannot be decoded
  (`esipa_handler.py:240`, `265-271`, `459-465`), is never answered: the eIM is told
  nothing and hands it out again. `EimRelay` has such requests (`Foreign`).
* `get_configured_addresses` (`esipa_handler.py:479`) and an answer that is no JSON
  (`eim_client.py:82`) raise out of the cycle, where an eUICC or eIM that cannot be
  reached is a status in the other branches: a trigger without an address and an
  eUICC that is down make the loop give up after eleven tries
  (`esipa_handler.py:141-143`), while a package does not.
* `enable_profile` disables the first enabled profile only. `create_euicc` accepts
  a list with several enabled ones; `EuiccProfiles` starts from lists with one.
* Preloaded profiles are neither charged against the free memory nor counted
  against `max_profiles`; `EuiccProfiles` starts from lists that fit.
* A rejected package (`euiccPackageError`) is encoded as an empty result list, so
  an eIM cannot tell it from success, while the console shows it as failed.
* `_process_poll` reads the eIM's address again before it reports. A device that
  is registered again in mid-cycle has its result sent to the new eIM.
* A trigger whose result was lost is handed out again and runs a second download,
  and a download may be reported as failed although its profile was installed:
  `ReportedExecuted` promises only that what is reported as done was done.
* `start_polling` keeps the error count of the loop before: after a loop has given
  up, the next one gives up at its first error unless a good cycle comes first.
* `persist_euiccs` saves the notification number and not the notifications: a
  graceful restart loses what was pending, where the module's head says that it
  stores "eUICC instances, profiles, eIM associations, and notifications"
  (`models/database.py:4`). `EuiccStore` has it: `Loaded` starts with no
  notifications.
* Outside the SGP.26 prefix, the CI's key file alone decides between loading and
  generating. A first generation cut off after it leaves an EID that can
  never be loaded again; `initialize` has no way out but the unused
  `force_regenerate`. For an EID under the prefix, installing the package heals it
  (`HealsUnderSgp26`).
* When the SGP.26 package is removed again, `_load_existing` serves the local CI
  and EUM with the eUICC certificate that the SGP.26 EUM has issued: it does not
  ask `_euicc_cert_chains_to` as the SGP.26 branch does. `PackageMayGo = TRUE`
  shows it.
* A STORE DATA sequence that breaks off leaves its blocks and the expected number
  in `segment_buffer`; SELECT does not reset it. Blocks of the next command with
  other numbers are acknowledged with 9000 and dropped, and the one with the
  expected number continues the old command.

## 6. Not modelled

* APDU transport: the route echoes the command that `process_apdu` has put
  together; it reaches no ES10 handler, and the remaining functions of the module
  (`identify_command`, `build_response_apdu`, `segment_response`) have no caller.
  No state of another part depends on it.
* ASN.1 beyond what a property needs: what is lost when a result list is encoded is
  in `EimRelay` (`Encoded`, `Reported`), whether a package names its transaction in
  `ProfileDownload`. The rest are stateless calls of a compiled schema.
* Signatures, chain validation and SCP03t: their outcomes are nondeterministic.
* SGP.26 package files that are themselves damaged: `EuiccCertificates` has torn
  files only where the simulator writes them.
* Nicknames, ES10a addresses, and the addresses and tokens of associations: no
  other state depends on them.
* The IPA's routes (they delegate), the exchange trace (a log that no handler
  reads), the dashboard except its devices, the document generator.
* The composition of `EimRelay` with `ProfileDownload` step by step: a triggered
  download appears in the first as one call with its possible outcomes and in
  the second as a coroutine that may be cancelled.
