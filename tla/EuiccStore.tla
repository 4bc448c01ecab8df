------------------------------ MODULE EuiccStore ------------------------------
(***************************************************************************)
(* The eUICC simulator's manager between restarts.  eUICCs live in memory; *)
(* a graceful shutdown saves them to SQLite, a crash does not.  A start    *)
(* loads what was saved, adds the devices that the dashboard lists and are *)
(* not known yet, and falls back to test devices when there is none.       *)
(*                                                                         *)
(* No request is served while the application starts or stops, and neither *)
(* loading nor saving awaits anything: each is one action.  The handlers   *)
(* of a single eUICC (EuiccProfiles, EuiccPackages) are reduced to what    *)
(* outlives a restart or is lost by it: the installed profiles, the        *)
(* associations with their counters and the eCOs that change them, the     *)
(* notification queue and its number.                                      *)
(***************************************************************************)
EXTENDS Integers, Sequences, FiniteSets

CONSTANTS
  Eids,            \* EIDs, each in the case it is written in
  Upper,           \* eid.upper(), as a function
  Eims,            \* eIM identifiers
  Iccids,          \* ICCIDs
  FormEids,        \* EIDs that the device form is filled in with
  EimLists,        \* lists of eIMs that the device form is filled in with
  PreloadSets,     \* sets of preloaded profiles that it is filled in with
  TestDevices,     \* the devices of create_test_euiccs, by EID
  CreateTestData,  \* settings.create_test_data
  ClonesEdited,    \* users heed "edit EID before use"
  EcoLists,        \* lists of eCOs that a package may carry
  Added,           \* associations that the /eim/add route is called for
  MaxCounter,      \* bound: largest counter of a package
  MaxSeq           \* bound: notification numbers of one eUICC

\* The eCOs are those of EuiccPackages; its own state is not used here.
Esep == INSTANCE EuiccPackages WITH
  EimIds <- Eims, Packages <- {}, InitialEims <- <<>>, InitialSlots <- {},
  Addable <- {}, Deletable <- {}, eim_associations <- <<>>, slots <- <<>>, executed <- <<>>

ASSUME EcosAssumption ==
  EcoLists \subseteq Seq(Esep!Eco) /\ Added \subseteq Esep!EimAssociation

ASSUME EidsAssumption ==
  /\ IsFiniteSet(Eids)
  /\ Upper \in [Eids -> Eids]
  /\ \A e \in Eids : Upper[Upper[e]] = Upper[e]
  /\ FormEids \subseteq Eids

NoneTwice(list) == \A j, k \in DOMAIN list : list[j] = list[k] => j = k

\* The dashboard's table has a unique key on device and eIM.
ASSUME DevicesAssumption ==
  /\ EimLists \subseteq Seq(Eims)
  /\ \A l \in EimLists : NoneTwice(l)
  /\ PreloadSets \subseteq SUBSET Iccids
  /\ DOMAIN TestDevices \subseteq Eids
  /\ \A e \in DOMAIN TestDevices :
       /\ TestDevices[e] \in [eims : Seq(Eims), preloads : SUBSET Iccids]
       /\ NoneTwice(TestDevices[e].eims)
  /\ CreateTestData \in BOOLEAN /\ ClonesEdited \in BOOLEAN
  /\ MaxCounter \in Nat /\ MaxSeq \in Nat

VARIABLES
  running,     \* the application is up
  instances,   \* EuiccManager.instances
  database,    \* the tables euiccs, profiles and eim_associations
  devices,     \* the dashboard's devices
  saved        \* observer: each eUICC as it was when it was last saved

vars == <<running, instances, database, devices, saved>>

EimAssociation == [eim_id : Eims, counter_value : 0..MaxCounter]

\* "packages" and "numbers" are observers: the packages an eUICC has accepted
\* and the notification numbers it has given out, as long as it remembers them.
\* A crash and a deletion of the eUICC lose what was not saved; the eCOs that are
\* meant to make it forget packages take them from the observer (Remembered).
\* The queue is seen as the set of its numbers: EuiccProfiles has the order.
EuiccState ==
  [eim_associations : Seq(EimAssociation), profiles : SUBSET Iccids,
   notifications : SUBSET (1..MaxSeq), notification_seq : 0..MaxSeq,
   packages : SUBSET (Eims \X (0..MaxCounter)), numbers : SUBSET (1..MaxSeq)]

DbEuicc ==
  [eim_associations : Seq(EimAssociation), profiles : SUBSET Iccids,
   notification_seq : 0..MaxSeq]

Device == [enabled : BOOLEAN, eims : EimLists, preloads : PreloadSets]

ByEid(f, S) == DOMAIN f \subseteq Eids /\ f \in [DOMAIN f -> S]

With(f, x, v) == [y \in DOMAIN f \cup {x} |-> IF y = x THEN v ELSE f[y]]

Without(f, x) == [y \in DOMAIN f \ {x} |-> f[y]]

Empty == [e \in {} |-> 0]

Init ==
  /\ running = FALSE
  /\ instances = Empty
  /\ database = Empty
  /\ devices = Empty
  /\ saved = Empty

----------------------------------------------------------------------------
(* Creation.                                                               *)

NewAssociations(eims) == [k \in DOMAIN eims |-> [eim_id |-> eims[k], counter_value |-> 0]]

NewEuicc(eims, preloads) ==
  [eim_associations |-> NewAssociations(eims), profiles |-> preloads,
   notifications |-> {}, notification_seq |-> 0, packages |-> {}, numbers |-> {}]

\* An eUICC that exists is returned as it is.
create_euicc(insts, e, eims, preloads) ==
  IF e \in DOMAIN insts THEN insts ELSE With(insts, e, NewEuicc(eims, preloads))

create_test_euiccs(insts) ==
  [e \in DOMAIN insts \cup DOMAIN TestDevices |->
     IF e \in DOMAIN insts THEN insts[e]
     ELSE NewEuicc(TestDevices[e].eims, TestDevices[e].preloads)]

----------------------------------------------------------------------------
(* Loading and saving.                                                     *)

\* Mutant: the notification number starts over.
Loaded_from_zero(e) ==
  [eim_associations |-> database[e].eim_associations, profiles |-> database[e].profiles,
   notifications |-> {}, notification_seq |-> 0,
   packages |-> saved[e].packages, numbers |-> saved[e].numbers]

\* The notification queue has no table, its number has a column.
Loaded(e) ==
  [eim_associations |-> database[e].eim_associations, profiles |-> database[e].profiles,
   notifications |-> {}, notification_seq |-> database[e].notification_seq,
   packages |-> saved[e].packages, numbers |-> saved[e].numbers]

load_persisted_euiccs == [e \in DOMAIN database |-> Loaded(e)]

Row(euicc) ==
  [eim_associations |-> euicc.eim_associations, profiles |-> euicc.profiles,
   notification_seq |-> euicc.notification_seq]

\* Mutant: only eUICCs that have a row are saved.
persist_euiccs_known_only ==
  database' = [e \in DOMAIN database |->
                 IF e \in DOMAIN instances THEN Row(instances[e]) ELSE database[e]]

\* Rows of eUICCs that are no longer in memory stay.
persist_euiccs ==
  database' = [e \in DOMAIN database \cup DOMAIN instances |->
                 IF e \in DOMAIN instances THEN Row(instances[e]) ELSE database[e]]

\* One device of the dashboard's list.  Whether it is known is looked up with
\* the EID as it is listed, the eUICC itself with the EID in upper case.
Hydrate(insts, e) ==
  LET created == create_euicc(insts, Upper[e], <<>>, devices[e].preloads)
  IN  IF e \in DOMAIN insts THEN insts
      ELSE With(created, Upper[e],
                [created[Upper[e]] EXCEPT !.eim_associations =
                   @ \o NewAssociations(devices[e].eims)])

reseed_from_laravel(insts, list) ==
  LET after[k \in 0..Len(list)] ==
        IF k = 0 THEN insts ELSE Hydrate(after[k - 1], list[k])
  IN  after[Len(list)]

Listed == {e \in DOMAIN devices : devices[e].enabled}

\* The dashboard's query states no order.
Orders(S) ==
  {f \in [1..Cardinality(S) -> S] : NoneTwice(f)}

\* A device is not pushed or listed while it has the EID it was cloned with.
Usable(e) == ClonesEdited => Upper[e] = e

\* The list is fetched, or the dashboard is not reached.
lifespan_start ==
  /\ ~ running
  /\ \A e \in Listed : Usable(e)
  /\ running' = TRUE
  /\ \E list \in Orders(Listed) \cup {<<>>} :
       LET known == reseed_from_laravel(load_persisted_euiccs, list)
       IN  instances' = IF CreateTestData /\ known = Empty
                        THEN create_test_euiccs(known) ELSE known
  /\ UNCHANGED <<database, devices, saved>>

\* A graceful shutdown; an error while saving rolls all of it back.
lifespan_stop ==
  /\ running
  /\ running' = FALSE
  /\ instances' = Empty
  /\ \/ /\ persist_euiccs
        /\ saved' = [e \in DOMAIN saved \cup DOMAIN instances |->
                       IF e \in DOMAIN instances THEN instances[e] ELSE saved[e]]
     \/ UNCHANGED <<database, saved>>
  /\ UNCHANGED devices

\* The process is killed; the unit restarts it.
Crash ==
  /\ running
  /\ running' = FALSE
  /\ instances' = Empty
  /\ UNCHANGED <<database, devices, saved>>

----------------------------------------------------------------------------
(* Management and the eUICCs' own operations.                              *)

\* The dashboard pushes a device, with the first of its eIMs only.
push_device(e) ==
  /\ running
  /\ Usable(e)
  /\ instances' = create_euicc(instances, e,
       SubSeq(devices[e].eims, 1, IF devices[e].eims = <<>> THEN 0 ELSE 1),
       devices[e].preloads)
  /\ UNCHANGED <<running, database, devices, saved>>

push_test_data ==
  /\ running
  /\ instances' = create_test_euiccs(instances)
  /\ UNCHANGED <<running, database, devices, saved>>

delete_euicc(e) ==
  /\ instances' = Without(instances, e)
  /\ UNCHANGED <<running, database, devices, saved>>

Update(e, euicc) ==
  /\ instances' = [instances EXCEPT ![e] = euicc]
  /\ UNCHANGED <<running, database, devices, saved>>

\* The association that a request for eIM m finds: the first one.
FirstOf(euicc, m) ==
  LET found == {k \in DOMAIN euicc.eim_associations : euicc.eim_associations[k].eim_id = m}
  IN  {k \in found : \A j \in found : k <= j}

\* What remains of the packages after an eCO that leaves assocs: those of an eIM
\* without an association are forgotten, and those above a counter that is set.
Remembered(packages, eco, assocs) ==
  {p \in packages : p[1] = eco.eimId =>
     /\ Esep!Associated(assocs, p[1]) # {}
     /\ eco.action = "updateEim" /\ eco.counterValue # Esep!NoCounter =>
          p[2] <= eco.counterValue}

ExecuteEco(euicc, eco) ==
  LET assocs == Esep!AssociationsAfter(eco, euicc.eim_associations)
  IN  IF Esep!EcoSucceeds(eco, euicc.eim_associations)
      THEN [euicc EXCEPT !.eim_associations = assocs,
                         !.packages = Remembered(@, eco, assocs)]
      ELSE euicc

ExecuteEcos(euicc, ecos) ==
  LET after[k \in 0..Len(ecos)] ==
        IF k = 0 THEN euicc ELSE ExecuteEco(after[k - 1], ecos[k])
  IN  after[Len(ecos)]

\* The counter is taken over before the eCOs, which may change it again.
load_euicc_package(e, m, counter, ecos) ==
  \E k \in FirstOf(instances[e], m) :
    /\ counter > instances[e].eim_associations[k].counter_value
    /\ Update(e, ExecuteEcos([instances[e] EXCEPT !.eim_associations[k].counter_value = counter,
                                                  !.packages = @ \cup {<<m, counter>>}],
                             ecos))

\* The routes /eim/add and /eim/delete.
add_eim(e, a) ==
  Update(e, ExecuteEco(instances[e],
              [action |-> "addEim", eimId |-> a.eim_id, counterValue |-> a.counter_value]))

delete_eim(e, m) ==
  Update(e, ExecuteEco(instances[e],
              [action |-> "deleteEim", eimId |-> m, counterValue |-> Esep!NoCounter]))

\* Mutant: the number is taken before it is increased.
add_notification_early(euicc) ==
  [euicc EXCEPT !.notification_seq = @ + 1,
                !.notifications = @ \cup {euicc.notification_seq},
                !.numbers = @ \cup {euicc.notification_seq}]

add_notification(euicc) ==
  [euicc EXCEPT !.notification_seq = @ + 1,
                !.notifications = @ \cup {euicc.notification_seq + 1},
                !.numbers = @ \cup {euicc.notification_seq + 1}]

install_profile(e, i) ==
  /\ i \notin instances[e].profiles
  /\ instances[e].notification_seq < MaxSeq
  /\ Update(e, [add_notification(instances[e]) EXCEPT !.profiles = @ \cup {i}])

delete_profile(e, i) ==
  /\ i \in instances[e].profiles
  /\ instances[e].notification_seq < MaxSeq
  /\ Update(e, [add_notification(instances[e]) EXCEPT !.profiles = @ \ {i}])

remove_notification(e, n) ==
  /\ n \in instances[e].notifications
  /\ Update(e, [instances[e] EXCEPT !.notifications = @ \ {n}])

----------------------------------------------------------------------------
(* The dashboard's devices.                                                *)

DeviceChange == UNCHANGED <<running, instances, database, saved>>

\* The form creates a device, or edits those in old (one or none), its EID and
\* lists included; EIDs are stored in upper case and unique.
save_device(old, e, device) ==
  /\ e \notin DOMAIN devices \ old
  /\ devices' = [d \in (DOMAIN devices \ old) \cup {e} |->
                   IF d = e THEN device ELSE devices[d]]
  /\ DeviceChange

\* A clone gets a random EID in lower case, one that no other eUICC has.
clone(e, new) ==
  /\ Upper[new] # new
  /\ {new, Upper[new]} \cap (DOMAIN devices \cup DOMAIN instances \cup DOMAIN database) = {}
  /\ devices' = With(devices, new, devices[e])
  /\ DeviceChange

toggleEnabled(e) ==
  /\ devices' = [devices EXCEPT ![e].enabled = ~ @]
  /\ DeviceChange

delete_device(e) ==
  /\ devices' = Without(devices, e)
  /\ DeviceChange

----------------------------------------------------------------------------

EuiccNext(e) ==
  \/ delete_euicc(e)
  \/ \E m \in Eims, c \in 1..MaxCounter, ecos \in EcoLists : load_euicc_package(e, m, c, ecos)
  \/ \E a \in Added : add_eim(e, a)
  \/ \E m \in Eims : delete_eim(e, m)
  \/ \E i \in Iccids : install_profile(e, i) \/ delete_profile(e, i)
  \/ \E n \in 1..MaxSeq : remove_notification(e, n)

DashboardNext ==
  \/ \E old \in {{}} \cup {{d} : d \in DOMAIN devices}, e \in FormEids, device \in Device :
       save_device(old, Upper[e], device)
  \/ \E e \in DOMAIN devices :
       toggleEnabled(e) \/ delete_device(e) \/ push_device(e) \/ \E new \in Eids : clone(e, new)

Next ==
  \/ lifespan_start \/ lifespan_stop \/ Crash \/ push_test_data
  \/ \E e \in DOMAIN instances : EuiccNext(e)
  \/ DashboardNext

Spec == Init /\ [][Next]_vars

----------------------------------------------------------------------------
(* Properties.                                                             *)

\* Memory, tables and the dashboard's devices are typed.
TypeOK ==
  /\ running \in BOOLEAN
  /\ ByEid(instances, EuiccState)
  /\ ByEid(database, DbEuicc)
  /\ ByEid(devices, Device)
  /\ ByEid(saved, EuiccState)

\* However starts, shutdowns, crashes, deletions, pushes and changes of the
\* dashboard alternate: an eUICC gives out no notification number a second time,
\* and accepts a package a second time only if it was told to forget it, by an eCO
\* or route that leaves the eIM without an association (one added later starts at
\* the counter that comes with it) or an eCO that sets the counter.  Nothing else
\* lowers a counter, although counters, numbers and queue take different ways
\* through the database and an eUICC can come back from a row, the list or a push.
NothingForgotten ==
  \A e \in DOMAIN instances :
    LET euicc == instances[e] IN
    /\ \A n \in euicc.numbers : n <= euicc.notification_seq
    /\ \A p \in euicc.packages : \A k \in FirstOf(euicc, p[1]) :
         p[2] <= euicc.eim_associations[k].counter_value

\* A start brings each eUICC back that was ever saved, with the profiles, the
\* associations and the number it had when it was last saved, whatever the
\* dashboard lists by then and however often the process has crashed since.
RestartKeeps ==
  [][running' /\ ~ running =>
       \A e \in DOMAIN saved : e \in DOMAIN instances' /\ Row(instances'[e]) = Row(saved[e])]_vars
=============================================================================
