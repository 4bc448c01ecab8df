---------------------------- MODULE EuiccPackages ----------------------------
(***************************************************************************)
(* The eUICC's ESep endpoint: LoadEuiccPackage executes the profile state  *)
(* operations (PSMO) and the configuration operations (eCO) of a package   *)
(* in one go, if the eIM that sent it is associated and the package's      *)
(* counter is above the association's.  Beside it the associations are     *)
(* added and deleted over the eUICC's own routes.                          *)
(*                                                                         *)
(* The slots are seen from the PSMO operations only (EuiccProfiles has the *)
(* rest): which state the profile with an ICCID is in.  At most one of     *)
(* them is enabled, so "the first enabled one" is "the enabled one".       *)
(***************************************************************************)
EXTENDS Integers, Sequences

CONSTANTS
  EimIds,          \* eIM identifiers
  Iccids,          \* ICCIDs
  MaxCounter,      \* bound: the largest counter a package or association has
  Packages,        \* the packages the eIMs may have queued
  InitialEims,     \* associations with counter 0 that the eUICC is created with
  InitialSlots,    \* states of the profiles it may be created with
  Addable,         \* associations the /eim/add route is called for
  Deletable        \* eIMs the /eim/delete route is called for

NoCounter == -1    \* an eCO without a counterValue

\* setFallbackAttribute stands for the actions that the IPA decodes and the
\* eUICC does not know.
Psmo == [action : {"enable", "disable", "delete", "listProfileInfo", "setFallbackAttribute"},
         iccid  : Iccids]
Eco  == [action       : {"addEim", "deleteEim", "updateEim", "listEim"},
         eimId        : EimIds,
         counterValue : {NoCounter} \cup 0..MaxCounter]

Package ==
  [eimId : EimIds, counterValue : 0..MaxCounter, psmoList : Seq(Psmo), ecoList : Seq(Eco)]

ASSUME PackagesAssumption ==
  /\ MaxCounter \in Nat
  /\ Packages \subseteq Package

ASSUME AssociationsAssumption ==
  /\ InitialEims \in Seq(EimIds)
  /\ \A i, j \in DOMAIN InitialEims : InitialEims[i] = InitialEims[j] => i = j
  /\ Addable \subseteq [eim_id : EimIds, counter_value : 0..MaxCounter]
  /\ Deletable \subseteq EimIds

SlotState == {"absent", "disabled", "enabled"}

AtMostOneIn(s) == \A i, j \in Iccids : s[i] = "enabled" /\ s[j] = "enabled" => i = j

ASSUME SlotsAssumption ==
  InitialSlots \subseteq {s \in [Iccids -> SlotState] : AtMostOneIn(s)}

VARIABLES
  eim_associations,   \* EuiccState.eim_associations, in order
  slots,              \* the state of the profile with each ICCID
  executed            \* observer: the packages executed so far, with their results
                      \* and the slots they left

euiccVars == <<eim_associations, slots, executed>>

EimAssociation == [eim_id : EimIds, counter_value : 0..MaxCounter]
OpResult       == {"ok", "error", "unknownAction"}

EuiccInit ==
  /\ eim_associations = [k \in DOMAIN InitialEims |->
                           [eim_id |-> InitialEims[k], counter_value |-> 0]]
  /\ slots \in InitialSlots
  /\ executed = <<>>

----------------------------------------------------------------------------
(* Single operations, on a record of the slots and the associations.       *)

Associated(assocs, e) == {k \in DOMAIN assocs : assocs[k].eim_id = e}

\* The association that is looked up for an associated eIM: the first one.
First(assocs, e) ==
  CHOOSE k \in Associated(assocs, e) : \A j \in Associated(assocs, e) : k <= j

WithCounter(assocs, e, c) == [assocs EXCEPT ![First(assocs, e)].counter_value = c]

Without(assocs, e) ==
  SubSeq(assocs, 1, First(assocs, e) - 1) \o SubSeq(assocs, First(assocs, e) + 1, Len(assocs))

\* An operation on an ICCID that is not installed, or in the wrong state, fails.
PsmoSucceeds(psmo, s) ==
  \/ psmo.action = "listProfileInfo"
  \/ psmo.action \in {"enable", "delete"} /\ s[psmo.iccid] = "disabled"
  \/ psmo.action = "disable" /\ s[psmo.iccid] = "enabled"

\* Mutant: enabling a profile leaves the enabled one as it is.
SlotsAfter_enable_alone(psmo, s) ==
  CASE psmo.action = "enable"  -> [s EXCEPT ![psmo.iccid] = "enabled"]
    [] psmo.action = "disable" -> [s EXCEPT ![psmo.iccid] = "disabled"]
    [] psmo.action = "delete"  -> [s EXCEPT ![psmo.iccid] = "absent"]
    [] OTHER                   -> s

\* Enabling a profile disables the enabled one.
SlotsAfter(psmo, s) ==
  CASE psmo.action = "enable" ->
         [i \in Iccids |-> IF i = psmo.iccid THEN "enabled"
                           ELSE IF s[i] = "enabled" THEN "disabled" ELSE s[i]]
    [] psmo.action = "disable" -> [s EXCEPT ![psmo.iccid] = "disabled"]
    [] psmo.action = "delete"  -> [s EXCEPT ![psmo.iccid] = "absent"]
    [] OTHER                   -> s

\* Mutant: the last association may be deleted as well.
EcoSucceeds_last_too(eco, assocs) ==
  LET known == Associated(assocs, eco.eimId) # {} IN
  \/ eco.action = "listEim"
  \/ eco.action = "addEim" /\ ~ known
  \/ eco.action \in {"deleteEim", "updateEim"} /\ known

\* No second association for an eIM, and the last one is not deleted.
EcoSucceeds(eco, assocs) ==
  LET known == Associated(assocs, eco.eimId) # {} IN
  \/ eco.action = "listEim"
  \/ eco.action = "addEim" /\ ~ known
  \/ eco.action = "updateEim" /\ known
  \/ eco.action = "deleteEim" /\ known /\ Len(assocs) > 1

\* Mutant: a new association without a counter gets no default.
AssociationsAfter_no_default(eco, assocs) ==
  CASE eco.action = "addEim" ->
         Append(assocs, [eim_id |-> eco.eimId, counter_value |-> eco.counterValue])
    [] eco.action = "deleteEim" -> Without(assocs, eco.eimId)
    [] OTHER -> assocs

\* A new association starts at 0 unless told otherwise; an update without a
\* counter leaves it.
AssociationsAfter(eco, assocs) ==
  CASE eco.action = "addEim" ->
         Append(assocs, [eim_id        |-> eco.eimId,
                         counter_value |-> IF eco.counterValue = NoCounter THEN 0
                                           ELSE eco.counterValue])
    [] eco.action = "deleteEim" -> Without(assocs, eco.eimId)
    [] eco.action = "updateEim" /\ eco.counterValue # NoCounter ->
         WithCounter(assocs, eco.eimId, eco.counterValue)
    [] OTHER -> assocs

ExecutePsmo(card, psmo) ==
  IF PsmoSucceeds(psmo, card.slots)
  THEN [card EXCEPT !.slots = SlotsAfter(psmo, @), !.results = Append(@, "ok")]
  ELSE [card EXCEPT !.results =
          Append(@, IF psmo.action = "setFallbackAttribute" THEN "unknownAction" ELSE "error")]

ExecuteEco(card, eco) ==
  IF EcoSucceeds(eco, card.assocs)
  THEN [card EXCEPT !.assocs = AssociationsAfter(eco, @), !.results = Append(@, "ok")]
  ELSE [card EXCEPT !.results = Append(@, "error")]

\* Operations one after the other; one that fails does not stop the next one.
ExecutePsmos(card, psmos) ==
  LET After[k \in 0..Len(psmos)] ==
        IF k = 0 THEN card ELSE ExecutePsmo(After[k - 1], psmos[k])
  IN  After[Len(psmos)]

ExecuteEcos(card, ecos) ==
  LET After[k \in 0..Len(ecos)] ==
        IF k = 0 THEN card ELSE ExecuteEco(After[k - 1], ecos[k])
  IN  After[Len(ecos)]

----------------------------------------------------------------------------
(* LoadEuiccPackage.                                                       *)

\* Mutant: a package with the association's own counter is accepted.
Accepts_again(p) ==
  /\ Associated(eim_associations, p.eimId) # {}
  /\ p.counterValue >= eim_associations[First(eim_associations, p.eimId)].counter_value

Accepts(p) ==
  /\ Associated(eim_associations, p.eimId) # {}
  /\ p.counterValue > eim_associations[First(eim_associations, p.eimId)].counter_value

\* The counter is taken over before the operations, and all PSMOs are executed
\* before all eCOs.
Effect(p) ==
  LET start == [slots   |-> slots,
                assocs  |-> WithCounter(eim_associations, p.eimId, p.counterValue),
                results |-> <<>>]
  IN  ExecuteEcos(ExecutePsmos(start, p.psmoList), p.ecoList)

Reply(p) ==
  IF Accepts(p) THEN [rejected |-> FALSE, results |-> Effect(p).results]
                ELSE [rejected |-> TRUE,  results |-> <<>>]

load_euicc_package(p) ==
  \/ /\ Accepts(p)
     /\ slots' = Effect(p).slots
     /\ eim_associations' = Effect(p).assocs
     /\ executed' = Append(executed, [package |-> p, results |-> Effect(p).results,
                                   slots |-> Effect(p).slots])
  \/ ~ Accepts(p) /\ UNCHANGED euiccVars

\* The routes /eim/add and /eim/delete.
add_eim(a) ==
  LET eco == [action |-> "addEim", eimId |-> a.eim_id, counterValue |-> a.counter_value] IN
  /\ EcoSucceeds(eco, eim_associations)
  /\ eim_associations' = AssociationsAfter(eco, eim_associations)
  /\ UNCHANGED <<slots, executed>>

delete_eim(e) ==
  LET eco == [action |-> "deleteEim", eimId |-> e, counterValue |-> NoCounter] IN
  /\ EcoSucceeds(eco, eim_associations)
  /\ eim_associations' = AssociationsAfter(eco, eim_associations)
  /\ UNCHANGED <<slots, executed>>

Maintenance ==
  \/ \E a \in Addable : add_eim(a)
  \/ \E e \in Deletable : delete_eim(e)

----------------------------------------------------------------------------
(* Properties of the eUICC's side.                                         *)

EuiccTypeOK ==
  /\ eim_associations \in Seq(EimAssociation)
  /\ slots \in [Iccids -> SlotState]
  /\ executed \in Seq([package : Packages, results : Seq(OpResult),
                     slots : [Iccids -> SlotState]])

\* Whatever is redelivered, late or overtaken: the packages of one eIM are
\* executed in the order of their counters, hence each of them at most once.
ExecutedInOrder ==
  \A i, j \in DOMAIN executed :
    i < j /\ executed[i].package.eimId = executed[j].package.eimId =>
      executed[i].package.counterValue < executed[j].package.counterValue

\* Every package executed one after the other leaves at most one profile
\* enabled, and one association for each eIM.
OneOfEach ==
  /\ AtMostOneIn(slots)
  /\ \A k, l \in DOMAIN eim_associations :
       eim_associations[k].eim_id = eim_associations[l].eim_id => k = l

\* An eUICC that has an eIM never loses its last one, whichever of the eCO and
\* the route deletes first, and in whatever order a package adds and deletes.
LastAssociationKept ==
  [][eim_associations # <<>> => eim_associations' # <<>>]_eim_associations
=============================================================================
