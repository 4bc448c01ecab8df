--------------------------- MODULE EuiccProfiles ---------------------------
(***************************************************************************)
(* The profile side of one virtual eUICC: the ISD-P slots, the free        *)
(* non-volatile memory and the notification queue of EuiccState, as they   *)
(* are changed by the ES10c functions of the local interface, by the PSMO  *)
(* operations an eIM ships in an eUICC package, and by the installation    *)
(* step of LoadBoundProfilePackage.                                        *)
(*                                                                         *)
(* Every handler of the simulator runs to completion without an await, so  *)
(* one handler is one action.  A call that returns an error code before it *)
(* has changed anything is a stuttering step and has no action.            *)
(***************************************************************************)
EXTENDS Integers, Sequences, FiniteSets

CONSTANTS
  Iccids,          \* ICCIDs a profile may carry
  Sizes,           \* NVM charges of a decrypted profile package
  DefaultSize,     \* charge of a profile without data (4096 bytes)
  TotalNvm,        \* EuiccState.total_nvm (512 KB)
  InitialFreeNvm,  \* EuiccState.free_nvm of a fresh eUICC (480 KB)
  MaxProfiles,     \* EuiccState.max_profiles (8)
  MaxPreloads,     \* bound: profiles a device is created with
  MaxSeq           \* bound: notification numbers spent by one behaviour

ASSUME SizesAssumption ==
  /\ DefaultSize \in Nat \ {0}
  /\ Sizes \subseteq Nat \ {0}

ASSUME MemoryAssumption ==
  /\ TotalNvm \in Nat
  /\ InitialFreeNvm \in Nat
  /\ InitialFreeNvm + MaxPreloads * DefaultSize <= TotalNvm

ASSUME BoundsAssumption ==
  /\ MaxPreloads \in Nat
  /\ MaxProfiles \in Nat
  /\ MaxPreloads <= MaxProfiles
  /\ MaxSeq \in Nat

VARIABLES
  profiles,          \* the slots, in the order of the Python list
  free_nvm,
  notifications,     \* the pending notification queue
  notification_seq   \* _notification_seq

vars == <<profiles, free_nvm, notifications, notification_seq>>

States     == {"enabled", "disabled"}
Classes    == {"operational", "provisioning", "test"}
Operations == {"install", "enable", "disable", "delete"}

\* A slot; "aid" is the number that allocate_isdp_aid prints into the ISD-P
\* AID, "size" is what the profile is charged: its data, or the default.
ProfileSlot ==
  [iccid : Iccids, aid : Nat \ {0}, state : States, class : Classes,
   size : Sizes \cup {DefaultSize}]

Notification == [seq : Nat \ {0}, operation : Operations, iccid : Iccids]

Slots == DOMAIN profiles

----------------------------------------------------------------------------
(* Lookups.  Each returns the set that holds the first matching slot, and  *)
(* is empty where the code returns None.                                   *)

FirstAmong(S) == {k \in S : \A j \in S : k <= j}

find_profile_by_iccid(i) == FirstAmong({k \in Slots : profiles[k].iccid = i})

find_profile_by_aid(a) == FirstAmong({k \in Slots : profiles[k].aid = a})

get_enabled_profile == FirstAmong({k \in Slots : profiles[k].state = "enabled"})

\* The slots an ES10c request can name: by ICCID, else by AID.
Addressable ==
  {k \in Slots : \/ \E i \in Iccids : k \in find_profile_by_iccid(i)
                \/ \E j \in Slots : k \in find_profile_by_aid(profiles[j].aid)}

(* Updates shared by the handlers.                                         *)

\* Mutant: the number is taken once for all entries of a call.
add_notifications_same_number(ops) ==
  /\ notification_seq + Len(ops) <= MaxSeq
  /\ notification_seq' = notification_seq + Len(ops)
  /\ notifications' = notifications \o
       [n \in 1..Len(ops) |-> [seq       |-> notification_seq + 1,
                               operation |-> ops[n][1],
                               iccid     |-> ops[n][2]]]

\* Queue one notification per <<operation, iccid>> of the sequence ops.
add_notifications(ops) ==
  /\ notification_seq + Len(ops) <= MaxSeq
  /\ notification_seq' = notification_seq + Len(ops)
  /\ notifications' = notifications \o
       [n \in 1..Len(ops) |-> [seq       |-> notification_seq + n,
                               operation |-> ops[n][1],
                               iccid     |-> ops[n][2]]]

\* Keep only the slots in K, in their order.
Ascending(K) ==
  {f \in [1..Cardinality(K) -> K] :
     /\ \A a, b \in DOMAIN f : a < b => f[a] < f[b]
     /\ \A k \in K : \E a \in DOMAIN f : f[a] = k}

RetainOnly(K) ==
  \E f \in Ascending(K) : profiles' = [a \in DOMAIN f |-> profiles[f[a]]]

SetState(k, s) == [profiles[k] EXCEPT !.state = s]

\* Enable slot k after disabling the first enabled one.
SwitchTo(k) ==
  profiles' = [j \in Slots |->
                 IF j = k THEN SetState(j, "enabled")
                 ELSE IF j \in get_enabled_profile THEN SetState(j, "disabled")
                 ELSE profiles[j]]

Disable(k) == profiles' = [profiles EXCEPT ![k] = SetState(k, "disabled")]

\* Mutant: numbers start at zero.
allocate_isdp_aid_from_zero == Len(profiles)

allocate_isdp_aid == Len(profiles) + 1

\* Memory the first k slots of the list p are charged for, as a function of k,
\* and what all of them are.
ChargedUpTo(p) ==
  LET Sum[k \in 0..Len(p)] == IF k = 0 THEN 0 ELSE Sum[k - 1] + p[k].size
  IN  Sum

UsedBy(p) == ChargedUpTo(p)[Len(p)]

----------------------------------------------------------------------------
(* Creation.  create_euicc installs a list of profiles in any state; it    *)
(* charges nothing for them and does not look at max_profiles or at the    *)
(* other states, so that the list has at most MaxPreloads entries and one  *)
(* enabled profile is an assumption about the caller.                      *)

Preloads ==
  UNION {[1..n -> [iccid : Iccids, state : States, class : Classes]] :
           n \in 0..MaxPreloads}

Preloaded(pre) ==
  [k \in DOMAIN pre |->
     [iccid |-> pre[k].iccid, aid |-> k, state |-> pre[k].state,
      class |-> pre[k].class, size |-> DefaultSize]]

CreateWith(pre) ==
  /\ profiles = Preloaded(pre)
  /\ free_nvm = InitialFreeNvm
  /\ notifications = <<>>
  /\ notification_seq = 0

SingleActive(pre) ==
  \A j, k \in DOMAIN pre :
    pre[j].state = "enabled" /\ pre[k].state = "enabled" => j = k

Init == \E pre \in Preloads : SingleActive(pre) /\ CreateWith(pre)

----------------------------------------------------------------------------
(* ES10c: local profile management.                                        *)

\* Mutant: the profile switched off is not reported.
enable_profile_unreported(k) ==
  /\ profiles[k].state # "enabled"
  /\ SwitchTo(k)
  /\ add_notifications(<< <<"enable", profiles[k].iccid>> >>)
  /\ UNCHANGED free_nvm

enable_profile(k) ==
  /\ profiles[k].state # "enabled"
  /\ SwitchTo(k)
  /\ \/ /\ get_enabled_profile = {}
        /\ add_notifications(<< <<"enable", profiles[k].iccid>> >>)
     \/ \E c \in get_enabled_profile :
          add_notifications(<< <<"disable", profiles[c].iccid>>,
                               <<"enable", profiles[k].iccid>> >>)
  /\ UNCHANGED free_nvm

disable_profile(k) ==
  /\ profiles[k].state = "enabled"
  /\ Disable(k)
  /\ add_notifications(<< <<"disable", profiles[k].iccid>> >>)
  /\ UNCHANGED free_nvm

\* Mutant: a deleted profile's memory is not given back.
delete_profile_unrefunded(k) ==
  /\ profiles[k].state # "enabled"
  /\ RetainOnly(Slots \ {k})
  /\ add_notifications(<< <<"delete", profiles[k].iccid>> >>)
  /\ UNCHANGED free_nvm

delete_profile(k) ==
  /\ profiles[k].state # "enabled"
  /\ RetainOnly(Slots \ {k})
  /\ free_nvm' = free_nvm + profiles[k].size
  /\ add_notifications(<< <<"delete", profiles[k].iccid>> >>)

\* Mutant: the enabled profile is deleted as well.
SparedByReset_enabled_too(delete_operational, delete_test) ==
  {k \in Slots :
     \/ profiles[k].class = "provisioning"
     \/ profiles[k].class = "test" /\ ~delete_test
     \/ profiles[k].class = "operational" /\ ~delete_operational}

\* What euicc_memory_reset spares for the given option flags.
SparedByReset(delete_operational, delete_test) ==
  {k \in Slots :
     \/ profiles[k].state = "enabled"
     \/ profiles[k].class = "provisioning"
     \/ profiles[k].class = "test" /\ ~delete_test
     \/ profiles[k].class = "operational" /\ ~delete_operational}

\* The default SM-DP+ address itself is not modelled, only that asking to
\* reset it avoids the early return nothingToDelete.
euicc_memory_reset(delete_operational, delete_test, reset_address) ==
  LET spared == SparedByReset(delete_operational, delete_test) IN
  /\ spared # Slots \/ reset_address
  /\ RetainOnly(spared)
  /\ free_nvm' = TotalNvm - UsedBy(profiles')
  /\ UNCHANGED <<notifications, notification_seq>>

----------------------------------------------------------------------------
(* The installation step of LoadBoundProfilePackage.                       *)

\* Mutant: the slot table is checked one too late.
install_profile_one_too_many(i, size) ==
  /\ size <= free_nvm
  /\ Len(profiles) <= MaxProfiles
  /\ profiles' = Append(profiles,
       [iccid |-> i, aid |-> allocate_isdp_aid, state |-> "disabled",
        class |-> "operational", size |-> size])
  /\ free_nvm' = free_nvm - size
  /\ add_notifications(<< <<"install", i>> >>)

install_profile(i, size) ==
  /\ size <= free_nvm
  /\ Len(profiles) < MaxProfiles
  /\ profiles' = Append(profiles,
       [iccid |-> i, aid |-> allocate_isdp_aid, state |-> "disabled",
        class |-> "operational", size |-> size])
  /\ free_nvm' = free_nvm - size
  /\ add_notifications(<< <<"install", i>> >>)

remove_notification(n) ==
  /\ \E k \in DOMAIN notifications :
       /\ notifications[k].seq = n
       /\ notifications' = SubSeq(notifications, 1, k - 1) \o
                           SubSeq(notifications, k + 1, Len(notifications))
  /\ UNCHANGED <<profiles, free_nvm, notification_seq>>

----------------------------------------------------------------------------
(* PSMO operations of an eUICC package: no notification is queued, and a   *)
(* deleted profile keeps its memory charged.                               *)

\* Mutant: the eIM's enable forgets the profile that is enabled already.
psmo_enable_alone(k) ==
  /\ profiles[k].state # "enabled"
  /\ profiles' = [profiles EXCEPT ![k] = SetState(k, "enabled")]
  /\ UNCHANGED <<free_nvm, notifications, notification_seq>>

psmo_enable(k) ==
  /\ profiles[k].state # "enabled"
  /\ SwitchTo(k)
  /\ UNCHANGED <<free_nvm, notifications, notification_seq>>

psmo_disable(k) ==
  /\ profiles[k].state = "enabled"
  /\ Disable(k)
  /\ UNCHANGED <<free_nvm, notifications, notification_seq>>

psmo_delete(k) ==
  /\ profiles[k].state # "enabled"
  /\ RetainOnly(Slots \ {k})
  /\ UNCHANGED <<free_nvm, notifications, notification_seq>>

_execute_psmo ==
  \E i \in Iccids : \E k \in find_profile_by_iccid(i) :
    psmo_enable(k) \/ psmo_disable(k) \/ psmo_delete(k)

----------------------------------------------------------------------------

\* What the HTTP interface of the eUICC offers without an eIM.
LocalNext ==
  \/ \E k \in Addressable :
       enable_profile(k) \/ disable_profile(k) \/ delete_profile(k)
  \/ \E delete_operational, delete_test, reset_address \in BOOLEAN :
       euicc_memory_reset(delete_operational, delete_test, reset_address)
  \/ \E i \in Iccids, size \in Sizes \cup {DefaultSize} :
       install_profile(i, size)

Next ==
  \/ LocalNext
  \/ _execute_psmo
  \/ \E n \in 1..MaxSeq : remove_notification(n)

Spec == Init /\ [][Next]_vars

----------------------------------------------------------------------------
(* Properties.                                                             *)

\* Slots, memory and queue hold values of their types.
TypeOK ==
  /\ profiles \in Seq(ProfileSlot)
  /\ free_nvm \in Int
  /\ notifications \in Seq(Notification)
  /\ notification_seq \in Nat

\* Whatever mixture of ES10c calls, PSMO operations, resets and downloads
\* runs, at most one profile is enabled: each of the two enable paths
\* disables the old one, and no path re-enables it.
AtMostOneEnabled ==
  \A j, k \in Slots :
    profiles[j].state = "enabled" /\ profiles[k].state = "enabled" => j = k

\* The memory the eUICC advertises is there: charges and free space together
\* never exceed the chip, free space never goes below zero, and the slot
\* table never outgrows max_profiles.  Every path that gives memory back
\* (delete, reset) must agree with what creation and installation charged.
WithinCapacity ==
  /\ free_nvm >= 0
  /\ free_nvm + UsedBy(profiles) <= TotalNvm
  /\ Len(profiles) <= MaxProfiles

\* Notification numbers are never reused and the queue stays in the order
\* the events happened in, also after entries were removed from its middle.
NotificationsOrdered ==
  /\ \A m \in DOMAIN notifications : notifications[m].seq <= notification_seq
  /\ \A m, n \in DOMAIN notifications :
       m < n => notifications[m].seq < notifications[n].seq

\* If any enable or disable is queued for an ICCID, the last such entry says
\* whether a slot with that ICCID is enabled.
ReplayTells ==
  \A m \in DOMAIN notifications :
    LET n == notifications[m]
        later == {x \in DOMAIN notifications :
                    /\ x > m
                    /\ notifications[x].iccid = n.iccid
                    /\ notifications[x].operation \in {"enable", "disable"}}
    IN  n.operation \in {"enable", "disable"} /\ later = {} =>
          (n.operation = "enable" <=>
             \E k \in Slots : profiles[k].iccid = n.iccid
                              /\ profiles[k].state = "enabled")

\* An SM-DP+ that can tell from the queue which profile is active still can after
\* any call of the local interface: an enable, a disable, a delete, a reset or an
\* installation.  Only an eIM's PSMO, which queues nothing, or the removal of an
\* entry takes that away.
NotificationsTellActive ==
  [][ReplayTells /\ ~ ReplayTells' =>
       _execute_psmo \/ \E n \in 1..MaxSeq : remove_notification(n)]_vars

\* Only an eIM's delete loses memory: in whatever state it has left the accounts,
\* no call of the local interface lets what is free plus what the installed
\* profiles are charged shrink.
NoMemoryLeak ==
  [][free_nvm + UsedBy(profiles) > free_nvm' + UsedBy(profiles') => _execute_psmo]_vars

\* allocate_isdp_aid promises "a unique ISD-P AID for a new profile".
AidsUnique ==
  \A j, k \in Slots : profiles[j].aid = profiles[k].aid => j = k

----------------------------------------------------------------------------
(* The abstract promise, see ActiveProfile: a set of installed profiles,   *)
(* one of which may be active and cannot be taken away while it is.        *)

InstalledIccids == {profiles[k].iccid : k \in Slots}

ActiveIccids == {profiles[k].iccid : k \in get_enabled_profile}

Promise == INSTANCE ActiveProfile
             WITH Profile <- Iccids, installed <- InstalledIccids,
                  active <- ActiveIccids

\* The slot table implements the abstract profile switch.
ImplementsActiveProfile == Promise!Spec

============================================================================
