--------------------------- MODULE ActiveProfile ---------------------------
(***************************************************************************)
(* What a device may expect of its eUICC, whatever interface manages it:   *)
(* a set of installed profiles of which at most one is active; the active  *)
(* profile changes only to another installed one or to none, and a profile *)
(* is not taken away while it is active.                                   *)
(***************************************************************************)
CONSTANT Profile

VARIABLES
  installed,   \* the profiles on the eUICC
  active       \* the active profile, as a set of at most one element

vars == <<installed, active>>

AtMostOne(S) == \A p, q \in S : p = q

Init ==
  /\ installed \subseteq Profile
  /\ active \subseteq installed
  /\ AtMostOne(active)

Install(p) ==
  /\ installed' = installed \cup {p}
  /\ UNCHANGED active

\* One profile is deleted, or a reset deletes several.
Remove(S) ==
  /\ S \cap active = {}
  /\ installed' = installed \ S
  /\ UNCHANGED active

Switch(p) ==
  /\ p \in installed
  /\ active' = {p}
  /\ UNCHANGED installed

Deactivate ==
  /\ active' = {}
  /\ UNCHANGED installed

Next ==
  \/ \E p \in Profile : Install(p) \/ Switch(p)
  \/ \E S \in SUBSET installed : Remove(S)
  \/ Deactivate

Spec == Init /\ [][Next]_vars
============================================================================
