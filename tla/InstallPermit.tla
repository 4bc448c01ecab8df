--------------------------- MODULE InstallPermit ---------------------------
(***************************************************************************)
(* What profile download promises to both ends, whatever the relay between *)
(* them does: the eUICC installs a profile only by spending the permit it  *)
(* holds; a permit is granted for one SM-DP+ transaction at a time, may be *)
(* withdrawn, and is never granted again once it was spent or once the     *)
(* SM-DP+ was told that its transaction is cancelled.                      *)
(***************************************************************************)
CONSTANT Transaction

VARIABLES
  permit,   \* the transaction that may install, as a set of at most one
  spent,    \* transactions that installed a profile
  revoked   \* transactions the SM-DP+ knows to be cancelled

vars == <<permit, spent, revoked>>

Init == permit = {} /\ spent = {} /\ revoked = {}

Grant(t) ==
  /\ t \notin spent \cup revoked
  /\ permit' = {t}
  /\ UNCHANGED <<spent, revoked>>

Withdraw ==
  /\ permit' = {}
  /\ UNCHANGED <<spent, revoked>>

Spend(t) ==
  /\ permit = {t}
  /\ spent' = spent \cup {t}
  /\ permit' = {}
  /\ UNCHANGED revoked

Revoke(t) ==
  /\ t \notin spent \cup permit
  /\ revoked' = revoked \cup {t}
  /\ UNCHANGED <<permit, spent>>

Next ==
  \/ \E t \in Transaction : Grant(t) \/ Spend(t) \/ Revoke(t)
  \/ Withdraw

Spec == Init /\ [][Next]_vars
============================================================================
