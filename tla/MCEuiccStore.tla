---------------------------- MODULE MCEuiccStore ----------------------------
(* Instances of EuiccStore: a is the EID that a clone draws, written in     *)
(* lower case; nothing else has its upper-case form B.                      *)
EXTENDS EuiccStore, TLC

CONSTANTS A, B, a, m1, m2, i1

\* Devices with two eIMs; the test device has none.
MCEimLists    == {<<m1, m2>>}
MCPreloadSets == {{}}
MCTestDevices == B :> [eims |-> <<>>, preloads |-> {}]
MCNoDevices   == [e \in {} |-> {}]
\* A package that configures nothing, one that sets a counter back, and one that
\* replaces an association.
AnEco(action, m, c) == [action |-> action, eimId |-> m, counterValue |-> c]
MCEcoLists ==
  {<<>>, <<AnEco("updateEim", m1, 0)>>,
   <<AnEco("deleteEim", m1, -1), AnEco("addEim", m1, 0)>>}
MCAdded       == {[eim_id |-> m1, counter_value |-> 0]}
MCUpper       == [e \in Eids |-> IF e = a THEN B ELSE e]
=============================================================================
