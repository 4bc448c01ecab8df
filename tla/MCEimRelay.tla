----------------------------- MODULE MCEimRelay -----------------------------
(* Instances of EimRelay: two eIMs, two profiles, and the packages below.  *)
EXTENDS EimRelay, TLC

CONSTANTS e1, e2, i1, i2, c1, c2

On(action, iccid) == [action |-> action, iccid |-> iccid]
Eim(action, eim)  == [action |-> action, eimId |-> eim, counterValue |-> NoCounter]
Pack(eim, counter, psmos, ecos) ==
  [eimId |-> eim, counterValue |-> counter, psmoList |-> psmos, ecoList |-> ecos]

\* e1 switches profiles, then brings e2 in; e2 deletes e1.
MCPackages ==
  {Pack(e1, 1, <<On("enable", i1)>>, <<>>),
   Pack(e1, 2, <<On("enable", i2), On("listProfileInfo", i1), On("setFallbackAttribute", i1), On("delete", i1)>>,
        <<Eim("addEim", e2), Eim("listEim", e2)>>),
   Pack(e2, 1, <<On("disable", i2)>>, <<Eim("deleteEim", e1), Eim("updateEim", e2)>>)}

\* A package, a scan, a trigger without an address and a request that the IPA does
\* not support, of the one registered eIM.
MCQueue == {Pack(e1, 1, <<On("enable", i1)>>, <<>>)}

MCScans    == {[eimId |-> e1, scan |-> 1]}
MCTriggers == {[eimId |-> e1, trigger |-> 1, addressed |-> FALSE]}
MCForeign  == {[eimId |-> e1, foreign |-> 1]}

MCSlots == {[i \in Iccids |-> "disabled"]}
CycleSymmetry == Permutations(Cycles)

MCAddable  == {[eim_id |-> e2, counter_value |-> 1]}

MCInitialEims == <<e1>>
=============================================================================
