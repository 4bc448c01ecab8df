-------------------------- MODULE MCEuiccProfiles --------------------------
(* Instance of EuiccProfiles for TLC: memory is counted in 4096-byte blocks. *)
EXTENDS EuiccProfiles, TLC

CONSTANTS i1, i2

MCIccids == {i1, i2}
MCSizes  == {1, 2}
IccidSymmetry == Permutations(MCIccids)
============================================================================
