------------------------- MODULE MCProfileDownload -------------------------
(* Instance of ProfileDownload for TLC. *)
EXTENDS ProfileDownload, TLC

CONSTANTS i1, d1, d2, c1, c2

MCIccids    == {i1}
MCSizes     == {1, 2}
MCDownloads == {d1, d2}
MCCancels   == {c1, c2}
DownloadSymmetry == Permutations(MCDownloads)
CancelSymmetry   == Permutations(MCCancels)
============================================================================
