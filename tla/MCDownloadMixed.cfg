CONSTANTS
  i1 = i1
  d1 = d1
  d2 = d2
  c1 = c1
  c2 = c2
  NoTransaction = NoTransaction
  Iccids <- MCIccids
  Sizes <- MCSizes
  DefaultSize = 1
  TotalNvm = 3
  InitialFreeNvm = 3
  MaxProfiles = 2
  MaxPreloads = 0
  MaxSeq = 2
  Downloads <- MCDownloads
  Triggered = {}
  Cancels = {}
  BppNamesTransaction = FALSE
SPECIFICATION Spec
SYMMETRY DownloadSymmetry
CHECK_DEADLOCK FALSE
INVARIANT InstalledUnderOwnTransaction
