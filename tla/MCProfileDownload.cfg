CONSTANTS
  i1 = i1
  d1 = d1
  d2 = d2
  c1 = c1
  c2 = c2
  NoTransaction = NoTransaction
  Iccids <- MCIccids
  Sizes <- MCSizes
  DefaultSize = 1
  TotalNvm = 3
  InitialFreeNvm = 3
  MaxProfiles = 2
  MaxPreloads = 0
  MaxSeq = 2
  Downloads <- MCDownloads
  Triggered = {d2}
  Cancels <- MCCancels
  BppNamesTransaction = FALSE
SPECIFICATION Spec
SYMMETRY CancelSymmetry
CHECK_DEADLOCK FALSE
INVARIANTS TypeOK SessionConsistent OneInstallPerTransaction ReportedInstalled
PROPERTY ImplementsInstallPermit
