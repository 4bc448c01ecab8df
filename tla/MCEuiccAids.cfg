CONSTANTS
  i1 = i1
  i2 = i2
  Iccids <- MCIccids
  Sizes <- MCSizes
  DefaultSize = 1
  TotalNvm = 4
  InitialFreeNvm = 2
  MaxProfiles = 3
  MaxPreloads = 2
  MaxSeq = 3
SPECIFICATION Spec
SYMMETRY IccidSymmetry
CHECK_DEADLOCK FALSE
INVARIANT AidsUnique
