CONSTANTS
  i1 = i1
  i2 = i2
  Iccids <- MCIccids
  Sizes <- MCSizes
  DefaultSize = 1
  TotalNvm = 4
  InitialFreeNvm = 2
  MaxProfiles = 3
  MaxPreloads = 2
  MaxSeq = 3
SPECIFICATION Spec
INVARIANTS TypeOK AtMostOneEnabled WithinCapacity NotificationsOrdered
PROPERTIES ImplementsActiveProfile NotificationsTellActive NoMemoryLeak
SYMMETRY IccidSymmetry
CHECK_DEADLOCK FALSE
