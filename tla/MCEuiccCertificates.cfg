SPECIFICATION FairSpec
CONSTANTS
  Missing = Missing
  Torn = Torn
  None = None
  PackageMayGo = FALSE
  MaxStops = 4
INVARIANTS TypeOK ServedChainHolds
PROPERTIES KeepsIdentity HealsUnderSgp26 ComesBack
CHECK_DEADLOCK FALSE
