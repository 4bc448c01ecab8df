SPECIFICATION FairSpec
CONSTANTS
  e1 = e1
  e2 = e2
  i1 = i1
  i2 = i2
  c1 = c1
  c2 = c2
  EimIds = {e1, e2}
  Iccids = {i1}
  MaxCounter = 2
  Packages <- MCQueue
  InitialEims <- MCInitialEims
  InitialSlots <- MCSlots
  Addable = {}
  Deletable = {}
  Scans <- MCScans
  Triggers <- MCTriggers
  Foreign <- MCForeign
  Cycles = {c1, c2}
  None = None
  Stoppable = {c2}
  Counted = {c1}
  MaxErrors = 1
  Registered = {e1}
  MaxExecuted = 3
  MaxLate = 0
INVARIANTS ReportedExecuted ScansExplained
PROPERTIES RowsEnd ImplementsLedger
