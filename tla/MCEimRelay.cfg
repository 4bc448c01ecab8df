SPECIFICATION Spec
CONSTANTS
  e1 = e1
  e2 = e2
  i1 = i1
  i2 = i2
  c1 = c1
  c2 = c2
  EimIds = {e1, e2}
  Iccids = {i1, i2}
  MaxCounter = 2
  Packages <- MCPackages
  InitialEims <- MCInitialEims
  InitialSlots <- MCSlots
  Addable <- MCAddable
  Deletable = {e1}
  Scans = {}
  Triggers = {}
  Foreign = {}
  Cycles = {c1, c2}
  None = None
  Stoppable = {c1, c2}
  Counted = {}
  MaxErrors = 1
  Registered = {e1, e2}
  MaxExecuted = 3
  MaxLate = 1
INVARIANTS TypeOK ExecutedInOrder OneOfEach ReportedExecuted
PROPERTY LastAssociationKept
SYMMETRY CycleSymmetry
