SPECIFICATION FairSpec
CONSTANTS
  Tasks = {t1, t2, t3, t4}
  None = None
  MaxErrors = 10
  MaxCount = 12
INVARIANTS TypeOK OneLoop
PROPERTIES KeepsPolling GivesUp
