CONSTANTS
  Task = {1, 2}
  Main = Main
  None = None
  Id = {1, 2}
  PrintNo = {1, 2}
  Key = {k1}
  Budgets <- MCBudgets
  MaxBoots = 2
SPECIFICATION FairSpec
INVARIANTS
  TypeOK
  JobCountedOnce
  InterruptedFound
  UnsafeShutdownsCounted
  NamespaceListed
PROPERTIES
  FinishedRowsStay
  EveryTaskEnds
CHECK_DEADLOCK FALSE
