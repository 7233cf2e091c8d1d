CONSTANTS
  Task = {1, 2}
  Main = Main
  None = None
  Id = {1, 2}
  PrintNo = {1, 2}
  Key = {k1}
  Budgets <- MCBudgets
  MaxBoots = 1
SPECIFICATION Spec
INVARIANT RestoredCountStays
CHECK_DEADLOCK FALSE
