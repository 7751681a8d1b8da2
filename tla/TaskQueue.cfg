SPECIFICATION Spec
CONSTANTS
  Tasks = {t1, t2}
  NGroups = 1
  Workers = {1, 2}
  GroupOf <- InTurn
  Clients = {c1, c2}
  Free = Free
CHECK_DEADLOCK FALSE
INVARIANTS DepsFinished NoMissedCompletion NoLostWakeup
PROPERTIES FinishedStays CallersServed FreeTerminates
