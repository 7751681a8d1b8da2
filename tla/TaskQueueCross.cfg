SPECIFICATION Spec
CONSTANTS
  Tasks = {t1, t2}
  NGroups = 2
  Workers = {1, 2}
  GroupOf <- InTurn
  Clients = {c1}
  Free = Free
CHECK_DEADLOCK FALSE
PROPERTIES PickedUp
