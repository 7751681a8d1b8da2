SPECIFICATION Spec
CONSTANTS
  NodeIds = {1, 2, 3}
  MaxIn = 1
  MaxRoom = 1
  MaxSend = 2
  BufSize = 2
INVARIANTS
  DataInOrder
