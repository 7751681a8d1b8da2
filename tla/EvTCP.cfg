SPECIFICATION FairSpec
CONSTANTS
  NodeIds = {1, 2, 3}
  MaxIn = 1
  MaxRoom = 1
  MaxSend = 3
  BufSize = 1
INVARIANTS DataInOrder ClosesCleanly
PROPERTIES Progresses
