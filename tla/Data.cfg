SPECIFICATION Spec
CONSTANTS
  Which = {"hash", "array", "kv", "bits", "list", "slist", "queue", "str", "tree", "ring", "ref", "hzr", "timeout", "pool", "buffer"}
  MaxOps = 5
  Size = 3
  Items = {i1, i2}
  NullItem = NullItem
  Threads = {1, 2, 3}
  Clients = {10, 11}
  NoThread = 0
  RefThreads = {"t1", "t2"}
  Weaks = {1, 2, 3}
  MaxRefs = 2
  HzrThreads = {"t1", "t2"}
  MaxValue = 3
  MaxRecs = 3
INVARIANTS ContainersAgree ChunksAlive HandedOver PoolAlive
PROPERTIES ImplementsFifo ImplementsTimerQueue
CHECK_DEADLOCK FALSE
