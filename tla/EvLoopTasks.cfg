SPECIFICATION FairSpec
CONSTANTS
  Tasks = {t1, t2}
  Cbs = {c1}
  Timers = {}
  Prepares = {}
  Idles = {}
  Watchers = {w1}
  Modes = {"LOOP", "ONCE", "NOWAIT"}
  MinDelay = 1
  MaxTime = 0
INVARIANTS WokenForDone 
PROPERTIES QueuedRuns StopReturns
CHECK_DEADLOCK FALSE
