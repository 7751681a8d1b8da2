SPECIFICATION FairSpec
CONSTANTS
  Tasks = {}
  Cbs = {c1}
  Timers = {x1}
  Prepares = {p1, p2}
  Idles = {i1}
  Watchers = {}
  Modes = {"LOOP"}
  MinDelay = 1
  MaxTime = 2
INVARIANTS NoAbort
PROPERTIES PassServes
CHECK_DEADLOCK FALSE
