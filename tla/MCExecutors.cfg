SPECIFICATION MCSpec
CONSTANTS Clients = {c1, c2}
          Workers = {w1, w2}
          Tasks = {k1, k2, k3}
          None = None
          MaxLimit = 2
          MaxDepth = 5
          MaxRun = 3
INVARIANTS OneJob NoStrandedTask
PROPERTIES ImplementsStrand EveryTaskRuns ManualCounts
CHECK_DEADLOCK FALSE
