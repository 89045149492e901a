SPECIFICATION FairSpec
CONSTANTS Threads = {t1, t2}
          Nodes = {n1}
          Null = Null
          MaxStamp = 2
          Spurious = FALSE
          Counting = FALSE
PROPERTY LockFree
