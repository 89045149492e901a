SPECIFICATION Spec
CONSTANTS Threads = {t1, t2, t3}
          Nodes = {n1, n2}
          Null = Null
          MaxStamp = 2
          Spurious = TRUE
          Counting = TRUE
SYMMETRY Symmetry
INVARIANTS ListIsIntact NoUseAfterFree NoLeak
