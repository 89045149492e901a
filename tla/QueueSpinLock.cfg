SPECIFICATION FairSpec
CONSTANTS Threads = {t1, t2, t3, t4}
          Null = Null
INVARIANT SafeGuards
PROPERTIES ImplementsFifoLock NoStarvation
