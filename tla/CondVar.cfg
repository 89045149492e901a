SPECIFICATION FairCvSpec
CONSTANTS Threads = {t1, t2, t3, t4}
          MaxValue = 2
          Waiters = {t1, t2}
          Notifiers = {t3}
INVARIANTS NoLostWakeup NoMissedNotification
PROPERTIES ImplementsLock LockProgress
CHECK_DEADLOCK FALSE
