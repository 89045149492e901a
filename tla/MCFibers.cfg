\* Four fibers on three workers for the mutex: a holder and two that park or wake at
\* once; for the runtime three fibers, one of which is started by another and may get
\* the stack of one that has ended; for the group two waiters and two Dones.
SPECIFICATION FairSpec
CONSTANTS
    Fibers = {f1, f2, f3, f4}
    Workers = 3
    Pool = {w1, w2}
    Few = {f1, f2, f3}
    Roots = {f1, f2}
    Doers = {f1, f2}
    Waiters = {f3, f4}
    GroupWorkers = 2
    None = None
INVARIANT FibersInPlace
PROPERTIES ImplementsFutexMutex LockProgress FibersEnd EndsUntouched
CHECK_DEADLOCK FALSE
