SPECIFICATION McSpec
CONSTANTS
    PoolWorkers = {w1, w2}
    Stopper = stopper
    Coroutines = {c1, c2, c3}
    Unlocked = Unlocked
    Locked = Locked
    Uses = {"mutex", "waitgroup"}
INVARIANT TasksInPlace
PROPERTIES ImplementsFifoLock NoStarvation StopReturns WaitReturns
CHECK_DEADLOCK FALSE
