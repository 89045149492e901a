SPECIFICATION FairSpec
CONSTANTS
    Workers = {w1, w2}
    Stopper = stopper
    Coroutines = {c1, c2}
    Unlocked = Unlocked
    Locked = Locked
    Uses = {"mutex"}
PROPERTY StopAlwaysReturns
CHECK_DEADLOCK FALSE
