SPECIFICATION FairSpec
CONSTANTS
    Threads = {t1, t2, t3, t4}
    Values = {a, b}
    Capacity = 2
INVARIANTS Accounting BufferIsSafe
PROPERTIES ImplementsQueue NobodyStuck
