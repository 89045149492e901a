SPECIFICATION PoolSpec
CONSTANTS Clients = {c1, c2}
          Workers = {w1, w2}
          Tasks = {k1, k2, k3}
          None = None
          Stopper = c1
INVARIANT PoolInvariant
PROPERTIES PoolPromises TasksEnd CallsReturn
