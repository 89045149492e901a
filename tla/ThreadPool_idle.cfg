SPECIFICATION FairSpec
CONSTANTS Clients = {c1, c2}
          Workers = {w1}
          Tasks = {k1}
          None = None
          Stopper = c1
PROPERTY WaitReturnsAlways
