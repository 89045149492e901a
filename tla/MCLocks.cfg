SPECIFICATION McSpec
CONSTANTS Users = {t1, t2, t3}
          Participants = {t1, t2, t3, t4}
          MaxTicket = 5
          Seats = 5
          MaxUpdates = 3
          Iterations = 2
INVARIANTS LocksAreSafe CountersHold
PROPERTIES TicketsServeInOrder LocksProgress SimulationsBreak
PROPERTIES ImplementsBarrier EverybodyPasses
CHECK_DEADLOCK FALSE
