SPECIFICATION FairSpec
CONSTANTS
    Callers = {k1, k2, k3}
    Interval = 2
    Horizon = 4
CONSTRAINT Bounded
INVARIANTS TypeOK SlotsSpaced QuotaKept
PROPERTIES CancelledReturns
