SPECIFICATION Spec
CONSTANTS
    Callers = {k1, k2}
    Interval = 2
    Horizon = 4
CONSTRAINT Bounded
INVARIANTS AdmissionsSpaced
