SPECIFICATION Spec
CONSTANTS
    Ids = {i1, i2}
    Configs = {c1}
    Entries = {e1}
    None = None
SYMMETRY IdSymmetry
CONSTRAINT OneLive
INVARIANTS NoReplay
PROPERTIES FailureKeepsState CustodyHolds
