SPECIFICATION Spec
CONSTANTS
    Ids = {i1}
    Configs = {c1}
    Entries = {e1, e2}
    None = None
SYMMETRY EntrySymmetry
CONSTRAINT OneLate
INVARIANTS TypeOK NoReplay ConfirmedOnSuccess IdentityRetained
PROPERTIES FailureKeepsState FailedCreateClaimsNothing ReviewedWrites CustodyHolds
