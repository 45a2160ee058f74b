SPECIFICATION FairSpec
CONSTANTS
    Ids = {i1}
    Configs = {c1, c2}
    Entries = {e1}
    None = None
INVARIANTS ConfirmedOnSuccess
PROPERTIES FailureKeepsState CustodyHolds OperationReturns
