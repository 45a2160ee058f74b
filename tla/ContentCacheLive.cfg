SPECIFICATION FairSpec
CONSTANTS
    Ids = {i1}
    Configs = {c1}
    Entries = {e1}
    None = None
PROPERTIES OperationReturns
