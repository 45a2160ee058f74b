SPECIFICATION FairSpec
CONSTANTS
    None = None
    PageSize = 2
    MaxPages = 2
    MaxRows = 4
    Accounts = {a1, a2}
    Settings = {s1, s2}
    Entries = {e1}
    Null = Null
    Unknown = Unknown
INVARIANTS TypeOK ListComplete CountedComplete PlanKept NoStranding FreshAccount
PROPERTIES CallKept ReadReturns
