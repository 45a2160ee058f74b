SPECIFICATION Spec
CONSTANTS
    Ids = {i1}
    Configs = {c1}
    Entries = {icmp}
    Description = {}
    None = None
PROPERTIES OnlyConfirmedAbsenceRemoves
