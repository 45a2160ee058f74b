SPECIFICATION Spec
CONSTANTS
    Ids = {i1}
    Configs = {c1}
    Entries = {icmp, text}
    Description = {text}
    None = None
INVARIANTS NoReplay ConfirmedOnSuccess
PROPERTIES FailureKeepsState
