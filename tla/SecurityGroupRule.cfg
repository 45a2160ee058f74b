SPECIFICATION RuleSpec
CONSTANTS
    Ids = {i1}
    Configs = {c1}
    Entries = {out, name, text}
    Description = {text}
    Opposite = {out}
    None = None
INVARIANTS RuleTypeOK NoReplay ConfirmedOnSuccess
PROPERTIES FailureKeepsState ShownRuleKept
