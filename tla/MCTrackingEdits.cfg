SPECIFICATION Spec
CONSTANTS
    one = one
    Editors = {one}
    Rules <- MCRules
    Askable <- MCAskable
    None = None
    MaxUid = 4
CHECK_DEADLOCK FALSE
INVARIANT KnownIsUnchanged
