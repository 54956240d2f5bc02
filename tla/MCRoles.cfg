SPECIFICATION Spec
CONSTANTS
    None = None
    Periodic = periodic
    Singles = {single}
    Guilds = 2
    a = a
    b = b
    there = there
    Communities = {a, b}
    Areas = {there}
    Unlocking = {b}
    Allowed <- MCAllowed
    Configs <- MCConfigs
    MaxChanges = 3
    MaxErrors = 1
INVARIANTS
    BlockOutlivesChecks
PROPERTIES
    RolesWin
