SPECIFICATION FairSpec
CONSTANTS
    Slots = 2
    Channel = {a, b, c}
    Image = {p}
    None = None
    Paired = TRUE
    FreshNames = TRUE
    Careless = TRUE
    MaxCommands = 6
INVARIANTS
    NoThreadError
PROPERTIES
    TableSpec
    EveryCommandIsExecuted
CHECK_DEADLOCK FALSE
