SPECIFICATION Spec
CONSTANTS
    Slots = 3
    Channel = {a}
    Image = {p}
    None = None
    Paired = TRUE
    FreshNames = FALSE
    Careless = FALSE
    MaxCommands = 6
INVARIANTS
    PropertyFindsItsChannel
CHECK_DEADLOCK FALSE
