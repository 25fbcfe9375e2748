SPECIFICATION Spec
CONSTANTS
    Slots = 3
    Channel = {a, b}
    Image = {}
    None = None
    Paired = TRUE
    FreshNames = FALSE
    Careless = FALSE
    MaxCommands = 7
INVARIANTS
    DeleteStopsAChannel
