SPECIFICATION Spec
CONSTANTS
    Slots = 2
    Channel = {a, b}
    Image = {p}
    None = None
    Paired = FALSE
    FreshNames = FALSE
    Careless = TRUE
    MaxCommands = 5
INVARIANTS
    TypeOK
    ServedWhileOpen
    ThreadsHaveTheirObjects
    ChannelsReleased
    ChannelsAreFound
CHECK_DEADLOCK FALSE
