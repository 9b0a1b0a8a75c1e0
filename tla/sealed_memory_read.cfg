CONSTANTS
    Id = {d1}
    Client = {c1}
    Agent <- AllAgents
    Background = FALSE
    MaxPressure = 1
    MaxCycles = 1
    NoRow = NoRow
    Nothing = Nothing
    NoAgent = NoAgent

SPECIFICATION Spec
INVARIANTS
    SealedStaysInaccessible
CHECK_DEADLOCK FALSE
