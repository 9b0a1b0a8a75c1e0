CONSTANTS
    Id = {d1}
    Client = {c1}
    Agent <- AllAgents
    Background = TRUE
    MaxPressure = 1
    MaxCycles = 1
    NoRow = NoRow
    Nothing = Nothing
    NoAgent = NoAgent

SPECIFICATION Spec
PROPERTIES
    DecayFadesSalienceOnly
CHECK_DEADLOCK FALSE
