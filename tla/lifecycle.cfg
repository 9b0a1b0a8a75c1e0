CONSTANTS
    Id = {d1, d2}
    Client = {c1}
    Agent <- AllAgents
    Background = FALSE
    MaxPressure = 1
    MaxCycles = 1
    NoRow = NoRow
    Nothing = Nothing
    NoAgent = NoAgent

SYMMETRY Symmetry
SPECIFICATION InlineSpec
INVARIANTS
    TypeOK
    PhaseMatchesTaint
    NoGenerationUntilFiltered
    TaintIsEarned
PROPERTIES
    ImplementsMemory
    CyclesNeverFall
CHECK_DEADLOCK FALSE
