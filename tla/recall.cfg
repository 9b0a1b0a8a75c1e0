CONSTANTS
    Id = {d1}
    Client = {c1}
    Reader = {r1}
    Agent <- OneAgent
    Background = TRUE
    MaxPressure = 0
    MaxCycles = 0
    NoRow = NoRow
    Nothing = Nothing
    NoAgent = NoAgent

SPECIFICATION RecallSpec
VIEW WithoutDirty
INVARIANTS
    CallsTypeOK
    PhaseMatchesTaint
    ShownWasReadable
    TaintedOnlyAsWarning
