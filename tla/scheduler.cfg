CONSTANTS
    MaxThreads = 4
    NoThread = NoThread

SPECIFICATION Spec
INVARIANTS
    TypeOK
    SingleThread
PROPERTIES
    StopSilences
    TicksGoOn
