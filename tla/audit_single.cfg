CONSTANTS
    Appender = {p1}
    Body = {b1, b2}
    MaxAppends = 4
    MaxDamage = 1
    NoHead = NoHead

SPECIFICATION Spec
INVARIANTS
    TypeOK
    ChainIntact
    CompletedHeadVerifies
    DamageStaysVisible
PROPERTIES
    LossIsNoticed
CHECK_DEADLOCK FALSE
