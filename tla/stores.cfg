CONSTANTS
    Id = {a, b}
    NoRow = NoRow
    NoVec = NoVec
    Engine = {e1}
    Dim = {256, 384}
    Val = {1, 2}
    NoTx = NoTx
    Conn = {c1, c2}
    PgVec = {1}
    MaxCount = 1
    Same = Same
    Raced = Raced

SPECIFICATION StoreSpec
SYMMETRY ConnSymmetry
INVARIANTS
    StoreTypeOK
    ShapesAgree
    StaleOnlyWhereLost
    ReopenRecovers
    OnlyRacesLose
