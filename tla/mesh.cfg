CONSTANTS
    Id = {d1}
    Sub <- AllSubs
    TopicsOf <- Topics
    IdentityOf <- Identities
    Depths = {1, 2}
    MaxHop = 1
    NoId = NoId
    NoRow = NoRow
    Relay = {"relay"}
    VaultAgent <- Filtration
    MeshDepth = 1
    Rest <- RestHere

SPECIFICATION Spec
INVARIANTS
    TypeOK
    AbsorbedIsAssessed
PROPERTIES
    FollowOnIsStored
    NoOvertaking
    PublishReturns
