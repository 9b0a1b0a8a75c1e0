--------------------------- MODULE IndexConstants ---------------------------
(* What the vector index modules are parameterised by. *)
EXTENDS Naturals, FiniteSets

CONSTANTS
    Id,        \* droplet ids
    Vec,       \* embeddings
    NoVec,     \* an id the index does not have
    Unsafe,    \* contents nothing is promised of
    Room,      \* the capacity of a new hnswlib index (1024 in the code)
    MaxAdds    \* bound on the vectors one index takes

ASSUME IdFinite    == IsFiniteSet(Id)
ASSUME NoVecIsNone == NoVec \notin Vec
ASSUME UnsafeIsNoMap == Unsafe \notin [Id -> Vec \cup {NoVec}]
ASSUME BoundsAreNat == Room \in Nat \ {0} /\ MaxAdds \in Nat
=============================================================================
