CONSTANTS
    Id = {a, b}
    Vec = {1, 2}
    NoVec = NoVec
    Unsafe = Unsafe
    Room = 1
    MaxAdds = 4
    SearchSize = {1, 2}

SPECIFICATION Spec
INVARIANTS
    TypeOK
    SearchYields
PROPERTIES
    ImplementsContract
