SPECIFICATION Spec
CONSTANTS
    Bodies = {b1, b2}
    Handles = {h1, h2}
    Producers = {p1}
    NoTx = NoTx
    MaxRots = 1
SYMMETRY ActorSymmetry
INVARIANTS
    TypeOK
    PinnedPresent
PROPERTIES
    SweepsOnlyGarbage
