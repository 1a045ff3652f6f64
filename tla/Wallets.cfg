SPECIFICATION Spec
CONSTANTS
    Users = {u1, u2}
    Addresses = {a1, a2}
    Requests = {r1, r2, r3}
    MaxNonces = 2
    None = None
SYMMETRY Symmetry
INVARIANTS TypeOK NonceIsUsedOnce
PROPERTY ImplementsRegistry
