\* Two Front callers and the smallest bound that NoMutualWait allows for them.
CONSTANTS
    Pushers = {p1, p2}
    Poppers = {c1, c2}
    Peekers = {k1, k2}
    Items = {x}
    Null = Null
    MaxSize = 3
SPECIFICATION Spec
SYMMETRY Symmetry
INVARIANTS TypeOK NoLostRoom NoLostItem NoMutualWait
PROPERTY AbstractSpec
