\* Nobody calls Front: no call is forgotten.
CONSTANTS
    Pushers = {p1, p2}
    Poppers = {c1, c2}
    Peekers = {}
    Items = {x}
    Null = Null
    MaxSize = 2
SPECIFICATION FairSpec
PROPERTY AbstractFairSpec
