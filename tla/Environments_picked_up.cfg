CONSTANTS
    Names = {n1, n2}
    Built = {n1}
    ByHand = {n2}
    Callers = {c1, c2}
    Nobody = Nobody
    Settle = 1
    MaxClock = 3
SPECIFICATION Spec
SYMMETRY Interchangeable
INVARIANT
    BuiltIsListed
