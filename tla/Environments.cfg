CONSTANTS
    Names = {n1, n2}
    Built = {n1}
    ByHand = {n2}
    Callers = {c1, c2}
    Nobody = Nobody
    Settle = 0
    MaxClock = 3
SPECIFICATION Spec
SYMMETRY Interchangeable
INVARIANTS
    TypeOK
    ListsWhatIsBuilt
    ListedIsTagged
