CONSTANTS
    c1 = c1  c2 = c2  c3 = c3
    srv1 = srv1  srv2 = srv2
    Free = Free
    Slots = {s1, s2}
    Callers = {c1, c2, c3}
    Processes = {srv1, srv2}
    Home <- Shared
    MaxCrashes = 1
SPECIFICATION Spec
INVARIANTS
    HeldForTheBlock
