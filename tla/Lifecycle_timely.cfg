CONSTANTS
    i1 = i1  i2 = i2  p1 = p1  p2 = p2  g1 = g1
    srv1 = srv1  srv2 = srv2  srv3 = srv3
    NoId = NoId
    Free = Free
    Ids = {i1, i2}
    Callers = {p1, p2}
    Collectors = {g1}
    Processes = {srv1, srv2, srv3}
    Home <- Apart
    Grace = 2
    CreatingTtl = 5
    DefaultTtl = 1
    TimelyCreates = TRUE
    TimelySweeps = TRUE
    MaxCrashes = 1
SPECIFICATION Spec
SYMMETRY Symmetry
INVARIANTS
    TypeOK
    ReadyIsComplete
    SweepSparesRegistered
    ReservationOutlivesCreate
