CONSTANTS
    i1 = i1  i2 = i2  p1 = p1  p2 = p2  g1 = g1
    srv1 = srv1  srv2 = srv2  srv3 = srv3
    NoId = NoId
    Free = Free
    Ids = {i1}
    Callers = {p1, p2}
    Collectors = {g1}
    Processes = {srv1, srv2}
    Home <- Paired
    Grace = 1
    CreatingTtl = 3
    DefaultTtl = 1
    TimelyCreates = FALSE
    TimelySweeps = FALSE
    MaxCrashes = 1
SPECIFICATION FairSpec
INVARIANTS
    UseIsExclusive
    FreshIsSpared
PROPERTIES
    MeetsContract
    CallsReturn
    LocksComeFree
    EverythingReclaimed
