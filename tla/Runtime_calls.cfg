CONSTANTS
    Networks = {bridge, other}
    Servers = {srv1, srv2}
    Nobody = Nobody
    Runs = {r1, r2, r3}
    NoRun = NoRun
    Allow = {"libraries", "lateStart", "blindCheck", "strays", "falseDetach"}
    MaxCrashes = 1
SPECIFICATION FairSpec
CHECK_DEADLOCK FALSE
INVARIANTS
    TypeOK
    SealedOutsideInstall
    ResealProven
    KilledIsGone
    MarkedIsProven
PROPERTIES
    CallsEnd
