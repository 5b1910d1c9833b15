CONSTANTS
    Networks = {bridge, other}
    Servers = {srv1, srv2}
    Nobody = Nobody
    Runs = {r1, r2, r3}
    NoRun = NoRun
    Allow = {"lateStart"}
    MaxCrashes = 1
SPECIFICATION Spec
CHECK_DEADLOCK FALSE
INVARIANT
    KilledIsDead
