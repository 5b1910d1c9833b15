--------------------------- MODULE SandboxContract ---------------------------
(***************************************************************************)
(* What the registry promises its callers about one sandbox id, with no    *)
(* locks, rows, containers or clocks: an id is reserved once, is published *)
(* once, is used by one caller at a time, and once retired never comes     *)
(* back.  A sandbox somebody is using is never retired.  SandboxLifecycle  *)
(* is the detailed specification that implements this one.                 *)
(***************************************************************************)
CONSTANTS
    Ids,        \* sandbox ids (uuid4().hex[:12], never issued twice)
    Callers     \* threads that work on sandboxes

VARIABLES
    stage,      \* per id: "unborn", "reserved", "ready" or "gone"
    users       \* per id: the callers working inside it

contractVars == <<stage, users>>

Stages == {"unborn", "reserved", "ready", "gone"}

ContractTypeOK ==
    /\ stage \in [Ids -> Stages]
    /\ users \in [Ids -> SUBSET Callers]

ContractInit ==
    /\ stage = [i \in Ids |-> "unborn"]
    /\ users = [i \in Ids |-> {}]

Advance(i, from, to) ==
    /\ stage[i] = from
    /\ stage' = [stage EXCEPT ![i] = to]

Claim(i) ==
    /\ Advance(i, "unborn", "reserved")
    /\ UNCHANGED users

Publish(i) ==
    /\ Advance(i, "reserved", "ready")
    /\ UNCHANGED users

\* A ready sandbox that nobody uses gets its one user.
Begin(i, p) ==
    /\ stage[i] = "ready"
    /\ users[i] = {}
    /\ users' = [users EXCEPT ![i] = {p}]
    /\ UNCHANGED stage

\* Users leave: one at a time when a call returns, several when the process
\* they share dies.
Leave(P) ==
    /\ users' = [i \in Ids |-> users[i] \ P]
    /\ UNCHANGED stage

Retire(i) ==
    /\ users[i] = {}
    /\ Advance(i, "reserved", "gone") \/ Advance(i, "ready", "gone")
    /\ UNCHANGED users

ContractNext ==
    \/ \E i \in Ids : Claim(i) \/ Publish(i) \/ Retire(i)
    \/ \E i \in Ids, p \in Callers : Begin(i, p)
    \/ \E P \in SUBSET Callers : Leave(P)

ContractSpec == ContractInit /\ [][ContractNext]_contractVars
==============================================================================
