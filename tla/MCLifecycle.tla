----------------------------- MODULE MCLifecycle -----------------------------
(* SandboxLifecycle on small sets of threads, for TLC. *)
EXTENDS SandboxLifecycle, TLC

CONSTANTS i1, i2, p1, p2, g1, srv1, srv2, srv3

\* Every thread in a process of its own: two tool-call threads, one collector.
Apart == p1 :> srv1 @@ p2 :> srv2 @@ g1 :> srv3

\* A server with a tool-call thread and its GC thread, which die together, and
\* another process: a second server, or `hyperbox rm`.
Paired == p1 :> srv1 @@ p2 :> srv2 @@ g1 :> srv1

\* Ids are interchangeable, and so are the two callers with their processes.
Mirror(swapped, x) ==
    CASE x = i1 /\ "ids" \in swapped -> i2
      [] x = i2 /\ "ids" \in swapped -> i1
      [] x = p1 /\ "callers" \in swapped -> p2
      [] x = p2 /\ "callers" \in swapped -> p1
      [] x = srv1 /\ "callers" \in swapped -> srv2
      [] x = srv2 /\ "callers" \in swapped -> srv1
      [] OTHER -> x

Symmetry ==
    {[x \in {i1, i2, p1, p2, srv1, srv2} |-> Mirror(swapped, x)] :
        swapped \in SUBSET {"ids", "callers"}}
==============================================================================
