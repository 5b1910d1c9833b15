------------------------------ MODULE SlotBound ------------------------------
(***************************************************************************)
(* What slots.engine_slot promises the engine: however many callers ask,   *)
(* in however many processes, at most Bound of them are doing heavy work.  *)
(***************************************************************************)
EXTENDS Naturals, FiniteSets

CONSTANTS Callers, Bound

VARIABLE inside   \* callers whose guarded block is running

Init == inside = {}

Enter(c) ==
    /\ c \in Callers \ inside
    /\ Cardinality(inside) < Bound
    /\ inside' = inside \cup {c}

\* Blocks end one at a time, or several together when their process dies.
Exit(leaving) ==
    /\ leaving \subseteq inside
    /\ inside' = inside \ leaving

Next == (\E c \in Callers : Enter(c)) \/ (\E leaving \in SUBSET inside : Exit(leaving))

BoundSpec == Init /\ [][Next]_inside
==============================================================================
