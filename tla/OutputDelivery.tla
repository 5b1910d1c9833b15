---------------------------- MODULE OutputDelivery ----------------------------
(* What run_exec promises the caller of one command, with no connection,      *)
(* frames or polls: pieces of output come in the order they were written,     *)
(* each once; then comes one result, after which nothing comes.  A result     *)
(* that is an exit code is one of a command that has ended, and all of its    *)
(* output has come, unless something happened that excuses a loss.            *)
(* ExecStream is the detailed specification that implements this one.         *)
EXTENDS Naturals

CONSTANT Pieces     \* how many pieces of output the command may write

VARIABLES
    written,    \* pieces the command has written
    command,    \* "running" or "ended"
    given,      \* pieces the caller has been given
    result,     \* "pending", "code" or "error"
    excused     \* something may have kept output from the caller

deliveryVars == <<written, command, given, result, excused>>

DeliveryInit ==
    /\ written = 0 /\ command = "running"
    /\ given = 0 /\ result = "pending"
    /\ excused = FALSE

Write ==
    /\ command = "running" /\ written < Pieces
    /\ written' = written + 1
    /\ UNCHANGED <<command, given, result, excused>>

Finish ==
    /\ command = "running"
    /\ command' = "ended"
    /\ UNCHANGED <<written, given, result, excused>>

Give ==
    /\ result = "pending" /\ given < written
    /\ given' = given + 1
    /\ UNCHANGED <<written, command, result, excused>>

ExitCode ==
    /\ result = "pending"
    /\ command = "ended"
    /\ excused \/ given = written
    /\ result' = "code"
    /\ UNCHANGED <<written, command, given, excused>>

Error ==
    /\ result = "pending"
    /\ result' = "error"
    /\ UNCHANGED <<written, command, given, excused>>

Excuse ==
    /\ excused' = TRUE
    /\ UNCHANGED <<written, command, given, result>>

DeliveryNext == Write \/ Finish \/ Give \/ ExitCode \/ Error \/ Excuse

DeliverySpec == DeliveryInit /\ [][DeliveryNext]_deliveryVars
===============================================================================
