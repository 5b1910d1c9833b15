---------------------------- MODULE MCEnvironments ----------------------------
(* Environments with interchangeable threads, for TLC.                        *)
EXTENDS Environments, TLC

Interchangeable == Permutations(Callers)
===============================================================================
