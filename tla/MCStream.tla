------------------------------- MODULE MCStream -------------------------------
(* ExecStream with three frames, the middle one without a payload, for TLC.   *)
EXTENDS ExecStream, TLC

\* Header 2: payloads of one byte, none, and two.
FrameEnds == 0 :> 0 @@ 1 :> 3 @@ 2 :> 5 @@ 3 :> 9
===============================================================================
