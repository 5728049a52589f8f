------------------------------ MODULE MCServer ------------------------------
(***************************************************************************)
(* Instances of Server for TLC.                                            *)
(***************************************************************************)
EXTENDS Server, TLC

CONSTANTS A, B, C

\* One connection that sends two requests and one that sends one.
TwoAndOne == (A :> 2) @@ (B :> 1)
TwoOneNone == (A :> 2) @@ (B :> 1) @@ (C :> 0)

=============================================================================
