------------------------------- MODULE MCPmix -------------------------------
(* Instances of Pmix for TLC.                                               *)
EXTENDS Pmix

=============================================================================
