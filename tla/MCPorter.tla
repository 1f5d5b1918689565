------------------------------ MODULE MCPorter ------------------------------
(* Instances of Porter for TLC.                                             *)
EXTENDS Porter

=============================================================================
