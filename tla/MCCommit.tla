------------------------------ MODULE MCCommit ------------------------------
(* Instances of Commit for TLC: a coordinator and one or two participants. *)
EXTENDS Commit

=============================================================================
