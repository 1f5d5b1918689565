------------------------------ MODULE MCJobs ------------------------------
(* Instances of Jobs for TLC: two jobs on the head node, which may run jobs *)
(* itself, and one more node.                                               *)
EXTENDS Jobs

=============================================================================
