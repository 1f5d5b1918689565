------------------------------ MODULE MCVirtres ------------------------------
(* Instances of Virtres for TLC: the process that relocates the job, and    *)
(* where a cancel may start one, a second process that only destroys.       *)
EXTENDS Virtres

=============================================================================
