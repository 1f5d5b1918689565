------------------------------- MODULE Fence -------------------------------
(***************************************************************************)
(* The collecting fences the ranks of parallel tasks may rely on: a fence  *)
(* returns the data of all ranks of the task, taken from the same call of  *)
(* each, or an error.  Nothing of how swm-pmix and wm_pmix gather the data *)
(* is seen.                                                                *)
(***************************************************************************)
EXTENDS Naturals

CONSTANTS
    Tasks,      \* the tasks of a job
    Ranks,      \* the ranks of each task
    MaxFences   \* bound: fences each rank calls

VARIABLES
    entered,    \* number of fences each rank of a task has called
    answer      \* what each call of each rank has returned

vars == <<entered, answer>>

Init ==
    /\ entered = [t \in Tasks |-> [r \in Ranks |-> 0]]
    /\ answer = [t \in Tasks |-> [r \in Ranks |-> [k \in 1..MaxFences |-> "none"]]]

(* A rank waits for one fence before it calls the next.                    *)
Enter(t, r) ==
    /\ entered[t][r] < MaxFences
    /\ \A k \in 1..entered[t][r] : answer[t][r][k] # "none"
    /\ entered' = [entered EXCEPT ![t][r] = @ + 1]
    /\ UNCHANGED answer

Open(t, r, k) == k <= entered[t][r] /\ answer[t][r][k] = "none"

(* All the data, once every rank has called this fence.                    *)
Gather(t, r) ==
    /\ \E k \in 1..MaxFences :
        /\ Open(t, r, k)
        /\ \A s \in Ranks : entered[t][s] >= k
        /\ answer' = [answer EXCEPT ![t][r][k] = "data"]
    /\ UNCHANGED entered

Fail(t, r) ==
    /\ \E k \in 1..MaxFences :
        /\ Open(t, r, k)
        /\ answer' = [answer EXCEPT ![t][r][k] = "error"]
    /\ UNCHANGED entered

Next == \E t \in Tasks, r \in Ranks : Enter(t, r) \/ Gather(t, r) \/ Fail(t, r)

Spec == Init /\ [][Next]_vars
=============================================================================
