------------------------------- MODULE Jobs -------------------------------
(***************************************************************************)
(* Jobs on the nodes of a cluster, from submission to their end: wm_user,  *)
(* wm_scheduler and wm_compute of the cluster's head node, wm_compute and  *)
(* wm_proc of the nodes that run the jobs, and the external scheduler      *)
(* swm-sched, which answers a snapshot of the queue with a timetable.      *)
(*                                                                         *)
(* job and alloc are the job and node records of the head node.  A launch  *)
(* is one start of a job: the commit that brings the record to the main    *)
(* node, the wm_proc created there and what it reports.  A main node that  *)
(* is the head itself starts wm_proc at once and reports to itself.        *)
(*                                                                         *)
(* Abstractions.  The mailboxes of wm_scheduler and wm_compute are sets of *)
(* pending messages, except that a process on the head is heard in order.  *)
(* The commit is one step that ends in wm_commit_done or wm_commit_failed  *)
(* (module Commit has its protocol), and a running container one step that *)
(* ends it.  A compute node's copy of the records is left out: only its    *)
(* parent schedules.  A cancel tells every local process of the job, also  *)
(* one wm_compute has forgotten with the end of another.  Left out: jobs   *)
(* for template nodes (module Virtres), purge, the pinger's view of the    *)
(* nodes, and jobs forwarded from a grid.                                  *)
(***************************************************************************)
EXTENDS Naturals, Sequences, FiniteSets

CONSTANTS
    JobIds, Nodes,
    Manager,      \* the head node, that schedules; runs jobs when in Nodes
    Prompt,       \* swm-sched and wm_compute are done before the next pass
    Ordered,      \* the events of a process reach the parent in their order
    LaterRows,    \* timetables may have rows with a start time in the future
    RequeueFrom,  \* states in which users requeue; requeue_jobs takes any
    MaxStarts,    \* bound: launches of a job
    MaxPending,   \* bound: snapshots, timers and start events at a time
    MaxRequeues,  \* bound: requeues by users
    MaxFaults     \* bound: failed commits, lost events and dead processes

ASSUME BoundsAssumption ==
    /\ MaxStarts \in Nat /\ MaxPending \in Nat
    /\ MaxRequeues \in Nat /\ MaxFaults \in Nat
    /\ {Prompt, Ordered, LaterRows} \subseteq BOOLEAN

VARIABLES
    job,       \* #job: state and allocated nodes
    alloc,     \* state_alloc of each #node
    asked,     \* snapshots swm-sched has not answered, oldest first
    timetable, \* the timetable table
    times,     \* start_times of wm_scheduler: "now" (0), "later", without repeats
    timers,    \* job_start_time timers that run
    starts,    \* job_start_time events wm_compute has not handled
    made,      \* how many launches each job has had
    launch,    \* the launches of each job, by number
    events,    \* events of wm_proc on their way to wm_compute of the head
    canceled,  \* job_canceled events wm_compute has not handled
    requeues, faults \* what has been spent of the two bounds

records == <<job, alloc>>
plan == <<asked, timetable, times, timers>>
work == <<made, launch>>
bounds == <<requeues, faults>>
vars == <<records, plan, starts, work, events, canceled, bounds>>

-----------------------------------------------------------------------------
Ended == {"F", "E", "C"}
JobState == {"none", "Q", "W", "R"} \cup Ended
Numbers == 1..MaxStarts

(* Of a launch: its record travels, then its job_arrived, then it is a     *)
(* wm_proc; "reported" while its end has not been handled by the head.     *)
Coming == {"transfer", "arriving"}
Process == {"sleeping", "running"}
Broken == {"failed", "dead", "lost"}
LaunchState == {"unused", "reported", "done"} \cup Coming \cup Process \cup Broken

Unused == [st |-> "unused", nodes |-> {}, main |-> Manager, told |-> FALSE]
Snapshot == [jobs : SUBSET JobIds, idle : SUBSET Nodes]
Row == [job : JobIds, nodes : SUBSET Nodes, main : Nodes, now : BOOLEAN]
Started(j, k) == [type |-> "proc_started", job |-> j, num |-> k, state |-> "R"]
Finished(j, k, s) == [type |-> "finished", job |-> j, num |-> k, state |-> s]

Launches == JobIds \X Numbers
Launch(l) == launch[l[1]][l[2]]
Local(l) == Launch(l).main = Manager
Occupies(l) == Launch(l).st \in Coming \cup Process

SetLaunch(l, s) == launch' = [launch EXCEPT ![l[1]][l[2]].st = s]
SetState(j, s) == job' = [job EXCEPT ![j].state = s]

Init ==
    /\ job = [j \in JobIds |-> [state |-> "none", nodes |-> {}]]
    /\ alloc = [n \in Nodes |-> "idle"]
    /\ asked = <<>>
    /\ timetable = {}
    /\ times = {}
    /\ timers = 0
    /\ starts = 0
    /\ made = [j \in JobIds |-> 0]
    /\ launch = [j \in JobIds |-> [k \in Numbers |-> Unused]]
    /\ events = {}
    /\ canceled = {}
    /\ requeues = 0
    /\ faults = 0

-----------------------------------------------------------------------------
(* wm_user.                                                                *)
Submit(j) ==
    /\ job[j].state = "none"
    /\ SetState(j, "Q")
    /\ UNCHANGED <<alloc, plan, starts, work, events, canceled, bounds>>

(* requeue_jobs sets QUEUED whatever the job does.                         *)
Requeue(j) ==
    /\ requeues < MaxRequeues
    /\ job[j].state \in RequeueFrom
    /\ requeues' = requeues + 1
    /\ SetState(j, "Q")
    /\ UNCHANGED <<alloc, plan, starts, work, events, canceled, faults>>

(* cancel_jobs, without a checkpoint, sets CANCELED whatever the job does. *)
Cancel(j) ==
    /\ job[j].state \notin {"none", "C"}
    /\ SetState(j, "C")
    /\ canceled' = canceled \cup {j}
    /\ UNCHANGED <<alloc, plan, starts, work, events, bounds>>

-----------------------------------------------------------------------------
(* wm_scheduler.  A pass, by timer or forced, sends the queue and the      *)
(* nodes to swm-sched, and does not wait for the answers of earlier ones.  *)
Settled == asked = <<>> /\ timers = 0 /\ starts = 0

Schedule ==
    /\ Len(asked) < MaxPending
    /\ Prompt => Settled
    /\ asked' = Append(asked, [jobs |-> {j \in JobIds : job[j].state = "Q"},
                               idle |-> {n \in Nodes : alloc[n] = "idle"}])
    /\ UNCHANGED <<records, timetable, times, timers, starts, work, events,
                   canceled, bounds>>

(* What swm-sched may answer: idle nodes for jobs to start now, without    *)
(* sharing one, and at least one of them when there are jobs and nodes.    *)
Timetables(snapshot) ==
    LET rows == {r \in Row : /\ r.job \in snapshot.jobs
                             /\ r.main \in r.nodes
                             /\ IF r.now THEN r.nodes \subseteq snapshot.idle ELSE LaterRows}
    IN  {tt \in SUBSET rows :
           /\ \A r, q \in tt : r # q => r.job # q.job
           /\ \A r, q \in tt : r # q /\ r.now /\ q.now => r.nodes \cap q.nodes = {}
           /\ snapshot.jobs # {} /\ snapshot.idle # {} => \E r \in tt : r.now}

NewTimetableMarksAll ==    \* mutant: every job of the snapshot is WAITING
    /\ asked # <<>>
    /\ timers < MaxPending
    /\ asked' = Tail(asked)
    /\ \E tt \in Timetables(Head(asked)) :
         /\ timetable' = tt
         /\ job' = [j \in JobIds |->
                      IF tt # {} /\ j \in Head(asked).jobs
                      THEN [job[j] EXCEPT !.state = "W"] ELSE job[j]]
         /\ IF tt = {}
            THEN UNCHANGED <<times, timers>>
            ELSE /\ times' = {IF r.now THEN "now" ELSE "later" : r \in tt}
                 /\ timers' = timers + 1
    /\ UNCHANGED <<alloc, starts, work, events, canceled, bounds>>

(* handle_new_timetable: the rows replace the table's, their jobs become   *)
(* WAITING whatever they are, and a timer is set for the first start time. *)
NewTimetable ==
    /\ asked # <<>>
    /\ timers < MaxPending
    /\ asked' = Tail(asked)
    /\ \E tt \in Timetables(Head(asked)) :
         /\ timetable' = tt
         /\ job' = [j \in JobIds |->
                      IF \E r \in tt : r.job = j /\ r.now
                      THEN [job[j] EXCEPT !.state = "W"] ELSE job[j]]
         /\ IF tt = {}
            THEN UNCHANGED <<times, timers>>
            ELSE /\ times' = {IF r.now THEN "now" ELSE "later" : r \in tt}
                 /\ timers' = timers + 1
    /\ UNCHANGED <<alloc, starts, work, events, canceled, bounds>>

StartTimeKeeps ==    \* mutant: the start time is not dropped
    /\ timers > 0
    /\ starts < MaxPending
    /\ starts' = starts + 1
    /\ UNCHANGED <<records, plan, work, events, canceled, bounds>>

(* handle_info(job_start_time): the earliest start time is dropped, and a  *)
(* timer set for the next; the event asks for the rows of time 0 again.    *)
StartTime ==
    /\ timers > 0
    /\ starts < MaxPending
    /\ LET left == times \ (IF "now" \in times THEN {"now"} ELSE {"later"}) IN
       /\ times' = left
       /\ timers' = IF left = {} THEN timers - 1 ELSE timers
    /\ starts' = starts + 1
    /\ UNCHANGED <<records, asked, timetable, work, events, canceled, bounds>>

-----------------------------------------------------------------------------
StartJobsMainOnly ==    \* mutant: only the main node becomes busy
    /\ starts > 0
    /\ LET now == {r \in timetable : r.now}
           rowOf(j) == CHOOSE r \in now : r.job = j
           jobs == {r.job : r \in now}
       IN  /\ \A j \in jobs : made[j] < MaxStarts
           /\ job' = [j \in JobIds |-> IF j \in jobs
                        THEN [job[j] EXCEPT !.nodes = rowOf(j).nodes] ELSE job[j]]
           /\ alloc' = [n \in Nodes |-> IF \E r \in now : n = r.main
                                        THEN "busy" ELSE alloc[n]]
           /\ made' = [j \in JobIds |-> IF j \in jobs THEN made[j] + 1 ELSE made[j]]
           /\ launch' = [j \in JobIds |-> [k \in Numbers |->
                IF j \in jobs /\ k = made'[j]
                THEN [st |-> IF rowOf(j).main = Manager THEN "sleeping" ELSE "transfer",
                      nodes |-> rowOf(j).nodes, main |-> rowOf(j).main, told |-> FALSE]
                ELSE launch[j][k]]]
    /\ starts' = starts - 1
    /\ UNCHANGED <<plan, events, canceled, bounds>>

(* wm_compute of the head.  Every row of time 0 is started, and stays in   *)
(* the table: locally when its main node is the head, otherwise by a       *)
(* commit of the job record to the main node.                              *)
StartJobs ==
    /\ starts > 0
    /\ LET now == {r \in timetable : r.now}
           rowOf(j) == CHOOSE r \in now : r.job = j
           jobs == {r.job : r \in now}
       IN  /\ \A j \in jobs : made[j] < MaxStarts
           /\ job' = [j \in JobIds |-> IF j \in jobs
                        THEN [job[j] EXCEPT !.nodes = rowOf(j).nodes] ELSE job[j]]
           /\ alloc' = [n \in Nodes |-> IF \E r \in now : n \in r.nodes
                                        THEN "busy" ELSE alloc[n]]
           /\ made' = [j \in JobIds |-> IF j \in jobs THEN made[j] + 1 ELSE made[j]]
           /\ launch' = [j \in JobIds |-> [k \in Numbers |->
                IF j \in jobs /\ k = made'[j]
                THEN [st |-> IF rowOf(j).main = Manager THEN "sleeping" ELSE "transfer",
                      nodes |-> rowOf(j).nodes, main |-> rowOf(j).main, told |-> FALSE]
                ELSE launch[j][k]]]
    /\ starts' = starts - 1
    /\ UNCHANGED <<plan, events, canceled, bounds>>

CommitDoneFrees(l) ==    \* mutant: the nodes are freed with the transfer
    /\ Launch(l).st = "transfer"
    /\ SetLaunch(l, "arriving")
    /\ alloc' = [n \in Nodes |-> IF n \in Launch(l).nodes THEN "idle" ELSE alloc[n]]
    /\ UNCHANGED <<job, plan, starts, made, events, canceled, bounds>>

(* wm_commit_done: job_arrived is sent, whether or not it can be sent.     *)
CommitDone(l) ==
    /\ Launch(l).st = "transfer"
    /\ SetLaunch(l, "arriving")
    /\ UNCHANGED <<records, plan, starts, made, events, canceled, bounds>>

(* wm_commit_failed, or a lost job_arrived: nobody looks at the job again. *)
CommitFailed(l) ==
    /\ Launch(l).st \in Coming
    /\ faults < MaxFaults
    /\ faults' = faults + 1
    /\ SetLaunch(l, "failed")
    /\ UNCHANGED <<records, plan, starts, made, events, canceled, requeues>>

(* job_arrived, on the main node: start_job_processes.                     *)
JobArrived(l) ==
    /\ Launch(l).st = "arriving"
    /\ SetLaunch(l, "sleeping")
    /\ UNCHANGED <<records, plan, starts, made, events, canceled, bounds>>

(* An event of wm_proc or of its node's wm_compute reaches the head.  It   *)
(* is sent by a process of its own, so only with Ordered in its turn.      *)
InTurn(e) ==
    (Ordered \/ Local(<<e.job, e.num>>)) => Started(e.job, e.num) \notin events

(* proc_started sets RUNNING whatever the job is.                          *)
ProcStarted(e) ==
    /\ e \in events
    /\ e.type = "proc_started"
    /\ events' = events \ {e}
    /\ SetState(e.job, "R")
    /\ UNCHANGED <<alloc, plan, starts, work, canceled, bounds>>

JobFinishedTag(e) ==    \* mutant: the tag of the event is stored
    /\ e \in events
    /\ e.type = "finished"
    /\ InTurn(e)
    /\ events' = events \ {e}
    /\ SetState(e.job, e.type)
    /\ SetLaunch(<<e.job, e.num>>, "done")
    /\ IF Local(<<e.job, e.num>>)
       THEN UNCHANGED alloc
       ELSE alloc' = [n \in Nodes |-> IF n \in job[e.job].nodes THEN "idle" ELSE alloc[n]]
    /\ UNCHANGED <<plan, starts, made, canceled, bounds>>

JobFinishedKeepsNodes(e) ==    \* mutant: the nodes stay busy
    /\ e \in events
    /\ e.type = "finished"
    /\ InTurn(e)
    /\ events' = events \ {e}
    /\ SetState(e.job, e.state)
    /\ SetLaunch(<<e.job, e.num>>, "done")
    /\ UNCHANGED <<alloc, plan, starts, made, canceled, bounds>>

(* wm_proc_done of a local process, job_finished of another: the latter    *)
(* frees the nodes the job's record has now, the former frees none.        *)
JobFinished(e) ==
    /\ e \in events
    /\ e.type = "finished"
    /\ InTurn(e)
    /\ events' = events \ {e}
    /\ SetState(e.job, e.state)
    /\ SetLaunch(<<e.job, e.num>>, "done")
    /\ IF Local(<<e.job, e.num>>)
       THEN UNCHANGED alloc
       ELSE alloc' = [n \in Nodes |-> IF n \in job[e.job].nodes THEN "idle" ELSE alloc[n]]
    /\ UNCHANGED <<plan, starts, made, canceled, bounds>>

(* event_to_parent gets lost: nobody sends it again.                       *)
EventLost(e) ==
    /\ e \in events
    /\ ~Local(<<e.job, e.num>>)
    /\ faults < MaxFaults
    /\ faults' = faults + 1
    /\ events' = events \ {e}
    /\ IF e.type = "finished" THEN SetLaunch(<<e.job, e.num>>, "lost")
                              ELSE UNCHANGED launch
    /\ UNCHANGED <<records, plan, starts, made, canceled, requeues>>

(* job_canceled: the nodes are freed, and the job's processes told if they *)
(* are processes of the head; no other node hears of it.                   *)
JobCanceled(j) ==
    /\ j \in canceled
    /\ canceled' = canceled \ {j}
    /\ SetState(j, "C")
    /\ alloc' = [n \in Nodes |-> IF n \in job[j].nodes THEN "idle" ELSE alloc[n]]
    /\ launch' = [launch EXCEPT ![j] = [k \in Numbers |->
                    IF Local(<<j, k>>) /\ launch[j][k].st \in Process
                    THEN [launch[j][k] EXCEPT !.told = TRUE] ELSE launch[j][k]]]
    /\ UNCHANGED <<plan, starts, made, events, bounds>>

-----------------------------------------------------------------------------
(* wm_proc.  activate executes the job; the container announces its start. *)
Execute(l) ==
    /\ Launch(l).st = "sleeping"
    /\ SetLaunch(l, "running")
    /\ events' = events \cup {Started(l[1], l[2])}
    /\ UNCHANGED <<records, plan, starts, made, canceled, bounds>>

(* do_complete, or fail_job when execute fails: on the head the records    *)
(* are the ones that schedule, and only the node itself is freed.          *)
Complete(l, s) ==
    /\ SetLaunch(l, "reported")
    /\ events' = events \cup {Finished(l[1], l[2], s)}
    /\ IF Local(l)
       THEN /\ SetState(l[1], s)
            /\ alloc' = [n \in Nodes |-> IF n = Manager THEN "idle" ELSE alloc[n]]
       ELSE UNCHANGED records
    /\ UNCHANGED <<plan, starts, made, canceled, bounds>>

ExecuteFails(l) == Launch(l).st = "sleeping" /\ Complete(l, "E")
ProcessFinishes(l) == Launch(l).st = "running" /\ Complete(l, "F")
ToldFinished(l) ==
    /\ Launch(l).st \in Process
    /\ Launch(l).told
    /\ Complete(l, "C")

(* wm_proc crashes (on an ERROR of porter, clearing its container) or its  *)
(* node goes down.  A restarted wm_proc is never activated.                *)
ProcessDies(l) ==
    /\ Launch(l).st \in Process
    /\ faults < MaxFaults
    /\ faults' = faults + 1
    /\ SetLaunch(l, "dead")
    /\ UNCHANGED <<records, plan, starts, made, events, canceled, requeues>>

-----------------------------------------------------------------------------
User == \E j \in JobIds : Submit(j) \/ Requeue(j)
Planning == Schedule \/ NewTimetable \/ StartTime
Compute(l) == CommitDone(l) \/ JobArrived(l) \/ Execute(l)
                  \/ ExecuteFails(l) \/ ProcessFinishes(l)
Report == \E e \in events : ProcStarted(e) \/ JobFinished(e)
Fault == (\E l \in Launches : CommitFailed(l) \/ ProcessDies(l))
             \/ (\E e \in events : EventLost(e))

Next == User \/ Planning \/ StartJobs \/ (\E l \in Launches : Compute(l))
            \/ Report \/ Fault

Spec == Init /\ [][Next]_vars

(* Timers fire, mailboxes are emptied, swm-sched answers, processes run    *)
(* and end, and what is sent and not lost arrives.                         *)
FairSpec ==
    /\ Spec
    /\ WF_vars(Schedule) /\ WF_vars(NewTimetable) /\ WF_vars(StartTime)
    /\ WF_vars(StartJobs) /\ WF_vars(Report)
    /\ \A l \in Launches : WF_vars(Compute(l))

(* With users that cancel.                                                 *)
Cancellation == \/ \E j \in JobIds : Cancel(j) \/ JobCanceled(j)
                \/ \E l \in Launches : ToldFinished(l)
CancelSpec == Init /\ [][Next \/ Cancellation]_vars

-----------------------------------------------------------------------------
TypeOK ==
    /\ job \in [JobIds -> [state : JobState, nodes : SUBSET Nodes]]
    /\ alloc \in [Nodes -> {"idle", "busy"}]
    /\ asked \in Seq(Snapshot)
    /\ timetable \subseteq Row
    /\ times \subseteq {"now", "later"}
    /\ timers \in Nat /\ starts \in Nat /\ requeues \in Nat /\ faults \in Nat
    /\ made \in [JobIds -> 0..MaxStarts]
    /\ launch \in [JobIds -> [Numbers -> [st : LaunchState, nodes : SUBSET Nodes,
                                          main : Nodes \cup {Manager}, told : BOOLEAN]]]
    /\ events \subseteq [type : {"proc_started", "finished"}, job : JobIds,
                         num : Numbers, state : JobState]
    /\ canceled \subseteq JobIds

(* A job is started on a node only after the node's last job has left it:  *)
(* the passes of wm_scheduler, the starts of wm_compute and the reports    *)
(* that free the nodes agree on who has which node.                        *)
NodeExclusive ==
    \A l, m \in Launches :
        Occupies(l) /\ Occupies(m) /\ l # m => Launch(l).nodes \cap Launch(m).nodes = {}

(* A node that the head offers to swm-sched as idle has no process of a    *)
(* job on it and none on the way to it.                                    *)
IdleMeansFree ==
    \A l \in Launches : Occupies(l) => \A n \in Launch(l).nodes : alloc[n] = "busy"

(* A WAITING job, which no later pass looks at, has its row and the event  *)
(* that starts it still ahead, or a launch whose end is not handled.       *)
WaitingIsPlanned ==
    \A j \in JobIds : job[j].state = "W" =>
        \/ timers + starts > 0 /\ \E r \in timetable : r.job = j /\ r.now
        \/ \E k \in Numbers : launch[j][k].st \notin {"unused", "done"}

(* "Primary job script runs as one wm_proc on main", says a comment of     *)
(* start_job_processes in wm_compute: a job is not started while an        *)
(* earlier start of it has not come to its end.                            *)
OneProcess ==
    \A l, m \in Launches : l # m /\ l[1] = m[1] => ~(Occupies(l) /\ Occupies(m))

(* HOWTO/CONTAINERS.md: "On finish, cancel, or error: stop and delete the  *)
(* container; free the node allocation."  The nodes of a job whose end is  *)
(* handled are not free while one of its containers still runs.            *)
EndMeansStopped ==
    \A l \in Launches :
        /\ job[l[1]].state \in Ended
        /\ l[1] \notin canceled
        /\ ~Launch(l).told
        /\ \A n \in Launch(l).nodes : alloc[n] = "idle"
        => Launch(l).st # "running"

(* Every job that was submitted ends for good, unless a fault has left a   *)
(* launch that nobody will ever report the end of.                         *)
JobsEnd ==
    <>[](\/ \E l \in Launches : Launch(l).st \in Broken
         \/ \A j \in JobIds : job[j].state \in Ended \cup {"none"})
=============================================================================
