------------------------------ MODULE Virtres ------------------------------
(***************************************************************************)
(* The life of one cloud job on Sky Port: the state machine wm_virtres     *)
(* (src/srv/cloud/wm_virtres.erl) that creates the job's cloud partition,  *)
(* uploads its data, downloads its results and destroys the partition,     *)
(* with everything that talks to it about that job: wm_gate and its child  *)
(* processes, wm_file_transfer, wm_relocator, and what wm_user,            *)
(* wm_scheduler and wm_compute do to the job's record.                     *)
(*                                                                         *)
(* Each wm_virtres process (a task) has its own Erlang mailbox; timers,    *)
(* gate answers and transfer answers join it when they arrive.  A message  *)
(* is taken by the clause of the state's function that matches it          *)
(* (Clause), and is ignored when none does.                                *)
(*                                                                         *)
(* Abstractions.  Every gate request names the job's one partition, by     *)
(* external id or by name.  Two timers of a kind pending at once are one.  *)
(* A gate child acts on the cloud and answers in one step.  A reference is *)
(* the flag "it is the one the process waits for": it goes down when the   *)
(* process overwrites the reference it keeps.  Local jobs,                 *)
(* purge, requeue and halts of the node are left out.  So are clauses that *)
(* nothing in the code can reach: job_canceled and delete_in_progress,     *)
(* which nobody sends, an error answer to partition_exists, which wm_gate  *)
(* turns into 'false', and the exit reason 'timeout', with which no gate   *)
(* child ends.                                                             *)
(***************************************************************************)
EXTENDS Naturals, Sequences, FiniteSets

CONSTANTS
    Tasks,       \* ids wm_factory can give to wm_virtres processes of the job
    First,       \* the task wm_relocator spawned to create the partition
    None,        \* the atom 'undefined', and "no relocation row"
    KeepOptions, \* what #job.keep_resources may be
    OutputOptions, \* whether #job.output_files may be set
    SlotsFull,   \* the row of this job fills max_relocations
    MaxCancels,  \* bound: how often the user cancels the job
    MaxFaults    \* bound: failures of the gate, a transfer or the worker upload

ASSUME TasksAssumption == First \in Tasks /\ None \notin Tasks
ASSUME FlagsAssumption ==
    /\ KeepOptions \cup OutputOptions \cup {SlotsFull} \subseteq BOOLEAN
    /\ MaxCancels \in Nat
    /\ MaxFaults \in Nat

VARIABLES
    vr,        \* #mstate and state name of each task
    mail,      \* mailbox of each task
    timers,    \* timers of each task that have not fired
    requests,  \* requests the gate's children and wm_file_transfer work on
    cloud,     \* the partition in the cloud: "absent", "building" or "up"
    remote,    \* the job on the main cloud node: "idle", "sent", "running", "ended"
    job,       \* #job: its state, whether its nodes are cloud nodes, its options
    row,       \* id of the job's #relocation row, None without one
    ents,      \* the cloud nodes of the job are in the configuration
    inputs,    \* the input files exist on Sky Port
    rq,        \* queue of wm_relocator
    cq,        \* queue of wm_compute
    scheduling,\* the scheduler computes a timetable from a snapshot with the job
    uploaded,  \* history: an upload of the job's data has succeeded
    cancels, faults \* what has been spent of the two bounds

process == <<vr, mail, timers, requests>>
conf == <<job, row, ents>>
queues == <<rq, cq, scheduling>>
world == <<cloud, remote, inputs, uploaded, cancels, faults>>
vars == <<process, conf, queues, world>>

-----------------------------------------------------------------------------
Working == {"sleeping", "validating", "creating", "uploading", "running",
            "downloading", "destroying"}
Dead == {"stopped", "crashed"}
Timer == {"part_fetch", "ssh_check_prov_port", "try_worker_upload",
          "ssh_check_swm_port", "part_check"}
RelocatorEvent == {"activate", "destroy", "cancel_keep", "job_finished"}
SelfCast == {"start_destroying", "ssh_prov_connected", "ssh_swm_connected"}
GateRequest == {"exists", "create", "fetch", "delete"}
Transfer == {"upload", "logs", "outputs"}
GateAnswer == {"partition_absent", "partition_exists", "partition_spawned",
               "partition_building", "partition_up", "partition_deleted",
               "permanent", "transient", "exit"}

(* #mstate has one reference for the gate, one for each direction of       *)
(* transfer; slot is the one an answer is compared with.                   *)
Slot == {"none", "gate", "upload", "download"}
SlotOf(kind) == IF kind \in GateRequest THEN "gate"
                ELSE IF kind = "upload" THEN "upload" ELSE "download"

Message == [kind : Timer \cup RelocatorEvent \cup SelfCast \cup GateAnswer \cup {"ok", "failed"},
            slot : Slot, live : BOOLEAN]
Request == [task : Tasks, kind : GateRequest \cup Transfer, live : BOOLEAN]

Process == [st : Working \cup Dead \cup {"none"}, action : {"create", "destroy"},
            mgr : BOOLEAN, err : BOOLEAN]

Msg(k) == [kind |-> k, slot |-> "none", live |-> TRUE]
Ask(t, k) == [task |-> t, kind |-> k, live |-> TRUE]

Alive(t) == vr[t].st \in Working
Unused == {t \in Tasks : vr[t].st = "none"}

(* A process as wm_virtres:init leaves it.                                 *)
Fresh(a) == [st |-> "sleeping", action |-> a, mgr |-> FALSE, err |-> FALSE]
NotSpawned == [st |-> "none", action |-> "create", mgr |-> FALSE, err |-> FALSE]

Init ==
    /\ vr = [t \in Tasks |-> IF t = First THEN Fresh("create") ELSE NotSpawned]
    /\ mail = [t \in Tasks |-> IF t = First THEN <<Msg("activate")>> ELSE <<>>]
    /\ timers = [t \in Tasks |-> {}]
    /\ requests = {}
    /\ cloud = "absent"
    /\ remote = "idle"
    /\ \E k \in KeepOptions, o \in OutputOptions :
          job = [state |-> "W", remote |-> FALSE, keep |-> k, outputs |-> o]
    /\ row = First
    /\ ents = FALSE
    /\ inputs = TRUE
    /\ rq = <<>>
    /\ cq = <<>>
    /\ scheduling = FALSE
    /\ uploaded = FALSE
    /\ cancels = 0
    /\ faults = 0

-----------------------------------------------------------------------------
(* Which clause of wm_virtres takes message m of a process in state v;     *)
(* "ignore" for the clauses that only log.                                 *)
Clause(v, m) ==
    LET answers(s, st) == m.slot = s /\ m.live /\ v.st = st
    IN  CASE m.kind = "activate" /\ v.st = "sleeping" -> "activate"
          [] m.kind \in {"partition_absent", "partition_exists"}
                /\ answers("gate", "validating") -> m.kind
          [] m.kind \in {"partition_spawned", "partition_building", "partition_up",
                         "permanent", "transient"}
                /\ answers("gate", "creating") -> m.kind
          [] m.kind = "partition_deleted" /\ answers("gate", "destroying") -> m.kind
          [] m.kind \in {"ssh_prov_connected", "ssh_swm_connected"}
                /\ v.st = "creating" -> m.kind
          [] m.kind = "start_destroying" /\ v.st = "destroying" -> m.kind
          [] m.kind = "ok" /\ answers("upload", "uploading") -> "uploaded"
          [] m.kind = "failed" /\ answers("upload", "uploading") -> "upload_failed"
          [] m.kind \in {"ok", "failed"} /\ answers("download", "downloading") -> "downloaded"
          [] m.kind \in {"destroy", "cancel_keep", "job_finished"} -> m.kind
          [] m.kind \in Timer -> m.kind
          [] OTHER -> "ignore"

Takes(t, c) ==
    /\ Alive(t)
    /\ mail[t] # <<>>
    /\ Clause(vr[t], Head(mail[t])) = c

(* The answers to requests of the slots in S no longer match.              *)
Forget(x, slot, S) == IF slot \in S THEN [x EXCEPT !.live = FALSE] ELSE x

(* One call of a state function of task t: its new state, the messages it  *)
(* casts to itself, the timer it sets, its new requests and the            *)
(* references it overwrites.                                               *)
Step(t, new, casts, set, asked, over) ==
    LET dead == new.st \in Dead
        rest == [i \in 1 .. (Len(mail[t]) - 1) |->
                    Forget(mail[t][i + 1], mail[t][i + 1].slot, over)]
    IN  /\ vr' = [vr EXCEPT ![t] = new]
        /\ mail' = [mail EXCEPT ![t] = IF dead THEN <<>> ELSE rest \o casts]
        /\ timers' = [timers EXCEPT ![t] = IF dead THEN {} ELSE @ \cup set]
        /\ requests' = {IF q.task = t THEN Forget(q, SlotOf(q.kind), over) ELSE q :
                            q \in requests} \cup asked

In(t, s) == [vr[t] EXCEPT !.st = s]
Goto(t, s, casts, set) == Step(t, In(t, s), casts, set, {}, {})
Stop(t) == Step(t, In(t, "stopped"), <<>>, {}, {}, {})
Crash(t) == Step(t, In(t, "crashed"), <<>>, {}, {}, {})
AskGate(t, s, k) == Step(t, In(t, s), <<>>, {}, {Ask(t, k)}, {"gate"})

SetState(s) == job' = [job EXCEPT !.state = s]
Elsewhere == UNCHANGED <<queues, world>>
OnlyProcess == UNCHANGED <<conf, queues, world>>

-----------------------------------------------------------------------------
(* sleeping, validating.                                                   *)
ActivateSilently(t) ==      \* mutant: the job is not set to ERROR
    /\ Takes(t, "activate")
    /\ IF inputs
       THEN AskGate(t, "validating", "exists") /\ UNCHANGED conf
       ELSE Step(t, [In(t, "stopped") EXCEPT !.err = TRUE], <<>>, {}, {}, {}) /\ UNCHANGED conf
    /\ Elsewhere

Activate(t) ==
    /\ Takes(t, "activate")
    /\ IF inputs
       THEN AskGate(t, "validating", "exists") /\ UNCHANGED conf
       ELSE /\ Step(t, [In(t, "stopped") EXCEPT !.err = TRUE], <<>>, {}, {}, {})
            /\ SetState("E")
            /\ UNCHANGED <<row, ents>>
    /\ Elsewhere

PartitionAbsent(t) ==
    /\ Takes(t, "partition_absent")
    /\ IF vr[t].action = "create" THEN AskGate(t, "creating", "create") ELSE Stop(t)
    /\ OnlyProcess

PartitionExists(t) ==
    /\ Takes(t, "partition_exists")
    /\ IF vr[t].action = "create"
       THEN Goto(t, "creating", <<>>, {"part_fetch"})
       ELSE AskGate(t, "destroying", "delete")
    /\ OnlyProcess

(* creating.                                                               *)
PartitionSpawned(t) ==
    /\ Takes(t, "partition_spawned")
    /\ Goto(t, "creating", <<>>, {"part_fetch"})
    /\ OnlyProcess

PartitionNotUpOnce(t) ==    \* mutant: no new part_fetch timer
    /\ Takes(t, "partition_building") \/ Takes(t, "transient")
    /\ Goto(t, "creating", <<>>, {})
    /\ OnlyProcess

PartitionNotUp(t) ==
    /\ Takes(t, "partition_building") \/ Takes(t, "transient")
    /\ Goto(t, "creating", <<>>, {"part_fetch"})
    /\ OnlyProcess

(* ensure_entities_created: the job's nodes become cloud nodes.            *)
PartitionUpForgets(t) ==    \* mutant: part_mgr_id is not kept
    /\ Takes(t, "partition_up")
    /\ Step(t, In(t, "creating"), <<>>, {"ssh_check_prov_port"}, {}, {})
    /\ ents' = TRUE
    /\ job' = [job EXCEPT !.remote = TRUE]
    /\ UNCHANGED row
    /\ Elsewhere

PartitionUp(t) ==
    /\ Takes(t, "partition_up")
    /\ Step(t, [In(t, "creating") EXCEPT !.mgr = TRUE], <<>>,
            {"ssh_check_prov_port"}, {}, {})
    /\ ents' = TRUE
    /\ job' = [job EXCEPT !.remote = TRUE]
    /\ UNCHANGED row
    /\ Elsewhere

(* fail_partition_creation, fail_job_and_destroy.                          *)
FailJob(t) ==
    /\ Step(t, [In(t, "destroying") EXCEPT !.err = TRUE],
            <<Msg("start_destroying")>>, {}, {}, {"gate", "upload", "download"})
    /\ SetState("E")
    /\ row' = None
    /\ UNCHANGED ents

PartitionFailed(t) == Takes(t, "permanent") /\ FailJob(t) /\ Elsewhere

(* The worker is uploaded; not_ready asks for another try.                 *)
WorkerUploaded(t) ==
    /\ Takes(t, "ssh_prov_connected")
    /\ ents
    /\ Goto(t, "creating", <<>>, {"ssh_check_swm_port"})
    /\ OnlyProcess

WorkerNotReady(t) ==
    /\ Takes(t, "ssh_prov_connected")
    /\ ents
    /\ Goto(t, "creating", <<>>, {"try_worker_upload"})
    /\ OnlyProcess

(* The worker package is missing, or its transfer fails for good.          *)
WorkerFails(t) ==
    /\ Takes(t, "ssh_prov_connected")
    /\ faults < MaxFaults
    /\ faults' = faults + 1
    /\ Step(t, [In(t, "destroying") EXCEPT !.err = TRUE],
            <<Msg("start_destroying")>>, {}, {}, {"download"})
    /\ SetState("E")
    /\ UNCHANGED <<row, ents, queues, cloud, remote, inputs, uploaded, cancels>>

SwmConnected(t) ==
    /\ Takes(t, "ssh_swm_connected")
    /\ Step(t, In(t, "creating"), <<>>, {"part_check"}, {}, {"gate"})
    /\ OnlyProcess

(* uploading, downloading.                                                 *)
DataUploaded(t) ==
    /\ Takes(t, "uploaded")
    /\ Step(t, In(t, "running"), <<>>, {}, {}, {"upload"})
    /\ SetState("Q")
    /\ UNCHANGED <<row, ents>>
    /\ Elsewhere

UploadFailedRequeues(t) ==  \* mutant: what fail_job_and_destroy warns of
    /\ Takes(t, "upload_failed")
    /\ Goto(t, "running", <<>>, {})
    /\ SetState("Q")
    /\ UNCHANGED <<row, ents>>
    /\ Elsewhere
UploadFailed(t) == Takes(t, "upload_failed") /\ FailJob(t) /\ Elsewhere

(* keep_resources_and_stop.                                                *)
KeepAndStop(t) ==
    /\ Stop(t)
    /\ ents' = FALSE
    /\ UNCHANGED <<job, row>>

(* finish_or_destroy_resources.                                            *)
DataDownloadedDestroys(t) ==  \* mutant: keep_resources is not looked at
    /\ Takes(t, "downloaded")
    /\ Step(t, In(t, "destroying"), <<Msg("start_destroying")>>, {}, {}, {"download"})
    /\ UNCHANGED conf
    /\ Elsewhere

DataDownloaded(t) ==
    /\ Takes(t, "downloaded")
    /\ IF job.keep
       THEN KeepAndStop(t)
       ELSE /\ Step(t, In(t, "destroying"), <<Msg("start_destroying")>>, {}, {}, {"download"})
            /\ UNCHANGED conf
    /\ Elsewhere

(* destroying.                                                             *)
StartDestroying(t) ==
    /\ Takes(t, "start_destroying")
    /\ Step(t, [In(t, "destroying") EXCEPT !.action = "destroy"], <<>>, {},
            {Ask(t, "delete")}, {"gate"})
    /\ ents' = FALSE
    /\ UNCHANGED <<job, row>>
    /\ Elsewhere

PartitionDeleted(t) == Takes(t, "partition_deleted") /\ Stop(t) /\ OnlyProcess

-----------------------------------------------------------------------------
(* handle_event: in every state.                                           *)
Destroy(t) ==
    /\ Takes(t, "destroy")
    /\ IF job.keep
       THEN KeepAndStop(t)
       ELSE /\ Step(t, [In(t, "destroying") EXCEPT !.action = "destroy"], <<>>, {},
                    {Ask(t, "delete")}, {"gate"})
            /\ UNCHANGED conf
    /\ Elsewhere

CancelKeep(t) == Takes(t, "cancel_keep") /\ KeepAndStop(t) /\ Elsewhere

(* start_job_data_downloading: logs first, then output files; only the     *)
(* reference of the last download is kept.                                 *)
Downloads(t) ==
    {[task |-> t, kind |-> "logs", live |-> ~job.outputs]}
        \cup (IF job.outputs THEN {Ask(t, "outputs")} ELSE {})

JobFinishedDestroys(t) ==   \* mutant: does not wait for the download
    /\ Takes(t, "job_finished")
    /\ Step(t, In(t, "destroying"), <<Msg("start_destroying")>>, {},
            IF vr[t].mgr /\ ents THEN Downloads(t) ELSE {}, {"download"})
    /\ OnlyProcess

JobFinished(t) ==
    /\ Takes(t, "job_finished")
    /\ Step(t, In(t, "downloading"), <<>>, {},
            IF vr[t].mgr /\ ents THEN Downloads(t) ELSE {}, {"download"})
    /\ OnlyProcess

(* handle_info: the timers, in every state.  The two ssh checks and the    *)
(* worker upload leave the process in creating, whatever it was doing.     *)
Connected(k) == IF k = "ssh_check_prov_port" THEN "ssh_prov_connected" ELSE "ssh_swm_connected"

SshReady(t) ==
    /\ \E k \in {"ssh_check_prov_port", "ssh_check_swm_port"} :
          Takes(t, k) /\ Goto(t, "creating", <<Msg(Connected(k))>>, {})
    /\ ents
    /\ cloud = "up"
    /\ OnlyProcess

NotReady(t) ==
    /\ \E k \in {"ssh_check_prov_port", "ssh_check_swm_port", "part_check"} :
          /\ Takes(t, k)
          /\ Goto(t, IF k = "part_check" THEN vr[t].st ELSE "creating", <<>>, {k})
    /\ ents
    /\ OnlyProcess

(* {ok, Node} = wm_conf:select(..) fails: wm_sup restarts the process, but *)
(* the factory goes on casting to the old pid, and nobody activates it.    *)
NodeGone(t) ==
    /\ \E c \in {"ssh_check_prov_port", "ssh_check_swm_port", "part_check",
                 "ssh_prov_connected"} : Takes(t, c)
    /\ ~ents
    /\ Crash(t)
    /\ OnlyProcess

TryWorkerUpload(t) ==
    /\ Takes(t, "try_worker_upload")
    /\ Goto(t, "creating", <<Msg("ssh_prov_connected")>>, {})
    /\ OnlyProcess

PartReady(t) ==
    /\ Takes(t, "part_check")
    /\ ents
    /\ cloud = "up"
    /\ IF inputs
       THEN /\ Step(t, In(t, "uploading"), <<>>, {}, {Ask(t, "upload")}, {"upload"})
            /\ SetState("T")
            /\ UNCHANGED <<row, ents>>
       ELSE FailJob(t)
    /\ Elsewhere

PartFetch(t) == Takes(t, "part_fetch") /\ AskGate(t, vr[t].st, "fetch") /\ OnlyProcess

Ignore(t) == Takes(t, "ignore") /\ Goto(t, vr[t].st, <<>>, {}) /\ OnlyProcess

Fire(t, k) ==
    /\ k \in timers[t]
    /\ timers' = [timers EXCEPT ![t] = @ \ {k}]
    /\ mail' = [mail EXCEPT ![t] = Append(@, Msg(k))]
    /\ UNCHANGED <<vr, requests, conf, queues, world>>

-----------------------------------------------------------------------------
(* wm_gate's children and wm_file_transfer.  The answer to a process that  *)
(* has ended is lost.                                                      *)
SendAnyway(t, m) == mail' = [mail EXCEPT ![t] = Append(@, m)]  \* mutant: also to a dead process
Send(t, m) == mail' = [mail EXCEPT ![t] = IF Alive(t) THEN Append(@, m) ELSE @]

Answers(q, k) ==
    /\ requests' = requests \ {q}
    /\ Send(q.task, [kind |-> k, slot |-> SlotOf(q.kind), live |-> q.live])
    /\ UNCHANGED <<vr, timers, conf, queues>>

(* What the cloud does with a request, and the answer it gives.            *)
Effect(kind) == CASE kind = "create" /\ cloud = "absent" -> "building"
                  [] kind = "delete" -> "absent"
                  [] OTHER -> cloud
AnswerTo(kind) ==
    CASE kind = "exists" -> IF cloud = "absent" THEN "partition_absent" ELSE "partition_exists"
      [] kind = "create" -> "partition_spawned"
      [] kind = "fetch" -> (CASE cloud = "absent" -> "transient"
                              [] cloud = "building" -> "partition_building"
                              [] cloud = "up" -> "partition_up")
      [] kind = "delete" -> IF cloud = "absent" THEN "transient" ELSE "partition_deleted"

(* The job's processes end with the machines they run on.                  *)
CloudBecomes(c) ==
    /\ cloud' = c
    /\ remote' = IF c = "absent" /\ remote = "running" THEN "ended" ELSE remote

GateAnswers(q) ==
    /\ q.kind \in GateRequest
    /\ CloudBecomes(Effect(q.kind))
    /\ Answers(q, AnswerTo(q.kind))
    /\ UNCHANGED <<inputs, uploaded, cancels, faults>>

(* An HTTP error, a timeout or a dead child, before or after the request   *)
(* took effect.  Any failure to fetch the partition reads as "absent".     *)
GateFails(q) ==
    /\ q.kind \in GateRequest
    /\ faults < MaxFaults
    /\ faults' = faults + 1
    /\ \E c \in {cloud, Effect(q.kind)} : CloudBecomes(c)
    /\ \E k \in {IF q.kind = "exists" THEN "partition_absent" ELSE "permanent",
                 IF q.kind = "exists" THEN "partition_absent" ELSE "transient",
                 "exit"} : Answers(q, k)
    /\ UNCHANGED <<inputs, uploaded, cancels>>

TransferEnds(q) ==
    /\ q.kind \in Transfer
    /\ Answers(q, IF cloud = "up" THEN "ok" ELSE "failed")
    /\ uploaded' = (uploaded \/ (q.kind = "upload" /\ cloud = "up"))
    /\ UNCHANGED <<cloud, remote, inputs, cancels, faults>>

TransferFails(q) ==
    /\ q.kind \in Transfer
    /\ faults < MaxFaults
    /\ faults' = faults + 1
    /\ Answers(q, "failed")
    /\ UNCHANGED <<cloud, remote, inputs, uploaded, cancels>>

PartitionComesUp ==
    /\ cloud = "building"
    /\ cloud' = "up"
    /\ UNCHANGED <<process, conf, queues, remote, inputs, uploaded, cancels, faults>>

InputsVanish ==
    /\ inputs
    /\ inputs' = FALSE
    /\ UNCHANGED <<process, conf, queues, cloud, remote, uploaded, cancels, faults>>

-----------------------------------------------------------------------------
(* wm_user:cancel_jobs, whatever the state of the job is.                  *)
UserCancels ==
    /\ cancels < MaxCancels
    /\ cancels' = cancels + 1
    /\ SetState("C")
    /\ rq' = Append(rq, "job_canceled")
    /\ cq' = Append(cq, "job_canceled")
    /\ UNCHANGED <<process, row, ents, scheduling, cloud, remote, inputs, uploaded, faults>>

(* wm_relocator, do_cancel_relocation: the process is told first, the      *)
(* entities are removed next; without a row another process destroys.      *)
RelocatorCanceledSilently ==  \* mutant: the running process is not told
    /\ rq # <<>> /\ Head(rq) = "job_canceled"
    /\ rq' = <<"remove_entities">> \o Tail(rq)
    /\ row' = None
    /\ UNCHANGED <<process, job, ents, cq, scheduling, world>>

RelocatorCanceled ==
    /\ rq # <<>> /\ Head(rq) = "job_canceled"
    /\ rq' = <<"remove_entities">> \o Tail(rq)
    /\ row' = None
    /\ \/ row # None /\ Send(row, Msg(IF job.keep THEN "cancel_keep" ELSE "destroy"))
          /\ UNCHANGED vr
       \/ row = None /\ job.keep /\ UNCHANGED <<vr, mail>>
       \/ /\ row = None /\ ~job.keep
          /\ \E t \in Unused :
                /\ vr' = [vr EXCEPT ![t] = Fresh("destroy")]
                /\ mail' = [mail EXCEPT ![t] = <<Msg("activate")>>]
    /\ UNCHANGED <<timers, requests, job, ents, cq, scheduling, world>>

RelocatorRemoves ==
    /\ rq # <<>> /\ Head(rq) = "remove_entities"
    /\ rq' = Tail(rq)
    /\ ents' = FALSE
    /\ UNCHANGED <<process, job, row, cq, scheduling, world>>

RelocatorFinished ==
    /\ rq # <<>> /\ Head(rq) = "job_finished"
    /\ rq' = Tail(rq)
    /\ row' = None
    /\ IF row # None /\ job.state # "C" THEN Send(row, Msg("job_finished")) ELSE UNCHANGED mail
    /\ UNCHANGED <<vr, timers, requests, job, ents, cq, scheduling, world>>

(* start_waiting_relocations, on a tick or after another job's event: when *)
(* the slots are full, rows of terminal jobs are dropped.                  *)
RelocatorCleansUp ==
    /\ SlotsFull
    /\ row # None
    /\ job.state \in {"C", "F", "E"}
    /\ row' = None
    /\ UNCHANGED <<process, job, ents, queues, world>>

(* wm_scheduler: the input is a snapshot, the result is applied whatever   *)
(* has happened to the job since.                                          *)
SchedulerReads ==
    /\ job.state = "Q" /\ ents /\ ~scheduling
    /\ scheduling' = TRUE
    /\ UNCHANGED <<process, conf, rq, cq, world>>

SchedulerResult ==
    /\ scheduling
    /\ scheduling' = FALSE
    /\ SetState("W")
    /\ cq' = Append(cq, "start")
    /\ UNCHANGED <<process, row, ents, rq, world>>

(* wm_compute: handle_timetable crashes when the node is gone, and the     *)
(* events queued for it are lost with it.                                  *)
ComputeStarts ==
    /\ cq # <<>> /\ Head(cq) = "start"
    /\ cq' = IF ents THEN Tail(cq) ELSE <<>>
    /\ remote' = IF ents /\ remote = "idle" THEN "sent" ELSE remote
    /\ UNCHANGED <<process, conf, rq, scheduling, cloud, inputs, uploaded, cancels, faults>>

ComputeUpdates ==
    /\ cq # <<>> /\ Head(cq) \in {"proc_started", "job_finished", "job_canceled"}
    /\ cq' = Tail(cq)
    /\ SetState(CASE Head(cq) = "proc_started" -> "R"
                  [] Head(cq) = "job_finished" -> "F"
                  [] Head(cq) = "job_canceled" -> "C")
    /\ rq' = IF Head(cq) = "proc_started" THEN rq ELSE Append(rq, "job_finished")
    /\ UNCHANGED <<process, row, ents, scheduling, world>>

(* The main cloud node starts the job script, and tells when it ends.      *)
RemoteStarts ==
    /\ remote = "sent" /\ cloud = "up"
    /\ remote' = "running"
    /\ cq' = Append(cq, "proc_started")
    /\ UNCHANGED <<process, conf, rq, scheduling, cloud, inputs, uploaded, cancels, faults>>

RemoteEnds ==
    /\ remote = "running"
    /\ remote' = "ended"
    /\ cq' = Append(cq, "job_finished")
    /\ UNCHANGED <<process, conf, rq, scheduling, cloud, inputs, uploaded, cancels, faults>>

-----------------------------------------------------------------------------
Handle(t) ==
    \/ Activate(t) \/ PartitionAbsent(t) \/ PartitionExists(t)
    \/ PartitionSpawned(t) \/ PartitionNotUp(t) \/ PartitionUp(t) \/ PartitionFailed(t)
    \/ WorkerUploaded(t) \/ WorkerNotReady(t) \/ SwmConnected(t)
    \/ DataUploaded(t) \/ UploadFailed(t) \/ DataDownloaded(t)
    \/ StartDestroying(t) \/ PartitionDeleted(t)
    \/ Destroy(t) \/ CancelKeep(t) \/ JobFinished(t)
    \/ SshReady(t) \/ NotReady(t) \/ NodeGone(t) \/ TryWorkerUpload(t)
    \/ PartReady(t) \/ PartFetch(t) \/ Ignore(t)

Answer(q) == GateAnswers(q) \/ TransferEnds(q)

SkyPort ==
    \/ RelocatorCanceled \/ RelocatorRemoves \/ RelocatorFinished
    \/ SchedulerReads \/ SchedulerResult \/ ComputeStarts \/ ComputeUpdates

Next ==
    \/ \E t \in Tasks : Handle(t) \/ WorkerFails(t)
    \/ \E t \in Tasks, k \in Timer : Fire(t, k)
    \/ \E q \in requests : Answer(q) \/ GateFails(q) \/ TransferFails(q)
    \/ SkyPort
    \/ PartitionComesUp \/ InputsVanish \/ UserCancels \/ RelocatorCleansUp
    \/ RemoteStarts \/ RemoteEnds

Spec == Init /\ [][Next]_vars

(* Processes take their messages, timers fire, every request is answered,  *)
(* and a machine that is asked often enough is ready at last.              *)
Fairness ==
    /\ \A t \in Tasks :
          /\ WF_vars(Handle(t))
          /\ SF_vars(SshReady(t)) /\ SF_vars(WorkerUploaded(t)) /\ SF_vars(PartReady(t))
          /\ \A k \in Timer : WF_vars(Fire(t, k))
    /\ \A t \in Tasks, k \in GateRequest \cup Transfer, b \in BOOLEAN :
          WF_vars(\E q \in requests : q = [task |-> t, kind |-> k, live |-> b] /\ Answer(q))
    /\ WF_vars(RelocatorCanceled \/ RelocatorRemoves \/ RelocatorFinished)
    /\ WF_vars(SchedulerReads \/ SchedulerResult)
    /\ WF_vars(ComputeStarts \/ ComputeUpdates)
    /\ WF_vars(RelocatorCleansUp)
    /\ WF_vars(PartitionComesUp) /\ WF_vars(RemoteStarts) /\ WF_vars(RemoteEnds)

FairSpec == Spec /\ Fairness

-----------------------------------------------------------------------------
(* Types, and no message outlives its process.                             *)
ProcessOK ==
    /\ vr \in [Tasks -> Process]
    /\ mail \in [Tasks -> Seq(Message)]
    /\ timers \in [Tasks -> SUBSET Timer]
    /\ requests \subseteq Request
    /\ \A t \in Tasks : ~Alive(t) => mail[t] = <<>> /\ timers[t] = {}

WorldOK ==
    /\ job \in [state : {"W", "T", "Q", "R", "F", "C", "E"}, remote : BOOLEAN,
               keep : KeepOptions, outputs : OutputOptions]
    /\ row \in Tasks \cup {None}
    /\ rq \in Seq({"job_canceled", "remove_entities", "job_finished"})
    /\ cq \in Seq({"job_canceled", "start", "proc_started", "job_finished"})
    /\ cloud \in {"absent", "building", "up"}
    /\ remote \in {"idle", "sent", "running", "ended"}
    /\ {ents, inputs, scheduling, uploaded} \subseteq BOOLEAN

TypeOK == ProcessOK /\ WorldOK

(* keep-resources: the partition of such a job is deleted only after the   *)
(* relocation has failed (fail_partition_creation, fail_job_and_destroy,   *)
(* a worker that cannot be uploaded), never by a cancel or a finish.       *)
Deleting(t) == \E q \in requests : q.task = t /\ q.kind = "delete"
KeptUnlessFailed == job.keep => \A t \in Tasks : Deleting(t) => vr[t].err

(* "Do not requeue -- that would start the job without input files": the   *)
(* job is handed to its cloud node only after an upload that succeeded.    *)
StartsWithData == remote # "idle" => uploaded

(* The results of a job that finished are on Sky Port, or lost for good,   *)
(* before the partition that holds them is deleted.                        *)
DownloadsBeforeDelete ==
    job.state = "F" =>
        ~\E q, p \in requests : q.kind \in {"logs", "outputs"} /\ p.kind = "delete"

(* A row whose process is gone blocks a slot for good, is_running being    *)
(* true for ever, unless cleanup_orphan_relocations may drop it.           *)
RowRecoverable ==
    row # None /\ ~Alive(row) => job.state \in {"C", "F", "E"}

(* A relocation that nothing disturbs runs its course: its process stops,  *)
(* and the partition is gone unless the job keeps it.                      *)
Undisturbed == cancels = 0 /\ faults = 0
RelocationEnds ==
    []Undisturbed => <>[](~Alive(First) /\ (~job.keep => cloud = "absent"))

(* "When the job finishes on cloud resources, SWM downloads the base logs" *)
(* (HOWTO/JOBS.md): the end of the job starts a download, unless the user  *)
(* cancels it all the same.                                                *)
ResultsFetched ==
    job.state = "F" /\ vr[First].st = "running" ~>
        cancels > 0 \/ \E q \in requests : q.kind \in {"logs", "outputs"}

(* "Cancel already stopped virtres": a cancel that finds the row of a      *)
(* keep-resources job ends the process that owns it, in a race with the    *)
(* creation of the partition, the transfers, the scheduler and the start   *)
(* of the job; not so when the relocator is handling the end of the job.   *)
CancelStopsWork ==
    /\ job.state = "C" /\ job.keep /\ row = First /\ Alive(First)
    /\ \A i \in 1 .. Len(rq) : rq[i] # "job_finished"
    ~> vr[First].st \in Dead \cup {"destroying"}
=============================================================================
