-------------------------------- MODULE Pmix --------------------------------
(***************************************************************************)
(* Parallel tasks of one job (swm-task --pmix): the helper process         *)
(* swm-pmix of each node (src/c_src/pmix/pmix_server_main.cpp) with its    *)
(* main thread, the progress thread of the PMIx library that calls it back *)
(* and its two pipes, and the service wm_pmix of each node, which starts   *)
(* the ranks and gathers the data of their fences.                         *)
(*                                                                         *)
(* A node runs one rank, so ranks name nodes; node 0 leads.  Modelled from *)
(* how src/ uses them: the PMIx library (one queue of operations, answered *)
(* in order; which clients may connect), the ranks, wm_api.                *)
(* Data: a contribution is the record that says which fence of which rank  *)
(* it belongs to; base64 and the framing of a line are left out, and so is *)
(* what only shapes the environment of a rank.                             *)
(***************************************************************************)
EXTENDS Naturals, Sequences, FiniteSets

CONSTANTS
    N,          \* number of nodes, and of ranks
    MaxTasks,   \* bound: tasks the job script starts, one after the other
    MaxFences,  \* bound: fences a rank calls before it ends
    GoesOn,     \* TRUE: the script starts another task also after something went wrong
    Allowed,    \* the kinds of faults that may happen
    MaxFaults   \* bound: how many of them

FaultKind == {"helper", "container", "timeout", "slow", "loss", "death", "crash", "cancel"}

ASSUME PmixAssumption ==
    /\ N \in Nat \ {0}
    /\ MaxTasks \in Nat
    /\ MaxFences \in Nat
    /\ MaxFaults \in Nat
    /\ GoesOn \in BOOLEAN
    /\ Allowed \subseteq FaultKind

Rank == 0..N-1
Task == 1..MaxTasks
Round == 1..MaxFences
Wait == {"dereg", "nspace", "app", "client"}  \* library calls the main thread waits for

VARIABLES
    main,       \* main thread of swm-pmix: what it does, and for which rank
    registered, \* g_nspace_registered
    contrib,    \* g_contrib_id
    seq,        \* g_fence_seq
    pending,    \* g_pending_fences: the call behind each id
    storing,    \* fencenb between its two halves: the call it has stored
    ops,        \* operations the PMIx library has not answered
    clients,    \* ranks the PMIx library lets connect
    stdin, stdout,  \* the pipes between wm_pmix and swm-pmix
    helper,     \* wm_pmix: the job has a port in #mstate.helpers
    follows,    \* fence_leader is set
    expected,   \* fence_expected, 0 for a key the map does not have
    peers,      \* fence_peers of the leader is set
    arrived,    \* #fence_round.arrived of the leader
    localIds,   \* #fence_round.local_ids
    tasks,      \* #mstate.tasks of the leader
    contTask,   \* cont_tasks: the task of the newest rank container
    replyTo,    \* rank_reply_to: tasks whose rank has not been reported
    net,        \* casts between the services
    rank,       \* the rank process of each node
    entered, answer, \* history: fences called and what they returned
    faults      \* history: the faults, in order

process == <<main, registered, contrib, seq, pending, storing, ops, clients>>
pipes == <<stdin, stdout>>
session == <<helper, follows, expected, peers>>
round == <<arrived, localIds>>
book == <<tasks, contTask, replyTo>>
history == <<entered, answer>>
vars == <<process, pipes, session, round, book, net, rank, history, faults>>

Line(c, r) == [cmd |-> c, rank |-> r]
Stop == Line("STOP", 0)
FenceOut(id, blob) == [cmd |-> "FENCE_OUT", id |-> id, blob |-> blob]
Call(t, k, r) == [task |-> t, round |-> k, rank |-> r]
Idle == [task |-> 0, st |-> "off", k |-> 0]
Free == [at |-> "off", rank |-> 0]

Happened(k) == \E i \in DOMAIN faults : faults[i] = k

(* A fault of kind k happens; "none" is the regular outcome.               *)
Spend(k) ==
    \/ k = "none" /\ UNCHANGED faults
    \/ /\ k \in Allowed
       /\ Len(faults) < MaxFaults
       /\ faults' = Append(faults, k)

Alive(n) == main[n].at \notin {"off", "gone"}

Init ==
    /\ main = [n \in Rank |-> Free]
    /\ registered = [n \in Rank |-> FALSE]
    /\ contrib = [n \in Rank |-> 0]
    /\ seq = [n \in Rank |-> 1]
    /\ pending = [n \in Rank |-> <<>>]
    /\ storing = [n \in Rank |-> <<>>]
    /\ ops = [n \in Rank |-> <<>>]
    /\ clients = [n \in Rank |-> {}]
    /\ stdin = [n \in Rank |-> <<>>]
    /\ stdout = [n \in Rank |-> <<>>]
    /\ helper = [n \in Rank |-> FALSE]
    /\ follows = [n \in Rank |-> FALSE]
    /\ expected = [n \in Rank |-> 0]
    /\ peers = FALSE
    /\ arrived = <<>>
    /\ localIds = [n \in Rank |-> <<>>]
    /\ tasks = [t \in Task |-> [st |-> "none", done |-> 0, code |-> 0]]
    /\ contTask = [n \in Rank |-> 0]
    /\ replyTo = [n \in Rank |-> {}]
    /\ net = {}
    /\ rank = [n \in Rank |-> Idle]
    /\ entered = [t \in Task |-> [r \in Rank |-> 0]]
    /\ answer = [t \in Task |-> [r \in Rank |-> [k \in Round |-> "none"]]]
    /\ faults = <<>>
-----------------------------------------------------------------------------
(***************************************************************************)
(* wm_pmix starts a task and its ranks.                                    *)
(***************************************************************************)
finish(tt, t, c) == [tt EXCEPT ![t] = [@ EXCEPT !.st = "ended", !.code = c]]

(* ensure_helper and do_start_rank_local on node n: the helper is started, *)
(* which leaves it reading its pipe with the placeholder namespace and     *)
(* client 0, or is the one of an earlier task; it is sent the lines; the   *)
(* rank's container is started.  Without a helper nothing is sent and the  *)
(* rank is started all the same.  The name of the container has no task in *)
(* it: while the one of an earlier task is there, no other can be created, *)
(* and nobody is told.                                                     *)
StartRankLocal(n, t, lines, fault) ==
    /\ fault = "helper" => ~helper[n]
    /\ IF helper[n] \/ fault = "helper"
       THEN UNCHANGED <<process, stdout, helper>>
       ELSE /\ main' = [main EXCEPT ![n] = [at |-> "read", rank |-> 0]]
            /\ registered' = [registered EXCEPT ![n] = TRUE]
            /\ contrib' = [contrib EXCEPT ![n] = 0]
            /\ seq' = [seq EXCEPT ![n] = 1]
            /\ pending' = [pending EXCEPT ![n] = <<>>]
            /\ storing' = [storing EXCEPT ![n] = <<>>]
            /\ ops' = [ops EXCEPT ![n] = <<>>]
            /\ clients' = [clients EXCEPT ![n] = {0}]
            /\ stdout' = [stdout EXCEPT ![n] = <<>>]
            /\ helper' = [helper EXCEPT ![n] = TRUE]
    /\ stdin' = [stdin EXCEPT ![n] = IF fault = "helper" THEN <<>>
                                     ELSE IF helper[n] THEN @ \o lines ELSE lines]
    /\ IF fault = "container"
       THEN UNCHANGED <<rank, contTask>>
       ELSE /\ rank' = [rank EXCEPT ![n] = IF @.st # "off" THEN @
                                           ELSE [task |-> t, st |-> "up", k |-> 0]]
            /\ contTask' = [contTask EXCEPT ![n] = t]

RegisterLinesNext(n) == <<Line("REGISTER", n + 1), Line("CONTRIB_ID", n + 1)>> \* mutant
RegisterLinesOnly(n) == <<Line("REGISTER", n)>>    \* mutant: no send_contrib_id
RegisterLines(n) == <<Line("REGISTER", n), Line("CONTRIB_ID", n)>>

(* do_porter_req(spawn_task), spawn_pmix_task and launch_ranks: the script *)
(* waits for one task before it starts the next.  A local rank that cannot *)
(* be started ends the task; the other ranks are started nevertheless.     *)
SpawnTask(t) ==
    /\ tasks[t].st = "none"
    /\ \A u \in 1..t-1 : tasks[u].st = "ended" /\ (GoesOn \/ faults = <<>>)
    /\ ~Happened("cancel")
    /\ \E fault \in {"none", "helper", "container"} :
        /\ Spend(fault)
        /\ StartRankLocal(0, t, <<Line("REGISTER", 0)>> \o RegisterLines(0), fault)
        /\ tasks' = LET tt == [tasks EXCEPT ![t].st = "running"]
                    IN IF fault = "container" THEN finish(tt, t, 1) ELSE tt
    /\ expected' = [expected EXCEPT ![0] = N]
    /\ peers' = TRUE
    /\ net' = net \cup {[type |-> "start", to |-> n, task |-> t] : n \in Rank \ {0}}
    /\ UNCHANGED <<follows, round, replyTo, history>>

(* pmix_start_rank on another node.  finish_task finds no such task there, *)
(* so a container that cannot be started is reported to nobody.            *)
StartRank(m) ==
    /\ m.type = "start"
    /\ net' = net \ {m}
    /\ \E fault \in {"none", "helper", "container"} :
        /\ Spend(fault)
        /\ StartRankLocal(m.to, m.task, RegisterLines(m.to), fault)
        /\ expected' = [expected EXCEPT ![m.to] = IF fault = "helper" THEN @ ELSE N]
    /\ follows' = [follows EXCEPT ![m.to] = TRUE]
    /\ replyTo' = [replyTo EXCEPT ![m.to] = @ \cup {m.task}]
    /\ UNCHANGED <<peers, round, tasks, history>>
-----------------------------------------------------------------------------
(***************************************************************************)
(* The main thread of swm-pmix: it takes one line at a time, and a         *)
(* REGISTER keeps it waiting for one library operation after another       *)
(* (wait_call), so that every later line waits too.                        *)
(***************************************************************************)
Ask(n, at, r) ==
    /\ main' = [main EXCEPT ![n] = [at |-> at, rank |-> r]]
    /\ ops' = [ops EXCEPT ![n] = Append(@, [op |-> at, rank |-> r])]

(* The main thread waits for the newest operation, if for any.             *)
Waits(n) == main[n].at \in Wait
Awaited(n) == Waits(n) /\ Len(ops[n]) = 1

Reading(n, c) ==
    /\ main[n].at = "read"
    /\ stdin[n] # <<>>
    /\ Head(stdin[n]).cmd = c
    /\ stdin' = [stdin EXCEPT ![n] = Tail(@)]

(* register_nspace first removes the namespace of the last REGISTER.       *)
ReadRegister(n) ==
    /\ Reading(n, "REGISTER")
    /\ Ask(n, IF registered[n] THEN "dereg" ELSE "nspace", Head(stdin[n]).rank)
    /\ UNCHANGED <<registered, contrib, seq, pending, storing, clients, stdout, session, round,
                   book, net, rank, history, faults>>

(* The wait is over: ok, or given up after 5 or 10 s.  A deregistration    *)
(* that was not answered counts as done; a namespace or a client that was  *)
(* not registered ends the command with ERR REGISTER, which wm_pmix only   *)
(* logs.  setup_application and setup_local_support, one wait here, go on  *)
(* in any case.                                                            *)
Proceed(n, ok, rest) ==
    LET at == main[n].at  r == main[n].rank
        next == CASE at = "dereg" -> "nspace"
                  [] at = "nspace" -> IF ok THEN "app" ELSE "read"
                  [] at = "app" -> "client"
                  [] at = "client" -> "read"
    IN  /\ main' = [main EXCEPT ![n] = [at |-> next, rank |-> r]]
        /\ ops' = [ops EXCEPT ![n] =
               IF next = "read" THEN rest ELSE Append(rest, [op |-> next, rank |-> r])]
        /\ registered' = [registered EXCEPT ![n] =
               IF at = "dereg" THEN FALSE ELSE IF at = "nspace" /\ ok THEN TRUE ELSE @]

(* What an operation changes in the library.                               *)
Known(c, o) == CASE o.op = "dereg" -> {}
                 [] o.op = "client" -> c \cup {o.rank}
                 [] OTHER -> c

(* The library answers its oldest operation.  The answer to an operation   *)
(* the main thread has given up is written into the SyncOp of a frame that *)
(* has been left (line 342, 309): it is lost, or it ends the wait that     *)
(* reuses the place.                                                       *)
LibraryAnswers(n) ==
    /\ Alive(n)
    /\ ops[n] # <<>>
    /\ clients' = [clients EXCEPT ![n] = Known(@, Head(ops[n]))]
    /\ \/ Awaited(n) /\ Proceed(n, TRUE, <<>>)
       \/ /\ ~Awaited(n)
          /\ \/ /\ ops' = [ops EXCEPT ![n] = Tail(@)]
                /\ UNCHANGED <<main, registered>>
             \/ Waits(n) /\ Proceed(n, TRUE, Tail(ops[n]))
    /\ UNCHANGED <<contrib, seq, pending, storing, pipes, session, round, book, net, rank,
                   history, faults>>

GiveUp(n) ==
    /\ Waits(n)
    /\ Spend("timeout")
    /\ Proceed(n, FALSE, ops[n])
    /\ UNCHANGED <<contrib, seq, pending, storing, clients, pipes, session, round, book, net,
                   rank, history>>

ReadContribId(n) ==
    /\ Reading(n, "CONTRIB_ID")
    /\ contrib' = [contrib EXCEPT ![n] = Head(stdin[n]).rank]
    /\ UNCHANGED <<main, registered, seq, pending, storing, ops, clients, stdout, session, round,
                   book, net, rank, history, faults>>
-----------------------------------------------------------------------------
(***************************************************************************)
(* Fences.                                                                 *)
(***************************************************************************)
Put(f, i, c) == [j \in {i} \cup DOMAIN f |-> IF j = i THEN c ELSE f[j]]
Remove(f, i) == [j \in DOMAIN f \ {i} |-> f[j]]

(* The callback of a call reaches the rank if that still waits for it.     *)
(* The data of a fence is good if it is, in the order of the ranks, what   *)
(* each of them gave to this same call.                                    *)
Gathered(c) == [r \in Rank |-> Call(c.task, c.round, r)]
Outcome(c, blob) == IF blob = Gathered(c) THEN "data"
                    ELSE IF blob = <<>> THEN "error" ELSE "mixed"
Waiting(c) == rank[c.rank] = [task |-> c.task, st |-> "fence", k |-> c.round]

(* The callbacks of the calls in C are called, with status and data of b.  *)
CallBack(C, b) ==
    /\ answer' = [t \in Task |-> [r \in Rank |-> [k \in Round |->
           IF Call(t, k, r) \in C /\ Waiting(Call(t, k, r))
           THEN Outcome(Call(t, k, r), b) ELSE answer[t][r][k]]]]
    /\ rank' = [r \in Rank |->
           IF \E c \in C : c.rank = r /\ Waiting(c) THEN [rank[r] EXCEPT !.st = "ready"]
           ELSE rank[r]]
    /\ UNCHANGED entered

(* A connected rank calls its next fence, and the progress thread of the   *)
(* library calls fencenb: it stores the call under the next id ...         *)
FenceStored(n) ==
    /\ Alive(n)
    /\ storing[n] = <<>>
    /\ rank[n].st = "ready"
    /\ rank[n].k < MaxFences
    /\ LET c == Call(rank[n].task, rank[n].k + 1, n) IN
        /\ pending' = [pending EXCEPT ![n] = Put(@, seq[n], c)]
        /\ storing' = [storing EXCEPT ![n] = <<[id |-> seq[n], call |-> c]>>]
        /\ entered' = [entered EXCEPT ![c.task][n] = c.round]
        /\ rank' = [rank EXCEPT ![n].st = "fence", ![n].k = c.round]
    /\ seq' = [seq EXCEPT ![n] = @ + 1]
    /\ UNCHANGED <<main, registered, contrib, ops, clients, pipes, session, round, book, net,
                   answer, faults>>

(* ... and then writes FENCE_IN, with the contrib id of that moment.       *)
FenceIn(n) == [id |-> storing[n][1].id, key |-> contrib[n], call |-> storing[n][1].call]
FenceWritten(n) ==
    /\ Alive(n)
    /\ storing[n] # <<>>
    /\ stdout' = [stdout EXCEPT ![n] = IF helper[n] THEN Append(@, FenceIn(n)) ELSE @]
    /\ storing' = [storing EXCEPT ![n] = <<>>]
    /\ UNCHANGED <<main, registered, contrib, seq, pending, ops, clients, stdin, session, round,
                   book, net, rank, history, faults>>

(* handle_fence_out and complete_fence: an id that is not pending is only  *)
(* logged.                                                                 *)
ReadFenceOut(n) ==
    /\ Reading(n, "FENCE_OUT")
    /\ LET l == Head(stdin[n])
           C == {pending[n][i] : i \in {l.id} \cap DOMAIN pending[n]}
       IN /\ pending' = [pending EXCEPT ![n] = Remove(@, l.id)]
          /\ CallBack(C, l.blob)
    /\ UNCHANGED <<main, registered, contrib, seq, storing, ops, clients, stdout, session, round,
                   book, net, faults>>

(* apply_fence_result: FENCE_OUT for every local id, and the round is      *)
(* forgotten.                                                              *)
OutLines(ids, blob) == [i \in DOMAIN ids |-> FenceOut(ids[i], blob)]
ApplyResultKeep(n, ids, blob, in) ==    \* mutant: the ids of the round are kept
    /\ stdin' = [stdin EXCEPT ![n] = IF helper[n] THEN @ \o OutLines(ids, blob) ELSE @]
    /\ localIds' = in
ApplyResult(n, ids, blob, in) ==
    /\ stdin' = [stdin EXCEPT ![n] = IF helper[n] THEN @ \o OutLines(ids, blob) ELSE @]
    /\ localIds' = [in EXCEPT ![n] = <<>>]

(* on_fence_contrib on the leader: a contribution is filed under its key;  *)
(* with enough keys the round is complete and its data go to every node.   *)
(* Without a fence_expected, 1 is enough.                                  *)
EnoughButOne(A) ==  \* mutant: off by one
    Cardinality(DOMAIN A) + 1 >= (IF expected[0] = 0 THEN 1 ELSE expected[0])
Enough(A) == Cardinality(DOMAIN A) >= (IF expected[0] = 0 THEN 1 ELSE expected[0])
ContributeKeep(key, call, ids, others) ==   \* mutant: the round is not cleared
    LET A == Put(arrived, key, call)
        in == [localIds EXCEPT ![0] = @ \o ids]
    IN  IF Enough(A)
        THEN /\ ApplyResult(0, in[0], A, in)
             /\ arrived' = A
             /\ net' = others \cup (IF peers THEN {[type |-> "result", to |-> n, blob |-> A] :
                                                   n \in Rank \ {0}} ELSE {})
        ELSE arrived' = A /\ localIds' = in /\ net' = others /\ UNCHANGED stdin
Contribute(key, call, ids, others) ==
    LET A == Put(arrived, key, call)
        in == [localIds EXCEPT ![0] = @ \o ids]
    IN  IF Enough(A)
        THEN /\ ApplyResult(0, in[0], A, in)
             /\ arrived' = <<>>
             /\ net' = others \cup (IF peers THEN {[type |-> "result", to |-> n, blob |-> A] :
                                                   n \in Rank \ {0}} ELSE {})
        ELSE /\ arrived' = A
             /\ localIds' = in
             /\ net' = others
             /\ UNCHANGED stdin

(* on_helper_line(FENCE_IN): the leader files its own contribution, the    *)
(* others remember the id and forward the data.                            *)
LocalFenceIn(n) ==
    /\ helper[n]
    /\ stdout[n] # <<>>
    /\ LET l == Head(stdout[n]) IN
        IF follows[n]
        THEN /\ localIds' = [localIds EXCEPT ![n] = Append(@, l.id)]
             /\ net' = net \cup {[type |-> "contrib", to |-> 0, key |-> l.key, call |-> l.call]}
             /\ UNCHANGED <<stdin, arrived>>
        ELSE Contribute(l.key, l.call, <<l.id>>, net)
    /\ stdout' = [stdout EXCEPT ![n] = Tail(@)]
    /\ UNCHANGED <<process, session, book, rank, history, faults>>

FenceContrib(m) ==
    /\ m.type = "contrib"
    /\ Contribute(m.key, m.call, <<>>, net \ {m})
    /\ UNCHANGED <<process, stdout, session, book, rank, history, faults>>

FenceResult(m) ==
    /\ m.type = "result"
    /\ net' = net \ {m}
    /\ ApplyResult(m.to, localIds[m.to], m.blob, localIds)
    /\ UNCHANGED <<process, stdout, session, arrived, book, rank, history, faults>>
-----------------------------------------------------------------------------
(***************************************************************************)
(* Ranks.                                                                  *)
(***************************************************************************)
Settled(n) == main[n].at = "read" /\ stdin[n] = <<>>

(* PMIx_Init of the rank.  The rank is started some 500 ms after its       *)
(* REGISTER and CONTRIB_ID were sent (feed_rank_porter); a helper that is  *)
(* not through with them by then is slow.  Who is not a client is refused, *)
(* and the program ends.                                                   *)
Connect(r) ==
    /\ rank[r].st = "up"
    /\ Spend(IF Settled(r) \/ ~Alive(r) THEN "none" ELSE "slow")
    /\ rank' = [rank EXCEPT ![r].st = IF Alive(r) /\ r \in clients[r] THEN "ready" ELSE "failed"]
    /\ UNCHANGED <<process, pipes, session, round, book, net, history>>

(* The program returns after its last fence, or when its server has gone.  *)
RankEnds(r) ==
    /\ \/ rank[r].st = "ready" /\ rank[r].k = MaxFences /\ rank' = [rank EXCEPT ![r].st = "over"]
       \/ /\ rank[r].st \in {"ready", "fence"}
          /\ ~Alive(r)
          /\ rank' = [rank EXCEPT ![r].st = "failed"]
    /\ UNCHANGED <<process, pipes, session, round, book, net, history, faults>>

RankDies(r) ==
    /\ rank[r].st \in {"up", "ready", "fence"}
    /\ Spend("death")
    /\ rank' = [rank EXCEPT ![r].st = "failed"]
    /\ UNCHANGED <<process, pipes, session, round, book, net, history>>

(* rank_finished: the task ends with its last rank, with the code of that  *)
(* rank; until then it keeps the last code that was not zero.              *)
RankFinished(t, c) ==
    tasks' = IF tasks[t].done + 1 >= N
             THEN finish([tasks EXCEPT ![t].done = @ + 1], t, c)
             ELSE [tasks EXCEPT ![t].done = @ + 1,
                                ![t].code = IF tasks[t].done = 0 \/ c # 0 THEN c ELSE @]

(* on_rank_process: the leader takes the newest task of the job, another   *)
(* node the one of its rank container, which report_rank_done forwards.    *)
OnRankProcess(r) ==
    /\ rank[r].st \in {"over", "failed"}
    /\ rank' = [rank EXCEPT ![r] = Idle]
    /\ LET c == IF rank[r].st = "failed" THEN 1 ELSE 0
           t == contTask[r]
           newest == CHOOSE u \in Task : /\ tasks[u].st # "none"
                                         /\ \A w \in u+1..MaxTasks : tasks[w].st = "none"
       IN IF r = 0
          THEN RankFinished(newest, c) /\ UNCHANGED <<net, replyTo>>
          ELSE /\ net' = IF t \in replyTo[r]
                         THEN net \cup {[type |-> "done", to |-> 0, task |-> t, from |-> r,
                                         code |-> c]}
                         ELSE net
               /\ replyTo' = [replyTo EXCEPT ![r] = @ \ {t}]
               /\ UNCHANGED tasks
    /\ UNCHANGED <<process, pipes, session, round, contTask, history, faults>>

RankDone(m) ==
    /\ m.type = "done"
    /\ net' = net \ {m}
    /\ RankFinished(m.task, m.code)
    /\ UNCHANGED <<process, pipes, session, round, contTask, replyTo, rank, history, faults>>
-----------------------------------------------------------------------------
(***************************************************************************)
(* The end of a helper.                                                    *)
(***************************************************************************)
(* STOP: every pending call returns an error.                              *)
Drain(n) ==
    /\ Reading(n, "STOP")
    /\ main' = [main EXCEPT ![n].at = "drain"]
    /\ CallBack({pending[n][i] : i \in DOMAIN pending[n]}, <<>>)
    /\ pending' = [pending EXCEPT ![n] = <<>>]
    /\ UNCHANGED <<registered, contrib, seq, storing, ops, clients, stdout, session, round, book,
                   net, faults>>

(* Nothing of the process is left.                                         *)
Gone(n) ==
    /\ main' = [main EXCEPT ![n] = [at |-> "gone", rank |-> 0]]
    /\ pending' = [pending EXCEPT ![n] = <<>>]
    /\ storing' = [storing EXCEPT ![n] = <<>>]
    /\ ops' = [ops EXCEPT ![n] = <<>>]
    /\ clients' = [clients EXCEPT ![n] = {}]
    /\ stdin' = [stdin EXCEPT ![n] = <<>>]
    /\ UNCHANGED <<registered, contrib, seq, stdout, session, round, book, net, rank, history>>

(* PMIx_server_finalize: a fence stored after the drain gets no answer.    *)
Finalize(n) == main[n].at = "drain" /\ Gone(n) /\ UNCHANGED faults

HelperCrashes(n) == Alive(n) /\ Spend("crash") /\ Gone(n)

(* All wm_pmix keeps of the job but its tasks, on 'EXIT' and on a cancel.  *)
Forget(n) ==
    /\ helper' = [helper EXCEPT ![n] = FALSE]
    /\ follows' = [follows EXCEPT ![n] = FALSE]
    /\ expected' = [expected EXCEPT ![n] = 0]
    /\ peers' = (peers /\ n # 0)
    /\ arrived' = IF n = 0 THEN <<>> ELSE arrived
    /\ localIds' = [localIds EXCEPT ![n] = <<>>]

PortExit(n) ==
    /\ helper[n]
    /\ main[n].at = "gone"
    /\ stdout[n] = <<>>
    /\ Forget(n)
    /\ UNCHANGED <<process, pipes, book, net, rank, history, faults>>

(* do_cancel_job where the script runs: the containers of the ranks that   *)
(* run there are removed, every task ends, the helper is told to stop and  *)
(* its port is closed.                                                     *)
CancelJob ==
    /\ \E t \in Task : tasks[t].st = "running"
    /\ Spend("cancel")
    /\ tasks' = [t \in Task |-> IF tasks[t].st = "none" THEN tasks[t]
                                ELSE [tasks[t] EXCEPT !.st = "ended", !.code = 143]]
    /\ rank' = [rank EXCEPT ![0] = Idle]
    /\ stdin' = [stdin EXCEPT ![0] = IF helper[0] THEN Append(@, Stop) ELSE @]
    /\ stdout' = [stdout EXCEPT ![0] = <<>>]
    /\ Forget(0)
    /\ UNCHANGED <<process, contTask, replyTo, net, history>>

(* Casts between nodes are not confirmed.                                  *)
Lose(m) ==
    /\ Spend("loss")
    /\ net' = net \ {m}
    /\ UNCHANGED <<process, pipes, session, round, book, rank, history>>
-----------------------------------------------------------------------------
Receive(m) == StartRank(m) \/ FenceContrib(m) \/ FenceResult(m) \/ RankDone(m)
HelperStep(n) ==
    \/ ReadRegister(n) \/ LibraryAnswers(n) \/ ReadContribId(n) \/ ReadFenceOut(n)
    \/ FenceWritten(n) \/ Drain(n) \/ Finalize(n)
ServiceStep(n) == LocalFenceIn(n) \/ OnRankProcess(n) \/ PortExit(n)
RankStep(r) == Connect(r) \/ FenceStored(r) \/ RankEnds(r)

Regular ==
    \/ \E t \in Task : SpawnTask(t)
    \/ \E m \in net : Receive(m)
    \/ \E n \in Rank : HelperStep(n) \/ ServiceStep(n) \/ RankStep(n)
Fault ==
    \/ CancelJob
    \/ \E m \in net : Lose(m)
    \/ \E n \in Rank : GiveUp(n) \/ RankDies(n) \/ HelperCrashes(n)

Next == Regular \/ Fault
Spec == Init /\ [][Next]_vars

(* Every process and service goes on; the program of a rank calls its      *)
(* fences and ends.                                                        *)
Fairness ==
    /\ \A t \in Task : WF_vars(SpawnTask(t))
    /\ WF_vars(\E m \in net : Receive(m))
    /\ \A n \in Rank : /\ WF_vars(HelperStep(n))
                       /\ WF_vars(ServiceStep(n))
                       /\ WF_vars(RankStep(n))
LiveSpec == Spec /\ Fairness
-----------------------------------------------------------------------------
TypeOK ==
    /\ \A n \in Rank :
        /\ main[n].at \in Wait \cup {"off", "read", "drain", "gone"} /\ main[n].rank \in Rank
        /\ contrib[n] \in Rank /\ seq[n] \in Nat /\ clients[n] \subseteq Rank
        /\ Len(ops[n]) <= Len(faults) + 1 /\ Len(storing[n]) <= 1
        /\ \A i \in DOMAIN pending[n] : pending[n][i] \in [task : Task, round : Round, rank : {n}]
        /\ \A i \in DOMAIN stdout[n] : stdout[n][i].key \in Rank
        /\ rank[n].st \in {"off", "up", "ready", "fence", "over", "failed"}
        /\ rank[n].task \in Task \cup {0} /\ rank[n].k \in 0..MaxFences
    /\ helper \in [Rank -> BOOLEAN] /\ follows \in [Rank -> BOOLEAN]
    /\ registered \in [Rank -> BOOLEAN] /\ expected \in [Rank -> {0, N}]
    /\ tasks \in [Task -> [st : {"none", "running", "ended"}, done : Nat, code : {0, 1, 143}]]
    /\ faults \in Seq(FaultKind)

(* The data a fence completes with, be they still gathered, on their way   *)
(* or in a pipe, come from one call of one task: "wm_pmix allgathers       *)
(* contributions and replies with FENCE_OUT" (pmix_server_main.cpp:5).  No *)
(* message of the protocol carries a number of the round.                  *)
OneRound(A) == \A i, j \in DOMAIN A : A[i].task = A[j].task /\ A[i].round = A[j].round
RoundsDoNotMix ==
    /\ OneRound(arrived)
    /\ \A m \in net : m.type = "result" => OneRound(m.blob)
    /\ \A n \in Rank : \A i \in DOMAIN stdin[n] :
           stdin[n][i].cmd = "FENCE_OUT" => OneRound(stdin[n][i].blob)

(* "FENCE_OUT for unknown id" is never logged by a helper that reads: what *)
(* wm_pmix remembers of a node's ids agrees with what its helper has       *)
(* pending, each answered once.                                            *)
NoUnknownFence ==
    \A n \in Rank : \A i \in DOMAIN stdin[n] :
        /\ Alive(n)
        /\ main[n].at # "drain"
        /\ stdin[n][i].cmd = "FENCE_OUT"
        => /\ stdin[n][i].id \in DOMAIN pending[n]
           /\ \A j \in 1..i-1 : stdin[n][j].cmd # "FENCE_OUT" \/ stdin[n][j].id # stdin[n][i].id

(* What a rank gets from its fences is what the collecting fence promises, *)
(* in each task of the job.                                                *)
Promise == INSTANCE Fence WITH Tasks <- Task, Ranks <- Rank
ImplementsFence == Promise!Spec

(* swm-task comes back: with no fault a task ends, and so each of its      *)
(* fences was answered on every node.                                      *)
TaskEnds == \A t \in Task : <>(tasks[t].st = "ended" \/ faults # <<>>)
=============================================================================
