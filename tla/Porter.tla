------------------------------- MODULE Porter -------------------------------
(***************************************************************************)
(* Porter in the job's container (the parent part of main in               *)
(* src/c_src/porter/porter.cpp and wm_porter_ctrl.cpp): it watches the     *)
(* job script, reports to SWM over its stdout, and relays the requests of  *)
(* the script's swm-task commands (src/c_src/task/task.cpp) to SWM and the *)
(* replies, which come on its stdin, back to them.  SWM is modelled from   *)
(* wm_container, which decodes the stdout, and wm_pmix, which runs tasks.  *)
(*                                                                         *)
(* Data: a request is named after the swm-task that sent it, and so is its *)
(* ref; a reply on stdin is its three reads: the command byte, the length, *)
(* the body.  What the start of the script does with the host is in        *)
(* Launch, the samples it takes of the job are in Metrics.                 *)
(***************************************************************************)
EXTENDS Naturals, Sequences, FiniteSets, SequencesExt, Launch

CONSTANTS
    Client,     \* the swm-task commands of the job script
    None,       \* no client
    MaxKills,   \* bound: swm-tasks that are killed
    MaxFaults   \* bound: stdin stolen, stdin split, stdout split, script stopped

ASSUME PorterAssumption ==
    /\ IsFiniteSet(Client)
    /\ None \notin Client
    /\ MaxKills \in Nat
    /\ MaxFaults \in Nat

VARIABLES
    pc,         \* where the loop of the parent is
    client,     \* ctrl_client: who is at the other end of the descriptor
    buf,        \* ctrl_buf, the pieces of requests read so far
    pending,    \* keys of pending_refs; every value is the one descriptor in use
    body,       \* the frame whose body is being read
    backlog,    \* clients connected to the socket and not accepted
    inbox,      \* what each client has written and Porter has not read
    outbox,     \* what Porter has written to each client, not read yet
    task,       \* swm-task: its state, or the tag of the answer it ended with
    child,      \* the job script
    socket,     \* the control socket is there
    host,       \* history: the host the start failed on, or <<>>
    stdin, stdout,  \* Porter's pipes
    running,    \* tasks SWM has started and not finished
    seen,       \* history: SWM has got the final process state
    killed,     \* history: swm-tasks killed
    faults      \* history: the other faults

parent == <<pc, client, buf, pending, body>>
sockets == <<backlog, inbox, outbox>>
pipes == <<stdin, stdout>>
history == <<seen, killed, faults>>
start == <<socket, host>>
vars == <<parent, sockets, task, child, start, pipes, running, history>>

Piece(c, i, good) == [from |-> c, i |-> i, good |-> good]  \* half a SPAWN line
Answer(tag, c) == [tag |-> tag, ref |-> c]
Frame(a) == <<[k |-> "H", a |-> a], [k |-> "L", a |-> a], [k |-> "B", a |-> a]>>
Term(tag, from) == [tag |-> tag, from |-> from]

Init ==
    /\ pc = "accept"
    /\ client = None
    /\ buf = <<>>
    /\ pending = {}
    /\ body = <<>>
    /\ backlog = <<>>
    /\ inbox = [c \in Client |-> <<>>]
    /\ outbox = [c \in Client |-> <<>>]
    /\ task = [c \in Client |-> "none"]
    /\ child = "start"
    /\ socket = FALSE
    /\ host = <<>>
    /\ stdin = <<>>
    /\ stdout = <<>>
    /\ running = {}
    /\ seen = FALSE
    /\ killed = {}
    /\ faults = 0

Living == {"connected", "half", "waiting"}
FaultHappens == faults < MaxFaults /\ faults' = faults + 1 /\ UNCHANGED <<seen, killed>>
-----------------------------------------------------------------------------
(***************************************************************************)
(* swm-task (run_via_porter): connect, write SPAWN, wait for DONE or ERR.  *)
(***************************************************************************)
Connect(c) ==
    /\ task[c] = "none"
    /\ child = "run"
    /\ socket
    /\ pc \notin {"reap", "exit"}
    /\ task' = [task EXCEPT ![c] = "connected"]
    /\ backlog' = Append(backlog, c)
    /\ UNCHANGED <<parent, inbox, outbox, child, pipes, start, running, history>>

(* A request with no word in it is not good: porter_ctrl_parse_spawn       *)
(* returns false.  The line may arrive in two reads.                       *)
WriteHalf(c) ==
    /\ task[c] = "connected"
    /\ \E good \in BOOLEAN : inbox' = [inbox EXCEPT ![c] = Append(@, Piece(c, 1, good))]
    /\ task' = [task EXCEPT ![c] = "half"]
    /\ UNCHANGED <<parent, backlog, outbox, child, pipes, start, running, history>>
WriteRest(c) ==
    /\ task[c] = "half"
    /\ inbox' = [inbox EXCEPT ![c] = Append(@, Piece(c, 2, TRUE))]
    /\ task' = [task EXCEPT ![c] = "waiting"]
    /\ UNCHANGED <<parent, backlog, outbox, child, pipes, start, running, history>>

(* An OK is passed over; the end of the connection ends swm-task too.      *)
ReadAnswer(c) ==
    /\ task[c] = "waiting"
    /\ outbox[c] # <<>>
    /\ outbox' = [outbox EXCEPT ![c] = Tail(@)]
    /\ task' = IF Head(outbox[c]).tag = "OK" THEN task
               ELSE [task EXCEPT ![c] = Head(outbox[c]).tag]
    /\ UNCHANGED <<parent, backlog, inbox, child, pipes, start, running, history>>

Kill(c) ==
    /\ task[c] \in Living
    /\ Cardinality(killed) < MaxKills
    /\ killed' = killed \cup {c}
    /\ task' = [task EXCEPT ![c] = "killed"]
    /\ UNCHANGED <<parent, sockets, child, pipes, start, running, seen, faults>>
-----------------------------------------------------------------------------
(***************************************************************************)
(* The loop of the parent: one client at a time, one reply per turn.       *)
(***************************************************************************)
AcceptKeepBuffer ==     \* mutant: ctrl_buf.clear() forgotten
    /\ pc = "accept"
    /\ IF client = None /\ backlog # <<>>
       THEN client' = Head(backlog) /\ backlog' = Tail(backlog)
       ELSE UNCHANGED <<client, backlog>>
    /\ pc' = "client"
    /\ UNCHANGED <<buf, pending, body, inbox, outbox, task, child, pipes, start, running, history>>
Accept ==
    /\ pc = "accept"
    /\ IF client = None /\ backlog # <<>>
       THEN /\ client' = Head(backlog)
            /\ backlog' = Tail(backlog)
            /\ buf' = <<>>
       ELSE UNCHANGED <<client, backlog, buf>>
    /\ pc' = "client"
    /\ UNCHANGED <<pending, body, inbox, outbox, task, child, pipes, start, running, history>>
(* porter_ctrl_write_line to the descriptor of pending_refs, which by now  *)
(* may be closed or another client's; a failed write is not noticed.       *)
WriteLine(a) ==
    outbox' = IF client = None \/ task[client] = "killed" THEN outbox
              ELSE [outbox EXCEPT ![client] = Append(@, a)]

(* The end of the connection is read after all that was written to it.     *)
EndOrNothing(c) == inbox[c] = <<>>  \* mutant: EAGAIN is taken for the end
EndOfFile(c) == inbox[c] = <<>> /\ task[c] \notin Living

(* try_read_ctrl_client and handle_ctrl_line.  The pending refs stay when  *)
(* the client has gone.                                                    *)
ReadClient ==
    /\ pc = "client"
    /\ pc' = "stdin"
    /\ IF client = None
       THEN UNCHANGED <<client, buf, pending, inbox, outbox, stdout>>
       ELSE IF EndOfFile(client)
       THEN client' = None /\ UNCHANGED <<buf, pending, inbox, outbox, stdout>>
       ELSE IF inbox[client] = <<>>
       THEN UNCHANGED <<client, buf, pending, inbox, outbox, stdout>>
       ELSE LET line == buf \o inbox[client] IN
            /\ inbox' = [inbox EXCEPT ![client] = <<>>]
            /\ UNCHANGED client
            /\ IF Last(line).i = 1
               THEN buf' = line /\ UNCHANGED <<pending, outbox, stdout>>
               ELSE /\ buf' = <<>>
                    /\ IF line[1].good
                       THEN /\ pending' = pending \cup {client}
                            /\ stdout' = Append(stdout, Term("porter_req",
                                                            [i \in DOMAIN line |-> line[i].from]))
                            /\ UNCHANGED outbox
                       ELSE WriteLine(Answer("ERR", client)) /\ UNCHANGED <<pending, stdout>>
    /\ UNCHANGED <<body, backlog, task, child, stdin, start, running, history>>

(* try_read_stdin_reply.  Whatever is not the start of a frame is dropped  *)
(* byte by byte; a start whose length has not arrived yet is dropped too.  *)
StartsFrame == Len(stdin) > 1 /\ stdin[1].k = "H" /\ stdin[2].k = "L"
ReadStdin ==
    /\ pc = "stdin"
    /\ IF StartsFrame
       THEN /\ pc' = "body"
            /\ body' = <<stdin[2].a>>
            /\ stdin' = SubSeq(stdin, 3, Len(stdin))
       ELSE /\ pc' = "wait"
            /\ stdin' = IF stdin = <<>> THEN stdin ELSE Tail(stdin)
            /\ UNCHANGED body
    /\ UNCHANGED <<client, buf, pending, sockets, task, child, stdout, start, running, history>>

(* The body is waited for, whatever else happens.  An answer that ends the *)
(* task is forgotten; one that has no ref of ours is dropped.              *)
RelayOnce(a) ==     \* mutant: the ref is forgotten with the first line
    IF a.ref \in pending
    THEN WriteLine(a) /\ pending' = pending \ {a.ref}
    ELSE UNCHANGED <<outbox, pending>>
Relay(a) ==
    IF a.ref \in pending
    THEN /\ WriteLine(a)
         /\ pending' = IF a.tag = "OK" THEN pending ELSE pending \ {a.ref}
    ELSE UNCHANGED <<outbox, pending>>
ReadBodyKeep ==     \* mutant: the body is not let go
    /\ pc = "body"
    /\ stdin # <<>>
    /\ Relay(body[1])
    /\ stdin' = Tail(stdin)
    /\ pc' = "wait"
    /\ UNCHANGED <<client, buf, body, backlog, inbox, task, child, stdout, start, running, history>>
ReadBody ==
    /\ pc = "body"
    /\ stdin # <<>>
    /\ IF stdin[1].k = "B" /\ stdin[1].a = body[1] THEN Relay(body[1])
       ELSE UNCHANGED <<outbox, pending>>
    /\ stdin' = Tail(stdin)
    /\ body' = <<>>
    /\ pc' = "wait"
    /\ UNCHANGED <<client, buf, backlog, inbox, task, child, stdout, start, running, history>>

(* waitpid(WNOHANG | WUNTRACED): a script that is stopped counts as ended. *)
WaitChildQuiet ==   \* mutant: no report while an answer is pending
    /\ pc = "wait"
    /\ pc' = IF child \in {"start", "run"} THEN "accept" ELSE "over"
    /\ stdout' = IF child \in {"start", "run"} \/ pending # {} THEN stdout
                 ELSE Append(stdout, Term("final", <<>>))
    /\ UNCHANGED <<client, buf, pending, body, sockets, task, child>>
    /\ UNCHANGED <<stdin, start, running, history>>
WaitChild ==
    /\ pc = "wait"
    /\ IF child \in {"start", "run"}
       THEN pc' = "accept" /\ UNCHANGED stdout
       ELSE pc' = "over" /\ stdout' = Append(stdout, Term("final", <<>>))
    /\ UNCHANGED <<client, buf, pending, body, sockets, task, child>>
    /\ UNCHANGED <<stdin, start, running, history>>

(* After the 5 s: the connections are closed, which ends who waits on one. *)
CloseAll ==
    /\ pc = "over"
    /\ pc' = "reap"
    /\ client' = None
    /\ backlog' = <<>>
    /\ task' = [c \in Client |-> IF task[c] \in Living THEN "closed" ELSE task[c]]
    /\ UNCHANGED <<buf, pending, body, inbox, outbox, child, pipes, start, running, history>>

Exit ==
    /\ pc = "reap"
    /\ child = "ended"
    /\ pc' = "exit"
    /\ UNCHANGED <<client, buf, pending, body, sockets, task, child>>
    /\ UNCHANGED <<pipes, start, running, history>>
-----------------------------------------------------------------------------
(***************************************************************************)
(* The script.                                                             *)
(***************************************************************************)
(* The child becomes the script, or ends before.                           *)
ChildStarts ==
    /\ child = "start"
    /\ \E h \in Host :
        /\ socket' = Listen(h).socket
        /\ IF Started(h) = "run" THEN child' = "run" /\ UNCHANGED host
           ELSE child' = "ended" /\ host' = <<h>>
    /\ UNCHANGED <<parent, sockets, task, pipes, running, history>>
ChildEnds ==
    /\ child \in {"run", "stop"}
    /\ child' = "ended"
    /\ UNCHANGED <<parent, sockets, task, pipes, start, running, history>>
ChildStops ==
    /\ child = "run"
    /\ FaultHappens
    /\ child' = "stop"
    /\ UNCHANGED <<parent, sockets, task, pipes, start, running>>

(* The script has inherited Porter's stdin and may read from it.           *)
StealStdin ==
    /\ child = "run"
    /\ stdin # <<>>
    /\ FaultHappens
    /\ stdin' = Tail(stdin)
    /\ UNCHANGED <<parent, sockets, task, child, stdout, start, running>>
-----------------------------------------------------------------------------
(***************************************************************************)
(* SWM: the chunks of the attached stdout are decoded one by one.          *)
(***************************************************************************)
(* send_porter_reply: the parts of a frame arrive together.                *)
Send(a) == stdin' = IF pc = "exit" THEN stdin ELSE stdin \o Frame(a)

TakeTerm ==
    /\ stdout # <<>>
    /\ stdout' = Tail(stdout)
    /\ LET t == Head(stdout) IN
        IF t.tag = "final" THEN seen' = TRUE /\ UNCHANGED <<stdin, running>>
        ELSE /\ running' = running \cup {Last(t.from)}
             /\ Send(Answer("OK", Last(t.from)))
             /\ UNCHANGED seen
    /\ UNCHANGED <<parent, sockets, task, child, start, killed, faults>>

(* A term that is spread over two chunks is in neither of them: the first  *)
(* has no whole term left, the second does not start with one.             *)
SplitTerm ==
    /\ stdout # <<>>
    /\ FaultHappens
    /\ stdout' = Tail(stdout)
    /\ UNCHANGED <<parent, sockets, task, child, stdin, start, running>>

(* A frame whose first byte is read before the rest has arrived.           *)
SplitFrame ==
    /\ pc = "stdin"
    /\ StartsFrame
    /\ FaultHappens
    /\ stdin' = Tail(stdin)
    /\ pc' = "wait"
    /\ UNCHANGED <<client, buf, pending, body, sockets, task, child, stdout, start, running>>

TaskEnds(c) ==
    /\ c \in running
    /\ running' = running \ {c}
    /\ \E tag \in {"DONE", "ERR"} : Send(Answer(tag, c))
    /\ UNCHANGED <<parent, sockets, task, child, start, stdout, history>>
-----------------------------------------------------------------------------
ClientStep(c) == Connect(c) \/ WriteHalf(c) \/ WriteRest(c) \/ ReadAnswer(c)
ParentStep == Accept \/ ReadClient \/ ReadStdin \/ ReadBody \/ WaitChild \/ CloseAll \/ Exit

Next ==
    \/ ParentStep \/ TakeTerm \/ ChildStarts \/ ChildEnds
    \/ \E c \in Client : ClientStep(c) \/ TaskEnds(c) \/ Kill(c)
    \/ ChildStops \/ StealStdin \/ SplitTerm \/ SplitFrame

Spec == Init /\ [][Next]_vars

(* Porter's loop, SWM, the tasks and the swm-tasks go on; a script need    *)
(* not end, and need not start its tasks.                                  *)
Fairness ==
    /\ WF_vars(ParentStep)
    /\ WF_vars(ChildStarts)
    /\ WF_vars(TakeTerm)
    /\ \A c \in Client : /\ WF_vars(WriteHalf(c) \/ WriteRest(c) \/ ReadAnswer(c))
                         /\ WF_vars(TaskEnds(c))
LiveSpec == Spec /\ Fairness
-----------------------------------------------------------------------------
TypeOK ==
    /\ pc \in {"accept", "client", "stdin", "body", "wait", "over", "reap", "exit"}
    /\ client \in Client \cup {None}
    /\ pending \subseteq Client
    /\ (pc = "body") = (body # <<>>)
    /\ \A c \in Client : task[c] \in Living \cup {"none", "DONE", "ERR", "killed", "closed"}
    /\ child \in {"start", "run", "stop", "ended"}
    /\ socket \in BOOLEAN
    /\ host # <<>> => host[1] \in Host /\ child = "ended"
    /\ running \subseteq Client
    /\ Range(backlog) \subseteq Client

(* "swm-task stays in the foreground until all ranks finish"               *)
(* (HOWTO/JOBS.md:276): what it is answered is about its own task, also    *)
(* when its request or its reply is lost.  Not once a swm-task was killed: *)
(* its ref outlives the connection, the descriptor is used again, and who  *)
(* ends with its answer leaves a ref behind in turn.                       *)
AnswerIsOwnUnlessKilled ==
    killed = {} => \A c \in Client : \A i \in DOMAIN outbox[c] : outbox[c][i].ref = c

(* What is asked of SWM is what one swm-task wrote, whole, also after one  *)
(* was killed in the middle of its line.                                   *)
RequestsAreWhole ==
    \A i \in DOMAIN stdout : stdout[i].tag = "porter_req" =>
        \E c \in Client : stdout[i].from = <<c, c>>

(* "Porter starts the user script" (HOWTO/CONTAINERS.md:42) for a user who *)
(* is known and whose name is kept, on a disk that takes files no other    *)
(* Porter has left, but for a root that starts the script of another user  *)
(* from a directory made by mkdtemp, which stays its own                   *)
(* (ensure_private_dir).                                                   *)
Startable(h) == h.known /\ h.kept /\ h.disk /\ ~(h.spool /\ h.used) /\ (h.root \/ h.user = "job")
Private(h) == h.root /\ h.user = "job" /\ ~h.spool
ScriptStartsUnlessPrivate == \A i \in DOMAIN host : ~Startable(host[i]) \/ Private(host[i])

(* Every swm-task comes back to the script, however many there are and     *)
(* whoever was killed, unless a fault took a request or an answer away.    *)
ClientsEnd == \A c \in Client :
    (task[c] = "waiting") ~> (task[c] # "waiting" \/ faults > 0)

(* The end of the script reaches SWM, also when replies are still pending. *)
FinalSeen == (child = "ended") ~> (seen \/ faults > 0)
=============================================================================
