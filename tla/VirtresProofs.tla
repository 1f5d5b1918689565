--------------------------- MODULE VirtresProofs ---------------------------
(***************************************************************************)
(* Theorems about Virtres, for every set of tasks, every kind of job and   *)
(* every value of the bounds.                                              *)
(***************************************************************************)
EXTENDS Virtres, SequenceTheorems, TLAPS

(* What the mailbox m holds, as far as the invariants look at a message.   *)
Tags(m) == {<<m[i].kind, m[i].slot>> : i \in 1 .. Len(m)}

(***************************************************************************)
(* The inductive invariant: the types, and one conjunct for each of the    *)
(* two safety properties.                                                  *)
(***************************************************************************)

(* A process of a keep-resources job that has anything to do with a        *)
(* deletion - it was told to destroy, it is about to, it has asked for it - *)
(* has failed.                                                             *)
KeepInv ==
    job.keep => \A t \in Tasks :
        /\ vr[t].action = "destroy" => vr[t].err
        /\ (\E s \in Slot : <<"start_destroying", s>> \in Tags(mail[t])) => vr[t].err
        /\ Deleting(t) => vr[t].err

(* Before the first upload has succeeded nothing that leads to the start   *)
(* of the job has happened: no answer of an upload is "ok", the job is not *)
(* QUEUED, no timetable is computed and no start is on its way.            *)
DataInv ==
    ~uploaded =>
        /\ \A t \in Tasks : <<"ok", "upload">> \notin Tags(mail[t])
        /\ job.state # "Q"
        /\ ~scheduling
        /\ \A i \in 1 .. Len(cq) : cq[i] # "start"
        /\ remote = "idle"

IInv == TypeOK /\ KeepInv /\ DataInv

(***************************************************************************)
(* What one call of a state function may do to the processes: task t       *)
(* becomes new, adds messages with the tags K to its mailbox, and sends    *)
(* the requests in asked.                                                  *)
(***************************************************************************)
Acts(t, new, K, asked) ==
    /\ ProcessOK'
    /\ vr' = [vr EXCEPT ![t] = new]
    /\ \A u \in Tasks : Tags(mail'[u]) \subseteq
            Tags(mail[u]) \cup (IF u = t THEN K ELSE {})
    /\ \A q \in requests' :
            q \in asked \/ \E p \in requests : p.task = q.task /\ p.kind = q.kind

(* A sequence of messages that is empty or one message.                    *)
LEMMA NoTags == Tags(<<>>) = {} /\ <<>> \in Seq(Message)
  BY DEF Tags

LEMMA OneTag ==
    ASSUME NEW m \in Message
    PROVE  Tags(<<m>>) = {<<m.kind, m.slot>>} /\ <<m>> \in Seq(Message)
<1>1. Len(<<m>>) = 1 /\ <<m>>[1] = m
  OBVIOUS
<1>2. 1 .. 1 = {1}
  OBVIOUS
<1>3. Tags(<<m>>) = {<<m.kind, m.slot>>}
  BY <1>1, <1>2 DEF Tags
<1>4. <<m>> \in Seq(Message)
  OBVIOUS
<1> QED BY <1>3, <1>4

(* The messages after a call: those left, then the new ones.               *)
Left(m, over) == [i \in 1 .. (Len(m) - 1) |-> Forget(m[i + 1], m[i + 1].slot, over)]

LEMMA RestOfMail ==
    ASSUME NEW m \in Seq(Message), m # <<>>, NEW over,
           NEW casts \in Seq(Message)
    PROVE  /\ Left(m, over) \o casts \in Seq(Message)
           /\ Tags(Left(m, over) \o casts) \subseteq Tags(m) \cup Tags(casts)
<1> DEFINE rest == Left(m, over)
<1>1. Len(m) \in Nat /\ Len(m) > 0
  BY EmptySeq
<1>2. \A i \in 1 .. (Len(m) - 1) :
        /\ i + 1 \in 1 .. Len(m)
        /\ m[i + 1] \in Message
  BY <1>1
<1>3. \A i \in 1 .. (Len(m) - 1) :
        /\ rest[i] \in Message
        /\ rest[i].kind = m[i + 1].kind
        /\ rest[i].slot = m[i + 1].slot
  BY <1>2 DEF Forget, Message, Left
<1>4. rest \in Seq(Message) /\ Len(rest) = Len(m) - 1
  BY <1>1, <1>3 DEF Left
<1> HIDE DEF rest
<1>5. /\ rest \o casts \in Seq(Message)
      /\ Len(rest \o casts) = Len(rest) + Len(casts)
      /\ \A i \in 1 .. Len(rest) + Len(casts) : (rest \o casts)[i] =
              IF i <= Len(rest) THEN rest[i] ELSE casts[i - Len(rest)]
  BY <1>4, ConcatProperties
<1>6. ASSUME NEW i \in 1 .. Len(rest \o casts)
      PROVE  <<(rest \o casts)[i].kind, (rest \o casts)[i].slot>> \in Tags(m) \cup Tags(casts)
  <2>1. CASE i <= Len(rest)
    <3>1. i \in 1 .. (Len(m) - 1) /\ (rest \o casts)[i] = rest[i]
      BY <1>1, <1>4, <1>5, <2>1
    <3> QED BY <1>2, <1>3, <3>1 DEF Tags
  <2>2. CASE ~(i <= Len(rest))
    <3>1. i - Len(rest) \in 1 .. Len(casts) /\ (rest \o casts)[i] = casts[i - Len(rest)]
      BY <1>1, <1>4, <1>5, <2>2
    <3> QED BY <3>1 DEF Tags
  <2> QED BY <2>1, <2>2
<1>7. Tags(rest \o casts) \subseteq Tags(m) \cup Tags(casts)
  BY <1>6 DEF Tags
<1> QED BY <1>5, <1>7 DEF rest

(* A call of a state function.                                             *)
LEMMA StepActs ==
    ASSUME ProcessOK, NEW t \in Tasks, mail[t] # <<>>,
           NEW new \in Process, new.st # "none",
           NEW casts \in Seq(Message), NEW set \in SUBSET Timer,
           NEW asked \in SUBSET Request, NEW over,
           Step(t, new, casts, set, asked, over)
    PROVE  Acts(t, new, Tags(casts), asked)
<1> DEFINE rest == Left(mail[t], over)
           box == IF new.st \in Dead THEN <<>> ELSE rest \o casts
<1>1. mail[t] \in Seq(Message) /\ mail \in [Tasks -> Seq(Message)]
  BY DEF ProcessOK
<1>2. rest \o casts \in Seq(Message) /\ Tags(rest \o casts) \subseteq Tags(mail[t]) \cup Tags(casts)
  BY <1>1, RestOfMail
<1>3. mail' = [mail EXCEPT ![t] = box]
  BY DEF Step, Left
<1> HIDE DEF rest
<1>4. box \in Seq(Message) /\ Tags(box) \subseteq Tags(mail[t]) \cup Tags(casts)
  BY <1>2, NoTags
<1>5. new.st \in Dead => box = <<>>
  OBVIOUS
<1> HIDE DEF box
<1>6. mail' \in [Tasks -> Seq(Message)]
  BY <1>1, <1>3, <1>4
<1>7. \A u \in Tasks : Tags(mail'[u]) \subseteq Tags(mail[u]) \cup (IF u = t THEN Tags(casts) ELSE {})
  BY <1>1, <1>3, <1>4
<1>8. vr' = [vr EXCEPT ![t] = new] /\ vr' \in [Tasks -> Process]
  BY DEF Step, ProcessOK
<1>9. /\ timers' \in [Tasks -> SUBSET Timer]
      /\ \A u \in Tasks : u # t => timers'[u] = timers[u]
      /\ new.st \in Dead => timers'[t] = {}
  BY DEF Step, ProcessOK
<1>10. \A q \in requests' :
          q \in asked \/ \E p \in requests : p.task = q.task /\ p.kind = q.kind
  BY DEF Step, Forget, ProcessOK, Request
<1>11. requests' \subseteq Request
  BY DEF Step, Forget, ProcessOK, Request
<1>12. \A u \in Tasks : ~Alive(u)' => mail'[u] = <<>> /\ timers'[u] = {}
  <2> SUFFICES ASSUME NEW u \in Tasks, ~Alive(u)' PROVE mail'[u] = <<>> /\ timers'[u] = {}
    OBVIOUS
  <2>1. CASE u = t
    <3>1. new.st \in Dead
      BY <1>8, <2>1 DEF Alive, Process, ProcessOK
    <3> QED BY <1>1, <1>3, <1>5, <1>9, <2>1, <3>1
  <2>2. CASE u # t
    <3>1. ~Alive(u) /\ mail'[u] = mail[u] /\ timers'[u] = timers[u]
      BY <1>1, <1>3, <1>8, <1>9, <2>2 DEF Alive, ProcessOK
    <3> QED BY <3>1 DEF ProcessOK
  <2> QED BY <2>1, <2>2
<1>13. ProcessOK'
  BY <1>6, <1>8, <1>9, <1>11, <1>12 DEF ProcessOK
<1> QED BY <1>7, <1>8, <1>10, <1>13 DEF Acts

(***************************************************************************)
(* When such a call preserves the invariant.                               *)
(***************************************************************************)
LEMMA ActsInv ==
    ASSUME IInv, NEW t \in Tasks, NEW new, NEW K, NEW asked,
           Acts(t, new, K, asked), WorldOK',
           job'.keep = job.keep,
           job.keep /\ vr[t].err => new.err,
           job.keep /\ ~new.err =>
                /\ new.action # "destroy"
                /\ \A s \in Slot : <<"start_destroying", s>> \notin K
                /\ \A q \in asked : q.kind # "delete",
           \A q \in asked : q.task = t,
           <<"ok", "upload">> \notin K,
           job'.state = "Q" => job.state = "Q" \/ uploaded,
           UNCHANGED <<uploaded, scheduling, cq, remote>>
    PROVE  IInv'
<1>1. ProcessOK /\ ProcessOK' /\ t \in Tasks
  BY DEF Acts, IInv, TypeOK
<1>2. vr'[t] = new /\ \A u \in Tasks : u # t => vr'[u] = vr[u]
  BY <1>1 DEF Acts, ProcessOK
<1>3. KeepInv'
  <2> SUFFICES ASSUME job.keep, NEW u \in Tasks
               PROVE  /\ vr'[u].action = "destroy" => vr'[u].err
                      /\ (\E s \in Slot : <<"start_destroying", s>> \in Tags(mail'[u])) => vr'[u].err
                      /\ Deleting(u)' => vr'[u].err
    BY DEF KeepInv
  <2>1. /\ vr[u].action = "destroy" => vr[u].err
        /\ (\E s \in Slot : <<"start_destroying", s>> \in Tags(mail[u])) => vr[u].err
        /\ Deleting(u) => vr[u].err
    BY DEF IInv, KeepInv
  <2>2. vr[u].err => vr'[u].err
    BY <1>2
  <2>3. vr'[u].action = "destroy" => vr'[u].err
    BY <1>2, <2>1
  <2>4. (\E s \in Slot : <<"start_destroying", s>> \in Tags(mail'[u])) => vr'[u].err
    BY <1>2, <2>1, <2>2 DEF Acts
  <2>5. Deleting(u)' => vr'[u].err
    BY <1>2, <2>1, <2>2 DEF Acts, Deleting
  <2> QED BY <2>3, <2>4, <2>5
<1>4. DataInv'
  BY DEF IInv, DataInv, Acts
<1> QED BY <1>1, <1>3, <1>4 DEF IInv, TypeOK

(* A call that leaves the rest of the world alone.                         *)
LEMMA OnlyProcessInv ==
    ASSUME IInv, NEW t \in Tasks, NEW new, NEW K, NEW asked,
           Acts(t, new, K, asked), OnlyProcess,
           vr[t].err => new.err,
           job.keep /\ ~new.err =>
                /\ new.action # "destroy"
                /\ \A s \in Slot : <<"start_destroying", s>> \notin K
                /\ \A q \in asked : q.kind # "delete",
           \A q \in asked : q.task = t,
           <<"ok", "upload">> \notin K
    PROVE  IInv'
<1>1. WorldOK'
  BY DEF IInv, TypeOK, WorldOK, OnlyProcess, conf, queues, world
<1> QED BY <1>1, ActsInv DEF OnlyProcess, conf, queues, world

(***************************************************************************)
(* The kinds of calls the state functions are made of.                     *)
(***************************************************************************)
LEMMA InProcess ==
    ASSUME ProcessOK, NEW t \in Tasks, NEW s \in Working \cup Dead
    PROVE  /\ In(t, s) \in Process
           /\ In(t, s).st = s
           /\ In(t, s).action = vr[t].action
           /\ In(t, s).err = vr[t].err
  BY DEF ProcessOK, Process, In

LEMMA TakesMail ==
    ASSUME NEW t, NEW c, Takes(t, c)
    PROVE  Alive(t) /\ mail[t] # <<>>
  BY DEF Takes

LEMMA HeadTag ==
    ASSUME ProcessOK, NEW t \in Tasks, mail[t] # <<>>
    PROVE  /\ Head(mail[t]) \in Message
           /\ <<Head(mail[t]).kind, Head(mail[t]).slot>> \in Tags(mail[t])
<1>1. mail[t] \in Seq(Message)
  BY DEF ProcessOK
<1>2. Len(mail[t]) \in Nat /\ Len(mail[t]) > 0
  BY <1>1, EmptySeq
<1>3. 1 \in 1 .. Len(mail[t]) /\ Head(mail[t]) = mail[t][1]
  BY <1>1, <1>2
<1> QED BY <1>1, <1>3 DEF Tags

LEMMA MsgType ==
    ASSUME NEW k \in Timer \cup RelocatorEvent \cup SelfCast
    PROVE  /\ <<Msg(k)>> \in Seq(Message)
           /\ Tags(<<Msg(k)>>) = {<<k, "none">>}
<1>1. Msg(k) \in Message /\ Msg(k).kind = k /\ Msg(k).slot = "none"
  BY DEF Msg, Message, Slot
<1> QED BY <1>1, OneTag

LEMMA GotoActs ==
    ASSUME ProcessOK, NEW t \in Tasks, mail[t] # <<>>, NEW s \in Working,
           NEW casts \in Seq(Message), NEW set \in SUBSET Timer,
           Goto(t, s, casts, set)
    PROVE  Acts(t, In(t, s), Tags(casts), {})
<1>1. In(t, s) \in Process /\ In(t, s).st # "none"
  BY InProcess DEF Working
<1> QED BY <1>1, StepActs DEF Goto

LEMMA EndActs ==
    ASSUME ProcessOK, NEW t \in Tasks, mail[t] # <<>>, NEW s \in Dead,
           Step(t, In(t, s), <<>>, {}, {}, {})
    PROVE  Acts(t, In(t, s), {}, {})
<1>1. In(t, s) \in Process /\ In(t, s).st # "none"
  BY InProcess DEF Dead
<1> QED BY <1>1, StepActs, NoTags

LEMMA AskGateActs ==
    ASSUME ProcessOK, NEW t \in Tasks, mail[t] # <<>>, NEW s \in Working,
           NEW k \in GateRequest, AskGate(t, s, k)
    PROVE  Acts(t, In(t, s), {}, {Ask(t, k)})
<1>1. In(t, s) \in Process /\ In(t, s).st # "none"
  BY InProcess DEF Working
<1>2. {Ask(t, k)} \in SUBSET Request
  BY DEF Ask, Request
<1> QED BY <1>1, <1>2, StepActs, NoTags DEF AskGate

(* A call that changes the state of the process only, and neither prepares *)
(* nor asks for a deletion.                                                *)
LEMMA InInv ==
    ASSUME IInv, NEW t \in Tasks, NEW s \in Working \cup Dead, NEW K, NEW asked,
           Acts(t, In(t, s), K, asked), OnlyProcess,
           \A r \in Slot : <<"start_destroying", r>> \notin K,
           <<"ok", "upload">> \notin K,
           \A q \in asked : q.task = t /\ q.kind # "delete"
    PROVE  IInv'
<1>1. In(t, s).action = vr[t].action /\ In(t, s).err = vr[t].err
  BY InProcess DEF IInv, TypeOK
<1>2. job.keep /\ ~vr[t].err => vr[t].action # "destroy"
  BY DEF IInv, KeepInv
<1> QED BY <1>1, <1>2, OnlyProcessInv

LEMMA GotoInv ==
    ASSUME IInv, NEW t \in Tasks, mail[t] # <<>>, NEW s \in Working,
           NEW set \in SUBSET Timer, NEW casts, OnlyProcess,
           casts = <<>> \/ \E k \in {"ssh_prov_connected", "ssh_swm_connected"} : casts = <<Msg(k)>>,
           Goto(t, s, casts, set)
    PROVE  IInv'
<1>1. /\ casts \in Seq(Message)
      /\ \A r \in Slot : <<"start_destroying", r>> \notin Tags(casts)
      /\ <<"ok", "upload">> \notin Tags(casts)
  BY NoTags, MsgType DEF SelfCast
<1>2. Acts(t, In(t, s), Tags(casts), {})
  BY <1>1, GotoActs DEF IInv, TypeOK
<1> QED BY <1>1, <1>2, InInv

LEMMA EndInv ==
    ASSUME IInv, NEW t \in Tasks, mail[t] # <<>>, Stop(t) \/ Crash(t), OnlyProcess
    PROVE  IInv'
<1>1. PICK s \in Dead : Step(t, In(t, s), <<>>, {}, {}, {})
  BY DEF Stop, Crash, Dead
<1>2. Acts(t, In(t, s), {}, {})
  BY <1>1, EndActs DEF IInv, TypeOK
<1> QED BY <1>2, InInv

LEMMA AskGateInv ==
    ASSUME IInv, NEW t \in Tasks, mail[t] # <<>>, NEW s \in Working,
           NEW k \in GateRequest, AskGate(t, s, k), OnlyProcess,
           k = "delete" => (job.keep => vr[t].err)
    PROVE  IInv'
<1>1. Acts(t, In(t, s), {}, {Ask(t, k)})
  BY AskGateActs DEF IInv, TypeOK
<1>2. In(t, s).action = vr[t].action /\ In(t, s).err = vr[t].err
  BY InProcess DEF IInv, TypeOK
<1>3. job.keep /\ ~vr[t].err => vr[t].action # "destroy"
  BY DEF IInv, KeepInv
<1>4. Ask(t, k).task = t /\ Ask(t, k).kind = k
  BY DEF Ask
<1> QED BY <1>1, <1>2, <1>3, <1>4, OnlyProcessInv

(***************************************************************************)
(* The clauses that change nothing but their process.                      *)
(***************************************************************************)
LEMMA OnlyProcessActions ==
    ASSUME IInv, NEW t \in Tasks,
           \/ PartitionAbsent(t) \/ PartitionExists(t) \/ PartitionSpawned(t)
           \/ PartitionNotUp(t) \/ WorkerUploaded(t) \/ WorkerNotReady(t)
           \/ SwmConnected(t) \/ PartitionDeleted(t) \/ JobFinished(t)
           \/ SshReady(t) \/ NotReady(t) \/ NodeGone(t) \/ TryWorkerUpload(t)
           \/ PartFetch(t) \/ Ignore(t)
    PROVE  IInv'
<1>1. ProcessOK /\ (Alive(t) => vr[t].st \in Working)
  BY DEF IInv, TypeOK, Alive
<1>2. CASE PartitionAbsent(t)
  <2>1. mail[t] # <<>> /\ OnlyProcess
    BY <1>2, TakesMail DEF PartitionAbsent
  <2>2. CASE AskGate(t, "creating", "create")
    BY <2>1, <2>2, AskGateInv DEF Working, GateRequest
  <2>3. CASE Stop(t)
    BY <2>1, <2>3, EndInv
  <2> QED BY <1>2, <2>2, <2>3 DEF PartitionAbsent
<1>3. CASE PartitionExists(t)
  <2>1. mail[t] # <<>> /\ OnlyProcess
    BY <1>3, TakesMail DEF PartitionExists
  <2>2. CASE Goto(t, "creating", <<>>, {"part_fetch"})
    BY <2>1, <2>2, GotoInv DEF Working, Timer
  <2>3. CASE vr[t].action # "create" /\ AskGate(t, "destroying", "delete")
    <3>1. vr[t].action = "destroy"
      BY <1>1, <2>3 DEF ProcessOK, Process
    <3>2. job.keep => vr[t].err
      BY <3>1 DEF IInv, KeepInv
    <3> QED BY <2>1, <2>3, <3>2, AskGateInv DEF Working, GateRequest
  <2> QED BY <1>3, <2>2, <2>3 DEF PartitionExists
<1>4. CASE PartitionSpawned(t)
  BY <1>4, TakesMail, GotoInv DEF PartitionSpawned, Working, Timer
<1>5. CASE PartitionNotUp(t)
  BY <1>5, TakesMail, GotoInv DEF PartitionNotUp, Working, Timer
<1>6. CASE WorkerUploaded(t)
  BY <1>6, TakesMail, GotoInv DEF WorkerUploaded, Working, Timer
<1>7. CASE WorkerNotReady(t)
  BY <1>7, TakesMail, GotoInv DEF WorkerNotReady, Working, Timer
<1>8. CASE SwmConnected(t)
  <2>1. mail[t] # <<>> /\ OnlyProcess
    BY <1>8, TakesMail DEF SwmConnected
  <2>2. In(t, "creating") \in Process /\ In(t, "creating").st # "none"
    BY <1>1, InProcess DEF Working
  <2>3. Acts(t, In(t, "creating"), {}, {})
    BY <1>1, <1>8, <2>1, <2>2, StepActs, NoTags DEF SwmConnected, Timer
  <2> QED BY <2>1, <2>3, InInv DEF Working
<1>9. CASE PartitionDeleted(t)
  BY <1>9, TakesMail, EndInv DEF PartitionDeleted
<1>10. CASE JobFinished(t)
  <2> DEFINE asked == IF vr[t].mgr /\ ents THEN Downloads(t) ELSE {}
  <2>1. mail[t] # <<>> /\ OnlyProcess
    BY <1>10, TakesMail DEF JobFinished
  <2>2. /\ asked \in SUBSET Request
        /\ \A q \in asked : q.task = t /\ q.kind # "delete"
    <3>1. \A l \in BOOLEAN, k \in Transfer :
             LET q == [task |-> t, kind |-> k, live |-> l]
             IN  q \in Request /\ q.task = t /\ q.kind # "delete"
      BY DEF Request, Transfer
    <3>2. \A q \in asked : \E l \in BOOLEAN, k \in Transfer :
             q = [task |-> t, kind |-> k, live |-> l]
      BY DEF IInv, TypeOK, WorldOK, Downloads, Ask, Transfer
    <3> QED BY <3>1, <3>2
  <2>3. In(t, "downloading") \in Process /\ In(t, "downloading").st # "none"
    BY <1>1, InProcess DEF Working
  <2>4. Step(t, In(t, "downloading"), <<>>, {}, asked, {"download"})
    BY <1>10 DEF JobFinished
  <2> HIDE DEF asked
  <2>5. Acts(t, In(t, "downloading"), {}, asked)
    BY <1>1, <2>1, <2>2, <2>3, <2>4, StepActs, NoTags
  <2> QED BY <2>1, <2>2, <2>5, InInv DEF Working
<1>11. CASE SshReady(t)
  <2>1. mail[t] # <<>> /\ OnlyProcess
    BY <1>11, TakesMail DEF SshReady
  <2>2. PICK k \in {"ssh_check_prov_port", "ssh_check_swm_port"} :
           Goto(t, "creating", <<Msg(Connected(k))>>, {})
    BY <1>11 DEF SshReady
  <2>3. Connected(k) \in {"ssh_prov_connected", "ssh_swm_connected"}
    BY DEF Connected
  <2> QED BY <2>1, <2>2, <2>3, GotoInv DEF Working
<1>12. CASE NotReady(t)
  <2>1. mail[t] # <<>> /\ OnlyProcess /\ vr[t].st \in Working
    BY <1>1, <1>12, TakesMail DEF NotReady
  <2>2. PICK k \in {"ssh_check_prov_port", "ssh_check_swm_port", "part_check"} :
           Goto(t, IF k = "part_check" THEN vr[t].st ELSE "creating", <<>>, {k})
    BY <1>12 DEF NotReady
  <2>3. "creating" \in Working /\ {k} \in SUBSET Timer
    BY DEF Working, Timer
  <2> QED BY <2>1, <2>2, <2>3, GotoInv
<1>13. CASE NodeGone(t)
  BY <1>13, TakesMail, EndInv DEF NodeGone
<1>14. CASE TryWorkerUpload(t)
  BY <1>14, TakesMail, GotoInv DEF TryWorkerUpload, Working
<1>15. CASE PartFetch(t)
  BY <1>1, <1>15, TakesMail, AskGateInv DEF PartFetch, GateRequest
<1>16. CASE Ignore(t)
  BY <1>1, <1>16, TakesMail, GotoInv DEF Ignore
<1> QED BY <1>2, <1>3, <1>4, <1>5, <1>6, <1>7, <1>8, <1>9, <1>10, <1>11, <1>12,
           <1>13, <1>14, <1>15, <1>16

(***************************************************************************)
(* The clauses that also change the job, its row or the configuration.     *)
(***************************************************************************)
LEMMA ActivateInv == ASSUME IInv, NEW t \in Tasks, Activate(t) PROVE IInv'
<1>1. ProcessOK /\ WorldOK /\ mail[t] # <<>>
  BY TakesMail DEF IInv, TypeOK, Activate
<1>2. CASE inputs
  <2>1. AskGate(t, "validating", "exists") /\ OnlyProcess
    BY <1>2 DEF Activate, Elsewhere, OnlyProcess
  <2> QED BY <1>1, <2>1, AskGateInv DEF Working, GateRequest
<1>3. CASE ~inputs
  <2> DEFINE new == [In(t, "stopped") EXCEPT !.err = TRUE]
  <2>1. In(t, "stopped") \in Process /\ In(t, "stopped").st = "stopped"
    BY <1>1, InProcess DEF Dead
  <2>2. new \in Process /\ new.st # "none" /\ new.err
    BY <2>1 DEF Process
  <2>3. Step(t, new, <<>>, {}, {}, {})
    BY <1>3 DEF Activate
  <2> HIDE DEF new
  <2>4. Acts(t, new, {}, {})
    BY <1>1, <2>2, <2>3, StepActs, NoTags
  <2>5. WorldOK' /\ job'.keep = job.keep /\ job'.state = "E"
    BY <1>1, <1>3 DEF Activate, SetState, Elsewhere, queues, world, WorldOK
  <2>6. UNCHANGED <<uploaded, scheduling, cq, remote>>
    BY DEF Activate, Elsewhere, queues, world
  <2> QED BY <2>2, <2>4, <2>5, <2>6, ActsInv
<1> QED BY <1>2, <1>3

LEMMA PartitionUpInv == ASSUME IInv, NEW t \in Tasks, PartitionUp(t) PROVE IInv'
<1> DEFINE new == [In(t, "creating") EXCEPT !.mgr = TRUE]
<1>1. ProcessOK /\ WorldOK /\ mail[t] # <<>>
  BY TakesMail DEF IInv, TypeOK, PartitionUp
<1>2. /\ In(t, "creating") \in Process /\ In(t, "creating").st = "creating"
      /\ In(t, "creating").action = vr[t].action /\ In(t, "creating").err = vr[t].err
  BY <1>1, InProcess DEF Working
<1>3. new \in Process /\ new.st # "none" /\ new.action = vr[t].action /\ new.err = vr[t].err
  BY <1>2 DEF Process
<1>4. Step(t, new, <<>>, {"ssh_check_prov_port"}, {}, {})
  BY DEF PartitionUp
<1> HIDE DEF new
<1>5. Acts(t, new, {}, {})
  BY <1>1, <1>3, <1>4, StepActs, NoTags DEF Timer
<1>6. WorldOK' /\ job'.keep = job.keep /\ job'.state = job.state
  BY <1>1 DEF PartitionUp, Elsewhere, queues, world, WorldOK
<1>7. UNCHANGED <<uploaded, scheduling, cq, remote>>
  BY DEF PartitionUp, Elsewhere, queues, world
<1>8. job.keep /\ ~vr[t].err => vr[t].action # "destroy"
  BY DEF IInv, KeepInv
<1> QED BY <1>3, <1>5, <1>6, <1>7, <1>8, ActsInv

(* fail_partition_creation, fail_job_and_destroy.                          *)
LEMMA FailInv ==
    ASSUME IInv, NEW t \in Tasks, mail[t] # <<>>, NEW over,
           Step(t, [In(t, "destroying") EXCEPT !.err = TRUE],
                <<Msg("start_destroying")>>, {}, {}, over),
           SetState("E"), row' \in {row, None}, ents' = ents,
           UNCHANGED <<queues, cloud, remote, inputs, uploaded>>
    PROVE  IInv'
<1> DEFINE new == [In(t, "destroying") EXCEPT !.err = TRUE]
<1>1. ProcessOK /\ WorldOK
  BY DEF IInv, TypeOK
<1>2. In(t, "destroying") \in Process /\ In(t, "destroying").st = "destroying"
  BY <1>1, InProcess DEF Working
<1>3. new \in Process /\ new.st # "none" /\ new.err
  BY <1>2 DEF Process
<1>4. Acts(t, new, {<<"start_destroying", "none">>}, {})
  <2>1. Step(t, new, <<Msg("start_destroying")>>, {}, {}, over)
    OBVIOUS
  <2> HIDE DEF new
  <2>2. /\ <<Msg("start_destroying")>> \in Seq(Message)
        /\ Tags(<<Msg("start_destroying")>>) = {<<"start_destroying", "none">>}
    BY MsgType DEF SelfCast
  <2> QED BY <1>1, <1>3, <2>1, <2>2, StepActs
<1> HIDE DEF new
<1>5. WorldOK' /\ job'.keep = job.keep /\ job'.state = "E"
  BY <1>1 DEF SetState, queues, WorldOK
<1> QED BY <1>3, <1>4, <1>5, ActsInv DEF queues

LEMMA FailActions ==
    ASSUME IInv, NEW t \in Tasks, PartitionFailed(t) \/ UploadFailed(t) \/ WorkerFails(t)
    PROVE  IInv'
<1>1. CASE PartitionFailed(t)
  BY <1>1, TakesMail, FailInv DEF PartitionFailed, FailJob, Elsewhere, world
<1>2. CASE UploadFailed(t)
  BY <1>2, TakesMail, FailInv DEF UploadFailed, FailJob, Elsewhere, world
<1>3. CASE WorkerFails(t)
  BY <1>3, TakesMail, FailInv DEF WorkerFails
<1> QED BY <1>1, <1>2, <1>3

LEMMA DataUploadedInv == ASSUME IInv, NEW t \in Tasks, DataUploaded(t) PROVE IInv'
<1>1. ProcessOK /\ WorldOK /\ mail[t] # <<>>
  BY TakesMail DEF IInv, TypeOK, DataUploaded
<1>2. Clause(vr[t], Head(mail[t])) = "uploaded"
  BY DEF DataUploaded, Takes
<1>3. Head(mail[t]).kind = "ok" /\ Head(mail[t]).slot = "upload"
  BY <1>2 DEF Clause, Timer
<1>4. uploaded
  <2>1. <<"ok", "upload">> \in Tags(mail[t])
    BY <1>1, <1>3, HeadTag
  <2> QED BY <1>1, <2>1 DEF IInv, DataInv, WorldOK
<1>5. /\ In(t, "running") \in Process /\ In(t, "running").st = "running"
      /\ In(t, "running").action = vr[t].action /\ In(t, "running").err = vr[t].err
  BY <1>1, InProcess DEF Working
<1>6. Acts(t, In(t, "running"), {}, {})
  BY <1>1, <1>5, StepActs, NoTags DEF DataUploaded
<1>7. WorldOK' /\ job'.keep = job.keep
  BY <1>1 DEF DataUploaded, SetState, Elsewhere, queues, world, WorldOK
<1>8. job.keep /\ ~vr[t].err => vr[t].action # "destroy"
  BY DEF IInv, KeepInv
<1>9. UNCHANGED <<uploaded, scheduling, cq, remote>>
  BY DEF DataUploaded, Elsewhere, queues, world
<1> QED BY <1>4, <1>5, <1>6, <1>7, <1>8, <1>9, ActsInv

(* keep_resources_and_stop.                                                *)
LEMMA KeepAndStopInv ==
    ASSUME IInv, NEW t \in Tasks, mail[t] # <<>>, KeepAndStop(t), Elsewhere
    PROVE  IInv'
<1>1. ProcessOK /\ WorldOK
  BY DEF IInv, TypeOK
<1>2. /\ In(t, "stopped").action = vr[t].action
      /\ In(t, "stopped").err = vr[t].err
  BY <1>1, InProcess DEF Dead
<1>3. Acts(t, In(t, "stopped"), {}, {})
  BY <1>1, EndActs DEF KeepAndStop, Stop, Dead
<1>4. WorldOK'
  BY <1>1 DEF KeepAndStop, Elsewhere, queues, world, WorldOK
<1>5. job.keep /\ ~vr[t].err => vr[t].action # "destroy"
  BY DEF IInv, KeepInv
<1>6. job' = job /\ UNCHANGED <<uploaded, scheduling, cq, remote>>
  BY DEF KeepAndStop, Elsewhere, queues, world
<1> QED BY <1>2, <1>3, <1>4, <1>5, <1>6, ActsInv

LEMMA DownloadedInv == ASSUME IInv, NEW t \in Tasks, DataDownloaded(t) PROVE IInv'
<1>1. ProcessOK /\ mail[t] # <<>> /\ Elsewhere
  BY TakesMail DEF IInv, TypeOK, DataDownloaded
<1>2. CASE job.keep
  BY <1>1, <1>2, KeepAndStopInv DEF DataDownloaded
<1>3. CASE ~job.keep
  <2>1. In(t, "destroying") \in Process /\ In(t, "destroying").st # "none"
    BY <1>1, InProcess DEF Working
  <2>2. In(t, "destroying").err = vr[t].err
    BY <1>1, InProcess DEF Working
  <2>3. Acts(t, In(t, "destroying"), {<<"start_destroying", "none">>}, {})
    BY <1>1, <1>3, <2>1, StepActs, MsgType DEF DataDownloaded, SelfCast
  <2>4. OnlyProcess
    BY <1>3 DEF DataDownloaded, Elsewhere, OnlyProcess
  <2> QED BY <1>3, <2>2, <2>3, <2>4, OnlyProcessInv
<1> QED BY <1>2, <1>3

(* A process that asks for the deletion: the job is not to keep its        *)
(* resources, or the process has failed.                                   *)
LEMMA DeleteInv ==
    ASSUME IInv, NEW t \in Tasks, mail[t] # <<>>,
           Step(t, [In(t, "destroying") EXCEPT !.action = "destroy"], <<>>, {},
                {Ask(t, "delete")}, {"gate"}),
           job.keep => vr[t].err,
           UNCHANGED <<job, row, queues, world>>, ents' \in BOOLEAN
    PROVE  IInv'
<1> DEFINE new == [In(t, "destroying") EXCEPT !.action = "destroy"]
<1>1. ProcessOK /\ WorldOK
  BY DEF IInv, TypeOK
<1>2. /\ In(t, "destroying") \in Process /\ In(t, "destroying").st = "destroying"
      /\ In(t, "destroying").err = vr[t].err
  BY <1>1, InProcess DEF Working
<1>3. new \in Process /\ new.st # "none" /\ new.err = vr[t].err
  BY <1>2 DEF Process
<1>4. {Ask(t, "delete")} \in SUBSET Request /\ Ask(t, "delete").task = t
  BY DEF Ask, Request, GateRequest
<1> HIDE DEF new
<1>5. Acts(t, new, {}, {Ask(t, "delete")})
  BY <1>1, <1>3, <1>4, StepActs, NoTags DEF new
<1>6. WorldOK'
  BY <1>1 DEF queues, world, WorldOK
<1> QED BY <1>3, <1>4, <1>5, <1>6, ActsInv DEF queues, world

LEMMA StartDestroyingInv == ASSUME IInv, NEW t \in Tasks, StartDestroying(t) PROVE IInv'
<1>1. ProcessOK /\ mail[t] # <<>>
  BY TakesMail DEF IInv, TypeOK, StartDestroying
<1>2. Clause(vr[t], Head(mail[t])) = "start_destroying"
  BY DEF StartDestroying, Takes
<1>3. Head(mail[t]).kind = "start_destroying"
  BY <1>2 DEF Clause, Timer
<1>4. job.keep => vr[t].err
  <2>1. \E s \in Slot : <<"start_destroying", s>> \in Tags(mail[t])
    BY <1>1, <1>3, HeadTag DEF Message
  <2> QED BY <2>1 DEF IInv, KeepInv
<1> QED BY <1>1, <1>4, DeleteInv DEF StartDestroying, Elsewhere

LEMMA DestroyInv == ASSUME IInv, NEW t \in Tasks, Destroy(t) PROVE IInv'
<1>1. WorldOK /\ mail[t] # <<>> /\ Elsewhere
  BY TakesMail DEF IInv, TypeOK, Destroy
<1>2. CASE job.keep
  BY <1>1, <1>2, KeepAndStopInv DEF Destroy
<1>3. CASE ~job.keep
  BY <1>1, <1>3, DeleteInv DEF Destroy, Elsewhere, conf, WorldOK
<1> QED BY <1>2, <1>3

LEMMA CancelKeepInv == ASSUME IInv, NEW t \in Tasks, CancelKeep(t) PROVE IInv'
  BY TakesMail, KeepAndStopInv DEF CancelKeep

LEMMA PartReadyInv == ASSUME IInv, NEW t \in Tasks, PartReady(t) PROVE IInv'
<1>1. ProcessOK /\ WorldOK /\ mail[t] # <<>>
  BY TakesMail DEF IInv, TypeOK, PartReady
<1>2. CASE inputs
  <2>1. /\ In(t, "uploading") \in Process /\ In(t, "uploading").st # "none"
        /\ In(t, "uploading").action = vr[t].action /\ In(t, "uploading").err = vr[t].err
    BY <1>1, InProcess DEF Working
  <2>2. /\ {Ask(t, "upload")} \in SUBSET Request
        /\ Ask(t, "upload").task = t /\ Ask(t, "upload").kind = "upload"
    BY DEF Ask, Request, Transfer
  <2>3. Acts(t, In(t, "uploading"), {}, {Ask(t, "upload")})
    BY <1>1, <1>2, <2>1, <2>2, StepActs, NoTags DEF PartReady
  <2>4. WorldOK' /\ job'.keep = job.keep /\ job'.state = "T"
    BY <1>1, <1>2 DEF PartReady, SetState, Elsewhere, queues, world, WorldOK
  <2>5. job.keep /\ ~vr[t].err => vr[t].action # "destroy"
    BY DEF IInv, KeepInv
  <2>6. UNCHANGED <<uploaded, scheduling, cq, remote>>
    BY DEF PartReady, Elsewhere, queues, world
  <2> QED BY <2>1, <2>2, <2>3, <2>4, <2>5, <2>6, ActsInv
<1>3. CASE ~inputs
  BY <1>1, <1>3, FailInv DEF PartReady, FailJob, Elsewhere, world
<1> QED BY <1>2, <1>3

LEMMA HandleInv == ASSUME IInv, NEW t \in Tasks, Handle(t) \/ WorkerFails(t) PROVE IInv'
  BY OnlyProcessActions, ActivateInv, PartitionUpInv, FailActions, DataUploadedInv,
     DownloadedInv, StartDestroyingInv, DestroyInv, CancelKeepInv, PartReadyInv
  DEF Handle

(***************************************************************************)
(* A message that arrives in a mailbox from outside.                       *)
(***************************************************************************)
Arrives(u, m) ==
    /\ \A w \in Tasks : Tags(mail'[w]) \subseteq
            Tags(mail[w]) \cup (IF w = u THEN {<<m.kind, m.slot>>} ELSE {})
    /\ mail' \in [Tasks -> Seq(Message)]
    /\ \A w \in Tasks : ~Alive(w) => mail'[w] = mail[w]

LEMMA AppendTags ==
    ASSUME NEW s \in Seq(Message), NEW m \in Message
    PROVE  /\ Append(s, m) \in Seq(Message)
           /\ Tags(Append(s, m)) \subseteq Tags(s) \cup {<<m.kind, m.slot>>}
<1>1. /\ Append(s, m) \in Seq(Message)
      /\ Len(Append(s, m)) = Len(s) + 1 /\ Len(s) \in Nat
      /\ \A i \in 1 .. Len(s) : Append(s, m)[i] = s[i]
      /\ Append(s, m)[Len(s) + 1] = m
  BY AppendProperties
<1>2. \A i \in 1 .. Len(Append(s, m)) : i \in 1 .. Len(s) \/ i = Len(s) + 1
  BY <1>1
<1> QED BY <1>1, <1>2 DEF Tags

LEMMA SendArrives ==
    ASSUME ProcessOK, NEW u \in Tasks, NEW m \in Message, Send(u, m)
    PROVE  Arrives(u, m)
<1>1. mail \in [Tasks -> Seq(Message)] /\ mail[u] \in Seq(Message)
  BY DEF ProcessOK
<1> DEFINE box == IF Alive(u) THEN Append(mail[u], m) ELSE mail[u]
<1>2. mail' = [mail EXCEPT ![u] = box]
  BY DEF Send
<1>3. box \in Seq(Message) /\ Tags(box) \subseteq Tags(mail[u]) \cup {<<m.kind, m.slot>>}
  BY <1>1, AppendTags
<1>4. ~Alive(u) => box = mail[u]
  OBVIOUS
<1> HIDE DEF box
<1> QED BY <1>1, <1>2, <1>3, <1>4 DEF Arrives

LEMMA ArrivesInv ==
    ASSUME IInv, NEW u \in Tasks, NEW m \in Message, Arrives(u, m),
           vr' = vr, timers' = timers, requests' \subseteq requests, WorldOK',
           job'.keep = job.keep, m.kind # "start_destroying",
           m.kind = "ok" /\ m.slot = "upload" => uploaded',
           uploaded => uploaded', job'.state = "Q" => job.state = "Q",
           remote = "idle" => remote' = "idle",
           UNCHANGED <<scheduling, cq>>
    PROVE  IInv'
<1>1. ProcessOK'
  BY DEF IInv, TypeOK, ProcessOK, Arrives, Alive
<1>2. KeepInv'
  <2> SUFFICES ASSUME job.keep, NEW w \in Tasks
               PROVE  /\ vr[w].action = "destroy" => vr[w].err
                      /\ (\E s \in Slot : <<"start_destroying", s>> \in Tags(mail'[w])) => vr[w].err
                      /\ Deleting(w)' => vr[w].err
    BY DEF KeepInv
  <2> QED BY DEF IInv, KeepInv, Arrives, Deleting
<1>3. DataInv'
  BY DEF IInv, DataInv, Arrives
<1> QED BY <1>1, <1>2, <1>3 DEF IInv, TypeOK

(* An answer of a gate child or of a transfer.                             *)
LEMMA AnswersInv ==
    ASSUME IInv, NEW q \in requests, NEW k \in GateAnswer \cup {"ok", "failed"},
           Answers(q, k), WorldOK',
           k = "ok" /\ q.kind = "upload" => uploaded',
           uploaded => uploaded', remote = "idle" => remote' = "idle"
    PROVE  IInv'
<1> DEFINE m == [kind |-> k, slot |-> SlotOf(q.kind), live |-> q.live]
<1>1. q \in Request /\ q.task \in Tasks /\ ProcessOK
  BY DEF IInv, TypeOK, ProcessOK, Request
<1>2. SlotOf(q.kind) \in Slot
  BY DEF SlotOf, Slot
<1>3. m \in Message /\ m.kind = k /\ m.slot = SlotOf(q.kind)
  BY <1>1, <1>2 DEF Request, Message
<1>4. m.slot = "upload" => q.kind = "upload"
  BY <1>3 DEF SlotOf
<1>5. m.kind # "start_destroying"
  BY <1>3 DEF GateAnswer
<1>6. Send(q.task, m)
  BY DEF Answers
<1> HIDE DEF m
<1>7. Arrives(q.task, m)
  BY <1>1, <1>3, <1>6, SendArrives
<1>8. /\ vr' = vr /\ timers' = timers /\ requests' \subseteq requests
      /\ job' = job /\ UNCHANGED <<scheduling, cq>>
  BY DEF Answers, conf, queues
<1> QED BY <1>1, <1>3, <1>4, <1>5, <1>7, <1>8, ArrivesInv

LEMMA AnswerActions ==
    ASSUME IInv, NEW q \in requests,
           GateAnswers(q) \/ GateFails(q) \/ TransferEnds(q) \/ TransferFails(q)
    PROVE  IInv'
<1>1. WorldOK /\ ProcessOK /\ q \in Request
  BY DEF IInv, TypeOK, ProcessOK
<1>2. CASE GateAnswers(q)
  <2>1. AnswerTo(q.kind) \in GateAnswer
    BY <1>1, <1>2 DEF GateAnswers, AnswerTo, GateRequest, GateAnswer, WorldOK
  <2>2. Effect(q.kind) \in {"absent", "building", "up"}
    BY <1>1 DEF Effect, WorldOK
  <2>3. Answers(q, AnswerTo(q.kind)) /\ UNCHANGED <<conf, queues>>
    BY <1>2 DEF GateAnswers, Answers
  <2>4. WorldOK' /\ uploaded' = uploaded /\ (remote = "idle" => remote' = "idle")
    BY <1>1, <1>2, <2>2, <2>3 DEF GateAnswers, CloudBecomes, WorldOK, conf, queues
  <2>5. AnswerTo(q.kind) # "ok"
    BY <2>1 DEF GateAnswer
  <2> QED BY <2>1, <2>3, <2>4, <2>5, AnswersInv
<1>3. CASE GateFails(q)
  <2>1. PICK c \in {cloud, Effect(q.kind)} : CloudBecomes(c)
    BY <1>3 DEF GateFails
  <2>2. PICK k \in {"partition_absent", "permanent", "transient", "exit"} : Answers(q, k)
    BY <1>3 DEF GateFails
  <2>3. c \in {"absent", "building", "up"}
    BY <1>1 DEF Effect, WorldOK
  <2>4. WorldOK' /\ uploaded' = uploaded /\ (remote = "idle" => remote' = "idle")
    BY <1>1, <1>3, <2>1, <2>2, <2>3 DEF GateFails, CloudBecomes, WorldOK, Answers, conf, queues
  <2>5. k \in GateAnswer /\ k # "ok"
    BY DEF GateAnswer
  <2> QED BY <2>2, <2>4, <2>5, AnswersInv
<1>4. CASE TransferEnds(q)
  <2>1. PICK k \in {"ok", "failed"} : Answers(q, k) /\ (k = "ok" => cloud = "up")
    BY <1>4 DEF TransferEnds
  <2>2. WorldOK' /\ remote' = remote
    BY <1>1, <1>4, <2>1 DEF TransferEnds, WorldOK, Answers, conf, queues
  <2>3. (k = "ok" /\ q.kind = "upload" => uploaded') /\ (uploaded => uploaded')
    BY <1>4, <2>1 DEF TransferEnds
  <2> QED BY <2>1, <2>2, <2>3, AnswersInv
<1>5. CASE TransferFails(q)
  <2>1. Answers(q, "failed") /\ uploaded' = uploaded /\ remote' = remote
    BY <1>5 DEF TransferFails
  <2>2. WorldOK'
    BY <1>1, <1>5, <2>1 DEF TransferFails, WorldOK, Answers, conf, queues
  <2> QED BY <2>1, <2>2, AnswersInv
<1> QED BY <1>2, <1>3, <1>4, <1>5

LEMMA FireInv ==
    ASSUME IInv, NEW t \in Tasks, NEW k \in Timer, Fire(t, k)
    PROVE  IInv'
<1>1. ProcessOK /\ WorldOK
  BY DEF IInv, TypeOK
<1>2. /\ Msg(k) \in Message /\ Msg(k).kind = k /\ Msg(k).slot = "none"
      /\ k \notin {"start_destroying", "ok"}
  BY DEF Msg, Message, Slot, Timer
<1>3. mail[t] \in Seq(Message) /\ mail \in [Tasks -> Seq(Message)] /\ Alive(t)
  BY <1>1 DEF ProcessOK, Fire
<1>4. /\ Append(mail[t], Msg(k)) \in Seq(Message)
      /\ Tags(Append(mail[t], Msg(k))) \subseteq Tags(mail[t]) \cup {<<k, "none">>}
  BY <1>2, <1>3, AppendTags
<1>5. mail' = [mail EXCEPT ![t] = Append(mail[t], Msg(k))]
  BY DEF Fire
<1>6. /\ mail' \in [Tasks -> Seq(Message)]
      /\ \A w \in Tasks : w # t => mail'[w] = mail[w]
      /\ Tags(mail'[t]) \subseteq Tags(mail[t]) \cup {<<k, "none">>}
  BY <1>3, <1>4, <1>5
<1>7. ProcessOK'
  <2>1. \A w \in Tasks : ~Alive(w) => mail'[w] = <<>> /\ timers'[w] = {}
    BY <1>1, <1>3, <1>6 DEF Fire, ProcessOK
  <2> QED BY <1>1, <1>6, <2>1 DEF Fire, ProcessOK, Alive
<1>8. KeepInv'
  <2> SUFFICES ASSUME job.keep, NEW w \in Tasks
               PROVE  /\ vr[w].action = "destroy" => vr[w].err
                      /\ (\E s \in Slot : <<"start_destroying", s>> \in Tags(mail'[w])) => vr[w].err
                      /\ Deleting(w) => vr[w].err
    BY DEF KeepInv, Deleting, Fire, conf
  <2>1. /\ vr[w].action = "destroy" => vr[w].err
        /\ (\E s \in Slot : <<"start_destroying", s>> \in Tags(mail[w])) => vr[w].err
        /\ Deleting(w) => vr[w].err
    BY DEF IInv, KeepInv
  <2>2. \A s \in Slot : <<"start_destroying", s>> \in Tags(mail'[w]) =>
            <<"start_destroying", s>> \in Tags(mail[w])
    <3>1. CASE w = t
      BY <1>2, <1>6, <3>1
    <3>2. CASE w # t
      BY <1>6, <3>2
    <3> QED BY <3>1, <3>2
  <2> QED BY <2>1, <2>2
<1>9. DataInv'
  <2>1. \A w \in Tasks : <<"ok", "upload">> \in Tags(mail'[w]) => <<"ok", "upload">> \in Tags(mail[w])
    <3> SUFFICES ASSUME NEW w \in Tasks, <<"ok", "upload">> \in Tags(mail'[w])
                 PROVE  <<"ok", "upload">> \in Tags(mail[w])
      OBVIOUS
    <3>1. CASE w = t
      BY <1>2, <1>6, <3>1
    <3>2. CASE w # t
      BY <1>6, <3>2
    <3> QED BY <3>1, <3>2
  <2> QED BY <2>1 DEF IInv, DataInv, Fire, conf, queues, world
<1>10. WorldOK'
  BY <1>1 DEF Fire, WorldOK, conf, queues, world
<1> QED BY <1>7, <1>8, <1>9, <1>10 DEF IInv, TypeOK

(***************************************************************************)
(* The rest of the world: actions that leave the processes alone.          *)
(***************************************************************************)
LEMMA WorldInv ==
    ASSUME IInv, UNCHANGED process, WorldOK', job'.keep = job.keep,
           uploaded' = uploaded, DataInv'
    PROVE  IInv'
<1>1. ProcessOK'
  BY DEF IInv, TypeOK, ProcessOK, process, Alive
<1>2. KeepInv'
  BY DEF IInv, KeepInv, process, Deleting
<1> QED BY <1>1, <1>2 DEF IInv, TypeOK

(* Events added to, and taken from, the queue of wm_compute.               *)
LEMMA ComputeQueue ==
    ASSUME WorldOK, NEW e \in {"job_canceled", "start", "proc_started", "job_finished"}
    PROVE  /\ Append(cq, e) \in Seq({"job_canceled", "start", "proc_started", "job_finished"})
           /\ e # "start" /\ (\A i \in 1 .. Len(cq) : cq[i] # "start") =>
                \A i \in 1 .. Len(Append(cq, e)) : Append(cq, e)[i] # "start"
<1>1. cq \in Seq({"job_canceled", "start", "proc_started", "job_finished"})
  BY DEF WorldOK
<1>2. /\ Append(cq, e) \in Seq({"job_canceled", "start", "proc_started", "job_finished"})
      /\ Len(Append(cq, e)) = Len(cq) + 1 /\ Len(cq) \in Nat
      /\ \A i \in 1 .. Len(cq) : Append(cq, e)[i] = cq[i]
      /\ Append(cq, e)[Len(cq) + 1] = e
  BY <1>1, AppendProperties
<1>3. \A i \in 1 .. Len(Append(cq, e)) : i \in 1 .. Len(cq) \/ i = Len(cq) + 1
  BY <1>2
<1> QED BY <1>2, <1>3

LEMMA ComputeTakes ==
    ASSUME WorldOK, cq # <<>>
    PROVE  /\ Tail(cq) \in Seq({"job_canceled", "start", "proc_started", "job_finished"})
           /\ (\A i \in 1 .. Len(cq) : cq[i] # "start") =>
                /\ Head(cq) # "start"
                /\ \A i \in 1 .. Len(Tail(cq)) : Tail(cq)[i] # "start"
<1>1. cq \in Seq({"job_canceled", "start", "proc_started", "job_finished"})
  BY DEF WorldOK
<1>2. /\ Tail(cq) \in Seq({"job_canceled", "start", "proc_started", "job_finished"})
      /\ Len(Tail(cq)) = Len(cq) - 1
      /\ \A i \in 1 .. Len(Tail(cq)) : Tail(cq)[i] = cq[i + 1]
      /\ Head(cq) = cq[1]
  BY <1>1, HeadTailProperties
<1>3. Len(cq) \in Nat /\ Len(cq) > 0
  BY <1>1, EmptySeq
<1>4. 1 \in 1 .. Len(cq) /\ \A i \in 1 .. Len(Tail(cq)) : i + 1 \in 1 .. Len(cq)
  BY <1>2, <1>3
<1> QED BY <1>2, <1>4

(* The queue of wm_relocator.                                              *)
LEMMA RelocatorQueue ==
    ASSUME WorldOK
    PROVE  LET S == Seq({"job_canceled", "remove_entities", "job_finished"})
           IN  /\ \A e \in {"job_canceled", "remove_entities", "job_finished"} : Append(rq, e) \in S
               /\ rq # <<>> => Tail(rq) \in S /\ <<"remove_entities">> \o Tail(rq) \in S
<1> DEFINE E == {"job_canceled", "remove_entities", "job_finished"}
<1>1. rq \in Seq(E)
  BY DEF WorldOK
<1>2. \A e \in E : Append(rq, e) \in Seq(E)
  BY <1>1, AppendProperties
<1>3. rq # <<>> => Tail(rq) \in Seq(E)
  BY <1>1, HeadTailProperties
<1>4. <<"remove_entities">> \in Seq(E)
  OBVIOUS
<1>5. rq # <<>> => <<"remove_entities">> \o Tail(rq) \in Seq(E)
  BY <1>3, <1>4, ConcatProperties
<1> QED BY <1>2, <1>3, <1>5

LEMMA WorldActions ==
    ASSUME IInv,
           \/ PartitionComesUp \/ InputsVanish \/ UserCancels \/ RelocatorRemoves
           \/ RelocatorCleansUp \/ SchedulerReads \/ SchedulerResult
           \/ ComputeStarts \/ ComputeUpdates \/ RemoteStarts \/ RemoteEnds
    PROVE  IInv'
<1>1. WorldOK /\ DataInv
  BY DEF IInv, TypeOK
<1>2. CASE PartitionComesUp
  <2>1. WorldOK' /\ DataInv'
    BY <1>1, <1>2 DEF PartitionComesUp, WorldOK, DataInv, process, conf, queues
  <2> QED BY <1>2, <2>1, WorldInv DEF PartitionComesUp, conf
<1>3. CASE InputsVanish
  <2>1. WorldOK' /\ DataInv'
    BY <1>1, <1>3 DEF InputsVanish, WorldOK, DataInv, process, conf, queues
  <2> QED BY <1>3, <2>1, WorldInv DEF InputsVanish, conf
<1>4. CASE UserCancels
  <2>1. WorldOK' /\ job'.keep = job.keep
    BY <1>1, <1>4, RelocatorQueue, ComputeQueue DEF UserCancels, SetState, WorldOK
  <2>2. DataInv'
    BY <1>1, <1>4, ComputeQueue DEF UserCancels, SetState, DataInv, WorldOK, process
  <2> QED BY <1>4, <2>1, <2>2, WorldInv DEF UserCancels
<1>5. CASE RelocatorRemoves
  <2>1. WorldOK' /\ DataInv'
    BY <1>1, <1>5, RelocatorQueue DEF RelocatorRemoves, WorldOK, DataInv, process, world
  <2> QED BY <1>5, <2>1, WorldInv DEF RelocatorRemoves, world
<1>6. CASE RelocatorCleansUp
  <2>1. WorldOK' /\ DataInv'
    BY <1>1, <1>6 DEF RelocatorCleansUp, WorldOK, DataInv, process, queues, world
  <2> QED BY <1>6, <2>1, WorldInv DEF RelocatorCleansUp, world
<1>7. CASE SchedulerReads
  <2>1. WorldOK' /\ DataInv'
    BY <1>1, <1>7 DEF SchedulerReads, WorldOK, DataInv, process, conf, world
  <2> QED BY <1>7, <2>1, WorldInv DEF SchedulerReads, conf, world
<1>8. CASE SchedulerResult
  <2>1. WorldOK' /\ job'.keep = job.keep
    BY <1>1, <1>8, ComputeQueue DEF SchedulerResult, SetState, WorldOK, world
  <2>2. uploaded /\ uploaded' = uploaded
    BY <1>1, <1>8 DEF SchedulerResult, DataInv, WorldOK, world
  <2> QED BY <1>8, <2>1, <2>2, WorldInv DEF SchedulerResult, DataInv
<1>9. CASE ComputeStarts
  <2>1. WorldOK'
    BY <1>1, <1>9, ComputeTakes DEF ComputeStarts, WorldOK, conf
  <2>2. uploaded' = uploaded /\ job' = job /\ uploaded
    BY <1>1, <1>9, ComputeTakes DEF ComputeStarts, DataInv, conf, WorldOK
  <2> QED BY <1>9, <2>1, <2>2, WorldInv DEF ComputeStarts, DataInv
<1>10. CASE ComputeUpdates
  <2>1. WorldOK' /\ job'.keep = job.keep /\ job'.state # "Q"
    BY <1>1, <1>10, ComputeTakes, RelocatorQueue DEF ComputeUpdates, SetState, WorldOK, world
  <2>2. DataInv'
    BY <1>1, <1>10, <2>1, ComputeTakes DEF ComputeUpdates, DataInv, process, world
  <2> QED BY <1>10, <2>1, <2>2, WorldInv DEF ComputeUpdates, world
<1>11. CASE RemoteStarts \/ RemoteEnds
  <2>1. WorldOK'
    BY <1>1, <1>11, ComputeQueue DEF RemoteStarts, RemoteEnds, WorldOK, conf
  <2>2. uploaded' = uploaded /\ job' = job /\ uploaded
    BY <1>1, <1>11 DEF RemoteStarts, RemoteEnds, DataInv, conf, WorldOK
  <2> QED BY <1>11, <2>1, <2>2, WorldInv DEF RemoteStarts, RemoteEnds, DataInv
<1> QED BY <1>2, <1>3, <1>4, <1>5, <1>6, <1>7, <1>8, <1>9, <1>10, <1>11

(***************************************************************************)
(* wm_relocator.                                                           *)
(***************************************************************************)
LEMMA RelocatorSends ==
    ASSUME IInv, NEW u \in Tasks, NEW k \in {"destroy", "cancel_keep", "job_finished"},
           Send(u, Msg(k)), WorldOK', UNCHANGED <<vr, timers, requests, job, cq, scheduling, world>>
    PROVE  IInv'
<1>1. Msg(k) \in Message /\ Msg(k).kind = k /\ ProcessOK
  BY DEF Msg, Message, Slot, RelocatorEvent, IInv, TypeOK
<1>2. Arrives(u, Msg(k))
  BY <1>1, SendArrives
<1> QED BY <1>1, <1>2, ArrivesInv DEF world

LEMMA RelocatorFinishedInv == ASSUME IInv, RelocatorFinished PROVE IInv'
<1>1. WorldOK /\ DataInv
  BY DEF IInv, TypeOK
<1>2. WorldOK'
  BY <1>1, RelocatorQueue DEF RelocatorFinished, WorldOK, world
<1>3. CASE row # None /\ job.state # "C"
  <2>1. row \in Tasks
    BY <1>1, <1>3 DEF WorldOK
  <2> QED BY <1>2, <1>3, <2>1, RelocatorSends DEF RelocatorFinished
<1>4. CASE ~(row # None /\ job.state # "C")
  <2>1. UNCHANGED process /\ UNCHANGED <<job, cq, scheduling, world>>
    BY <1>4 DEF RelocatorFinished, process
  <2>2. DataInv'
    BY <1>1, <2>1 DEF DataInv, process, world
  <2> QED BY <1>2, <2>1, <2>2, WorldInv DEF world
<1> QED BY <1>3, <1>4

(* A process spawned to destroy the partition of a job that has no row.    *)
LEMMA RelocatorSpawns ==
    ASSUME IInv, ~job.keep, NEW t \in Unused,
           vr' = [vr EXCEPT ![t] = Fresh("destroy")],
           mail' = [mail EXCEPT ![t] = <<Msg("activate")>>],
           WorldOK', UNCHANGED <<timers, requests, job, cq, scheduling, world>>
    PROVE  IInv'
<1>1. ProcessOK /\ WorldOK /\ DataInv /\ t \in Tasks
  BY DEF IInv, TypeOK, Unused
<1>2. Fresh("destroy") \in Process /\ Fresh("destroy").st = "sleeping"
  BY DEF Fresh, Process, Working
<1>3. <<Msg("activate")>> \in Seq(Message) /\ Tags(<<Msg("activate")>>) = {<<"activate", "none">>}
  BY MsgType DEF RelocatorEvent
<1>4. /\ vr' \in [Tasks -> Process] /\ mail' \in [Tasks -> Seq(Message)]
      /\ vr'[t] = Fresh("destroy") /\ mail'[t] = <<Msg("activate")>>
      /\ \A u \in Tasks : u # t => vr'[u] = vr[u] /\ mail'[u] = mail[u]
  BY <1>1, <1>2, <1>3 DEF ProcessOK
<1>5. ProcessOK'
  <2>1. \A u \in Tasks : ~Alive(u)' => mail'[u] = <<>> /\ timers'[u] = {}
    <3> SUFFICES ASSUME NEW u \in Tasks, ~Alive(u)'
                 PROVE  mail'[u] = <<>> /\ timers'[u] = {}
      OBVIOUS
    <3>1. u # t
      BY <1>2, <1>4 DEF Alive, Working
    <3>2. ~Alive(u) /\ mail'[u] = mail[u] /\ timers'[u] = timers[u]
      BY <1>4, <3>1 DEF Alive
    <3> QED BY <1>1, <3>2 DEF ProcessOK
  <2> QED BY <1>1, <1>4, <2>1 DEF ProcessOK
<1>6. KeepInv'
  BY DEF KeepInv
<1>7. DataInv'
  <2>1. \A u \in Tasks : <<"ok", "upload">> \in Tags(mail'[u]) => <<"ok", "upload">> \in Tags(mail[u])
    <3> SUFFICES ASSUME NEW u \in Tasks, <<"ok", "upload">> \in Tags(mail'[u])
                 PROVE  <<"ok", "upload">> \in Tags(mail[u])
      OBVIOUS
    <3>1. CASE u = t
      BY <1>3, <1>4, <3>1
    <3>2. CASE u # t
      BY <1>4, <3>2
    <3> QED BY <3>1, <3>2
  <2> QED BY <1>1, <2>1 DEF DataInv, world
<1> QED BY <1>5, <1>6, <1>7 DEF IInv, TypeOK

LEMMA RelocatorCanceledInv == ASSUME IInv, RelocatorCanceled PROVE IInv'
<1>1. WorldOK /\ DataInv
  BY DEF IInv, TypeOK
<1>2. WorldOK'
  BY <1>1, RelocatorQueue DEF RelocatorCanceled, WorldOK, world
<1>3. CASE row # None /\ Send(row, Msg(IF job.keep THEN "cancel_keep" ELSE "destroy"))
           /\ UNCHANGED vr
  <2>1. row \in Tasks
    BY <1>1, <1>3 DEF WorldOK
  <2>2. PICK k \in {"destroy", "cancel_keep", "job_finished"} : Send(row, Msg(k))
    BY <1>3
  <2> QED BY <1>2, <1>3, <2>1, <2>2, RelocatorSends DEF RelocatorCanceled
<1>4. CASE UNCHANGED <<vr, mail>>
  <2>1. UNCHANGED process /\ UNCHANGED <<job, cq, scheduling, world>>
    BY <1>4 DEF RelocatorCanceled, process
  <2>2. DataInv'
    BY <1>1, <2>1 DEF DataInv, process, world
  <2> QED BY <1>2, <2>1, <2>2, WorldInv DEF world
<1>5. CASE /\ ~job.keep
           /\ \E t \in Unused : /\ vr' = [vr EXCEPT ![t] = Fresh("destroy")]
                                /\ mail' = [mail EXCEPT ![t] = <<Msg("activate")>>]
  BY <1>2, <1>5, RelocatorSpawns DEF RelocatorCanceled
<1> QED BY <1>3, <1>4, <1>5 DEF RelocatorCanceled

(***************************************************************************)
(* The invariant holds at first, is preserved by every step, and implies   *)
(* the properties.                                                         *)
(***************************************************************************)
LEMMA InitIInv == Init => IInv
<1> SUFFICES ASSUME Init PROVE IInv
  OBVIOUS
<1>1. Fresh("create") \in Process /\ NotSpawned \in Process
  BY DEF Fresh, NotSpawned, Process, Working
<1>2. <<Msg("activate")>> \in Seq(Message) /\ Tags(<<Msg("activate")>>) = {<<"activate", "none">>}
  BY MsgType DEF RelocatorEvent
<1>3. /\ mail \in [Tasks -> Seq(Message)]
      /\ \A t \in Tasks : t # First => mail[t] = <<>>
      /\ mail[First] = <<Msg("activate")>>
  BY <1>2, NoTags, TasksAssumption DEF Init
<1>4. Alive(First)
  BY TasksAssumption DEF Init, Alive, Fresh, Working
<1>5. ProcessOK
  BY <1>1, <1>3, <1>4 DEF Init, ProcessOK
<1>6. WorldOK
  <2>1. PICK k \in KeepOptions, o \in OutputOptions :
            job = [state |-> "W", remote |-> FALSE, keep |-> k, outputs |-> o]
    BY DEF Init
  <2>2. job \in [state : {"W", "T", "Q", "R", "F", "C", "E"}, remote : BOOLEAN,
                 keep : KeepOptions, outputs : OutputOptions]
    BY <2>1
  <2>3. /\ rq \in Seq({"job_canceled", "remove_entities", "job_finished"})
        /\ cq \in Seq({"job_canceled", "start", "proc_started", "job_finished"})
    BY DEF Init
  <2> QED BY <2>2, <2>3, TasksAssumption DEF Init, WorldOK
<1>7. \A t \in Tasks : Tags(mail[t]) \subseteq {<<"activate", "none">>}
  BY <1>2, <1>3, NoTags
<1>8. KeepInv
  BY <1>7 DEF Init, KeepInv, Fresh, NotSpawned, Deleting
<1>9. DataInv
  BY <1>7 DEF Init, DataInv
<1> QED BY <1>5, <1>6, <1>8, <1>9 DEF IInv, TypeOK

LEMMA StepIInv == IInv /\ [Next]_vars => IInv'
<1> SUFFICES ASSUME IInv, [Next]_vars PROVE IInv'
  OBVIOUS
<1>1. CASE \E t \in Tasks : Handle(t) \/ WorkerFails(t)
  BY <1>1, HandleInv
<1>2. CASE \E t \in Tasks, k \in Timer : Fire(t, k)
  BY <1>2, FireInv
<1>3. CASE \E q \in requests : Answer(q) \/ GateFails(q) \/ TransferFails(q)
  BY <1>3, AnswerActions DEF Answer
<1>4. CASE SkyPort
  BY <1>4, RelocatorCanceledInv, RelocatorFinishedInv, WorldActions DEF SkyPort
<1>5. CASE \/ PartitionComesUp \/ InputsVanish \/ UserCancels \/ RelocatorCleansUp
           \/ RemoteStarts \/ RemoteEnds
  BY <1>5, WorldActions
<1>6. CASE UNCHANGED vars
  <2>1. UNCHANGED process /\ UNCHANGED <<conf, queues, world>>
    BY <1>6 DEF vars
  <2>2. WorldOK' /\ DataInv'
    BY <2>1 DEF IInv, TypeOK, WorldOK, DataInv, process, conf, queues, world
  <2> QED BY <2>1, <2>2, WorldInv DEF conf, world
<1> QED BY <1>1, <1>2, <1>3, <1>4, <1>5, <1>6 DEF Next

LEMMA Invariance == Spec => []IInv
  BY InitIInv, StepIInv, PTL DEF Spec

(* Every variable keeps its type, and a process that has ended has neither *)
(* messages nor timers.                                                    *)
THEOREM TypeCorrect == Spec => []TypeOK
<1>1. IInv => TypeOK
  BY DEF IInv
<1> QED BY <1>1, Invariance, PTL

(* The partition of a keep-resources job is deleted only by a process that *)
(* failed: by no interleaving of cancels, ends of the job and late answers *)
(* (wm_virtres keep_resources_and_stop, finish_or_destroy_resources).      *)
THEOREM KeptPartition == Spec => []KeptUnlessFailed
<1>1. IInv => KeptUnlessFailed
  BY DEF IInv, KeepInv, KeptUnlessFailed
<1> QED BY <1>1, Invariance, PTL

(* The job is sent to its cloud node only after an upload that succeeded,  *)
(* however uploads fail, are repeated or are answered late.                *)
THEOREM DataFirst == Spec => []StartsWithData
<1>1. IInv => StartsWithData
  BY DEF IInv, TypeOK, WorldOK, DataInv, StartsWithData
<1> QED BY <1>1, Invariance, PTL

(***************************************************************************)
(* The relocation of the job from stage to stage: what its process waits   *)
(* for, as long as nobody else acts.                                       *)
(***************************************************************************)

(* The messages and timers that look at the nodes of the partition.        *)
AfterUp == {"ssh_check_prov_port", "ssh_check_swm_port", "try_worker_upload",
            "part_check", "ssh_prov_connected", "ssh_swm_connected"}

(* What a process in state s may wait for: a message, a timer, or the      *)
(* answer of a request.                                                    *)
MayAwait(s, k) ==
    \/ s = "sleeping" /\ k = "activate"
    \/ s = "validating" /\ k \in {"exists", "partition_absent", "partition_exists", "exit"}
    \/ s = "creating" /\ k \in {"create", "fetch", "part_fetch", "partition_spawned",
           "partition_building", "partition_up", "permanent", "transient", "exit"} \cup AfterUp
    \/ s = "uploading" /\ k \in {"upload", "ok", "failed"}
    \/ s = "running" /\ k = "job_finished"
    \/ s = "downloading" /\ k \in {"logs", "ok", "failed"}
    \/ s = "destroying" /\ k \in {"start_destroying", "delete", "partition_deleted",
           "permanent", "transient", "exit"}

Awaits(k) ==
    \/ \E i \in 1 .. Len(mail[First]) : mail[First][i].kind = k
    \/ k \in timers[First]
    \/ \E q \in requests : q.kind = k

(* While the job has its row nobody but the process of that row acts; and  *)
(* without a row, until the user cancels.                                  *)
Calm == row # None \/ (cancels = 0 /\ ~job.outputs)

(* That process is the only one, and waits for one thing at a time.        *)
AloneInv ==
    /\ \A t \in Tasks : t # First => vr[t].st = "none"
    /\ Len(mail[First]) <= 1
    /\ mail[First] # <<>> => timers[First] = {} /\ requests = {}
    /\ timers[First] # {} => requests = {}
    /\ \A k, l \in timers[First] : k = l
    /\ \A q \in requests : q.task = First
    /\ \A p, q \in requests : p = q

AwaitInv ==
    /\ vr[First].st # "none"
    /\ \A k : Awaits(k) => MayAwait(vr[First].st, k) /\ (k \in AfterUp => ents)
    /\ vr[First].st \in {"sleeping", "validating"} => vr[First].action = "create"

(* Nothing of the job has been scheduled or started.                       *)
NotStarted ==
    /\ job.state \notin {"Q", "R", "F"}
    /\ ~scheduling
    /\ remote = "idle"
    /\ \A i \in 1 .. Len(cq) : cq[i] = "job_canceled"

Early == {"sleeping", "validating", "creating", "uploading"}

(* A row outlives its process only when the creation has failed.           *)
StageOf(s) ==
    /\ s \in Early => NotStarted
    /\ row # None => /\ s \in Early \cup {"running", "destroying", "stopped"}
                     /\ s \in {"destroying", "stopped"} =>
                            NotStarted /\ job.state \in {"E", "C"}

CalmInv ==
    Calm => /\ AloneInv /\ AwaitInv /\ StageOf(vr[First].st)
            /\ row # None => ~Awaits("job_finished")

(* The end of the job has been told to wm_compute, once, and handled.      *)
Finished == remote = "ended" /\ \A i \in 1 .. Len(cq) : cq[i] # "job_finished"
OnceInv ==
    /\ remote # "ended" => \A i \in 1 .. Len(cq) : cq[i] # "job_finished"
    /\ \A i, h \in 1 .. Len(cq) :
           cq[i] = "job_finished" /\ cq[h] = "job_finished" => i = h

(* A job FINISHED that may be downloaded was not canceled.                 *)
Done == Finished /\ (job.state = "F" => cancels = 0)

QueueInv ==
    /\ cancels \in Nat
    /\ cancels = 0 => /\ \A i \in 1 .. Len(rq) : rq[i] = "job_finished"
                      /\ \A i \in 1 .. Len(cq) : cq[i] # "job_canceled"
    /\ row # None =>
         /\ row = First
         /\ \A i \in 1 .. Len(rq) : rq[i] # "remove_entities"
         /\ cancels # 0 => \E i \in 1 .. Len(rq) : rq[i] = "job_canceled"
         /\ \A i \in 1 .. Len(rq) : rq[i] = "job_finished" =>
                Done \/ \E h \in 1 .. Len(rq) : h < i /\ rq[h] = "job_canceled"

Downloading ==
    \/ \E t \in Tasks, s \in Slot : <<"job_finished", s>> \in Tags(mail[t])
    \/ \E q \in requests : q.kind \in {"logs", "outputs"}

DownloadInv == Downloading => Done

RInv == CalmInv /\ OnceInv /\ QueueInv /\ DownloadInv

-----------------------------------------------------------------------------
(***************************************************************************)
(* A call of a state function of the process that is alone.                *)
(***************************************************************************)

(* The state in which a clause takes its message, and the message.         *)
LEMMA ClauseStates ==
    ASSUME NEW v, NEW m
    PROVE  /\ Clause(v, m) = "activate" => v.st = "sleeping"
           /\ Clause(v, m) \in {"partition_absent", "partition_exists"} => v.st = "validating"
           /\ Clause(v, m) \in {"partition_spawned", "partition_building", "partition_up",
                                "permanent", "transient"} => v.st = "creating"
           /\ Clause(v, m) \in {"ssh_prov_connected", "ssh_swm_connected"} =>
                  v.st = "creating" /\ m.kind = Clause(v, m)
           /\ Clause(v, m) \in {"partition_deleted", "start_destroying"} => v.st = "destroying"
           /\ Clause(v, m) \in {"uploaded", "upload_failed"} => v.st = "uploading"
           /\ Clause(v, m) = "downloaded" => v.st = "downloading"
           /\ Clause(v, m) \in {"destroy", "cancel_keep", "job_finished"} \cup Timer =>
                  m.kind = Clause(v, m)
<1>1. Clause(v, m) = "activate" => v.st = "sleeping"
  BY DEF Clause, Timer
<1>2. Clause(v, m) \in {"partition_absent", "partition_exists"} => v.st = "validating"
  BY DEF Clause, Timer
<1>3. Clause(v, m) \in {"partition_spawned", "partition_building", "partition_up",
                        "permanent", "transient"} => v.st = "creating"
  BY DEF Clause, Timer
<1>4. Clause(v, m) \in {"ssh_prov_connected", "ssh_swm_connected"} =>
          v.st = "creating" /\ m.kind = Clause(v, m)
  BY DEF Clause, Timer
<1>5. Clause(v, m) \in {"partition_deleted", "start_destroying"} => v.st = "destroying"
  BY DEF Clause, Timer
<1>6. Clause(v, m) \in {"uploaded", "upload_failed"} => v.st = "uploading"
  BY DEF Clause, Timer
<1>7. Clause(v, m) = "downloaded" => v.st = "downloading"
  BY DEF Clause, Timer
<1>8. Clause(v, m) \in {"destroy", "cancel_keep", "job_finished"} \cup Timer =>
          m.kind = Clause(v, m)
  BY DEF Clause, Timer
<1> QED BY <1>1, <1>2, <1>3, <1>4, <1>5, <1>6, <1>7, <1>8

LEMMA FirstType ==
    ProcessOK => /\ mail[First] \in Seq(Message) /\ vr[First] \in Process
                 /\ Len(mail[First]) \in Nat
  BY TasksAssumption, LenProperties DEF ProcessOK

(* Nobody but First is called.                                             *)
LEMMA FirstTakes ==
    ASSUME ProcessOK, AloneInv, NEW t \in Tasks, NEW c, Takes(t, c)
    PROVE  /\ t = First /\ mail[First] # <<>> /\ Len(mail[First]) = 1
           /\ timers[First] = {} /\ requests = {}
           /\ Awaits(Head(mail[First]).kind)
           /\ c = Clause(vr[First], Head(mail[First]))
<1>1. t = First
  BY DEF Takes, Alive, Working, AloneInv
<1>2. mail[First] # <<>> /\ c = Clause(vr[First], Head(mail[First]))
  BY <1>1 DEF Takes
<1>3. Len(mail[First]) = 1
  <2>1. mail[First] \in Seq(Message) /\ Len(mail[First]) \in Nat
    BY FirstType
  <2>2. Len(mail[First]) \in Nat \ {0}
    BY <1>2, <2>1, EmptySeq
  <2> DEFINE n == Len(mail[First])
  <2>3. n <= 1 /\ n \in Nat /\ n # 0
    BY <2>2 DEF AloneInv
  <2> HIDE DEF n
  <2>4. n = 1
    BY <2>3
  <2> QED BY <2>4 DEF n
<1>4. Head(mail[First]) = mail[First][1] /\ 1 \in 1 .. Len(mail[First])
  <2>1. mail[First] \in Seq(Message) /\ Len(mail[First]) > 0
    BY <1>3, FirstType
  <2>2. Head(mail[First]) = mail[First][1]
    BY <2>1
  <2> QED BY <1>3, <2>2
<1>5. Awaits(Head(mail[First]).kind)
  BY <1>4 DEF Awaits
<1> QED BY <1>1, <1>2, <1>3, <1>5 DEF AloneInv

(* What that says of the clause.                                           *)
LEMMA CalmTakes ==
    ASSUME ProcessOK, AloneInv, AwaitInv, NEW t \in Tasks, NEW c, Takes(t, c)
    PROVE  /\ t = First
           /\ c = "activate" => vr[t].st = "sleeping"
           /\ c \in {"partition_absent", "partition_exists"} =>
                  vr[t].st = "validating" /\ vr[t].action = "create"
           /\ c \in {"partition_spawned", "partition_building", "partition_up",
                     "permanent", "transient"} \cup Timer => vr[t].st = "creating"
           /\ c \in AfterUp => vr[t].st = "creating" /\ ents
           /\ c \in {"partition_deleted", "start_destroying"} => vr[t].st = "destroying"
           /\ c \in {"uploaded", "upload_failed"} => vr[t].st = "uploading"
           /\ c = "downloaded" => vr[t].st = "downloading"
           /\ c = "job_finished" => vr[t].st = "running" /\ Awaits("job_finished")
           /\ c \notin {"destroy", "cancel_keep"}
<1> DEFINE k == Head(mail[First]).kind
<1>1. t = First /\ Awaits(k) /\ c = Clause(vr[First], Head(mail[First]))
  BY FirstTakes
<1>2. MayAwait(vr[First].st, k) /\ (k \in AfterUp => ents)
  BY <1>1 DEF AwaitInv
<1>3. /\ c \in {"ssh_prov_connected", "ssh_swm_connected"} => vr[t].st = "creating" /\ k = c
      /\ c \in {"destroy", "cancel_keep", "job_finished"} \cup Timer => k = c
  BY <1>1, ClauseStates
<1> HIDE DEF k
<1>4. c \in Timer => vr[t].st = "creating"
  <2> SUFFICES ASSUME c \in Timer PROVE vr[t].st = "creating"
    OBVIOUS
  <2>1. MayAwait(vr[t].st, c)
    BY <1>1, <1>2, <1>3
  <2> QED BY <2>1 DEF Timer, MayAwait
<1>5. c \in AfterUp => vr[t].st = "creating" /\ ents
  BY <1>1, <1>2, <1>3, <1>4 DEF Timer, AfterUp
<1>6. c = "job_finished" => vr[t].st = "running" /\ Awaits("job_finished")
  BY <1>1, <1>2, <1>3 DEF MayAwait, AfterUp
<1>7. c \notin {"destroy", "cancel_keep"}
  BY <1>2, <1>3 DEF MayAwait, AfterUp
<1>8. /\ c = "activate" => vr[t].st = "sleeping"
      /\ c \in {"partition_absent", "partition_exists"} => vr[t].st = "validating"
      /\ c \in {"partition_spawned", "partition_building", "partition_up",
                "permanent", "transient"} => vr[t].st = "creating"
      /\ c \in {"partition_deleted", "start_destroying"} => vr[t].st = "destroying"
      /\ c \in {"uploaded", "upload_failed"} => vr[t].st = "uploading"
      /\ c = "downloaded" => vr[t].st = "downloading"
  BY <1>1, ClauseStates
<1> QED BY <1>1, <1>4, <1>5, <1>6, <1>7, <1>8 DEF AwaitInv

(* The call leaves it with what it casts, sets and asks, and no more.      *)
LEMMA CallIs ==
    ASSUME ProcessOK, AloneInv, NEW t \in Tasks, NEW c, Takes(t, c),
           NEW new, NEW casts \in Seq(Message), NEW set, NEW asked, NEW over,
           Step(t, new, casts, set, asked, over)
    PROVE  /\ vr'[First] = new /\ \A u \in Tasks : u # First => vr'[u] = vr[u]
           /\ mail'[First] = IF new.st \in Dead THEN <<>> ELSE casts
           /\ timers'[First] = IF new.st \in Dead THEN {} ELSE set
           /\ requests' = asked
<1> DEFINE rest == Left(mail[First], over)
<1>1. /\ t = First /\ mail[First] # <<>> /\ Len(mail[First]) = 1
      /\ timers[First] = {} /\ requests = {} /\ First \in Tasks
  BY FirstTakes
<1>2. rest = <<>>
  <2>1. rest = [i \in 1 .. 0 |-> Forget(mail[First][i + 1], mail[First][i + 1].slot, over)]
    BY <1>1 DEF Left
  <2>2. rest \in Seq({}) /\ Len(rest) = 0
    BY <2>1
  <2> HIDE DEF rest
  <2> QED BY <2>2, EmptySeq
<1>3. rest \o casts = casts
  BY <1>2, ConcatEmptySeq
<1>4. mail' = [mail EXCEPT ![First] = IF new.st \in Dead THEN <<>> ELSE rest \o casts]
  BY <1>1 DEF Step, Left
<1> HIDE DEF rest
<1>5. mail'[First] = IF new.st \in Dead THEN <<>> ELSE casts
  BY <1>1, <1>3, <1>4 DEF ProcessOK
<1>6. vr'[First] = new /\ \A u \in Tasks : u # First => vr'[u] = vr[u]
  BY <1>1 DEF Step, ProcessOK
<1>7. timers'[First] = IF new.st \in Dead THEN {} ELSE set
  BY <1>1 DEF Step, ProcessOK
<1>8. requests' = asked
  BY <1>1 DEF Step
<1> QED BY <1>5, <1>6, <1>7, <1>8

(* After a call the process waits for what is in K.                        *)
Only(K, casts, set, asked) ==
    \/ K = {} /\ casts = <<>> /\ set = {} /\ asked = {}
    \/ \E k : /\ K = {k}
              /\ \/ casts = <<Msg(k)>> /\ set = {} /\ asked = {}
                 \/ casts = <<>> /\ set = {k} /\ asked = {}
                 \/ casts = <<>> /\ set = {} /\ asked = {Ask(First, k)}

LEMMA CallAwaits ==
    ASSUME ProcessOK, AloneInv, NEW t \in Tasks, NEW c, Takes(t, c),
           NEW new, NEW casts \in Seq(Message), NEW set, NEW asked, NEW over, NEW K,
           Step(t, new, casts, set, asked, over), Only(K, casts, set, asked)
    PROVE  /\ AloneInv'
           /\ \A k : Awaits(k)' => k \in K
<1>1. /\ vr'[First] = new /\ \A u \in Tasks : u # First => vr'[u] = vr[u]
      /\ mail'[First] = IF new.st \in Dead THEN <<>> ELSE casts
      /\ timers'[First] = IF new.st \in Dead THEN {} ELSE set
      /\ requests' = asked
  BY CallIs
<1>2. Len(<<>>) = 0 /\ 1 .. 0 = {}
  OBVIOUS
<1>3. \A k : /\ Len(<<Msg(k)>>) = 1 /\ <<Msg(k)>>[1].kind = k /\ <<Msg(k)>> # <<>>
             /\ Ask(First, k).task = First /\ Ask(First, k).kind = k
  BY DEF Msg, Ask
<1>4. 1 .. 1 = {1}
  OBVIOUS
<1>5. \A u \in Tasks : u # First => vr'[u].st = "none"
  BY <1>1 DEF AloneInv
<1>6. CASE mail'[First] = <<>> /\ timers'[First] = {} /\ requests' = {}
  BY <1>2, <1>5, <1>6 DEF AloneInv, Awaits
<1>7. ASSUME NEW k, K = {k}, casts = <<Msg(k)>>, set = {}, asked = {}, new.st \notin Dead
      PROVE  AloneInv' /\ \A h : Awaits(h)' => h \in K
  <2>1. mail'[First] = <<Msg(k)>> /\ timers'[First] = {} /\ requests' = {}
    BY <1>1, <1>7
  <2> QED BY <1>3, <1>4, <1>5, <1>7, <2>1 DEF AloneInv, Awaits
<1>8. ASSUME NEW k, K = {k}, casts = <<>>, set = {k}, asked = {}, new.st \notin Dead
      PROVE  AloneInv' /\ \A h : Awaits(h)' => h \in K
  <2>1. mail'[First] = <<>> /\ timers'[First] = {k} /\ requests' = {}
    BY <1>1, <1>8
  <2> QED BY <1>2, <1>5, <1>8, <2>1 DEF AloneInv, Awaits
<1>9. ASSUME NEW k, K = {k}, casts = <<>>, set = {}, asked = {Ask(First, k)}
      PROVE  AloneInv' /\ \A h : Awaits(h)' => h \in K
  <2>1. mail'[First] = <<>> /\ timers'[First] = {} /\ requests' = {Ask(First, k)}
    BY <1>1, <1>9
  <2> QED BY <1>2, <1>3, <1>5, <1>9, <2>1 DEF AloneInv, Awaits
<1> QED BY <1>1, <1>6, <1>7, <1>8, <1>9 DEF Only

(***************************************************************************)
(* When a call preserves the invariant.                                    *)
(***************************************************************************)
LEMMA CallInv ==
    ASSUME TypeOK, RInv, NEW t \in Tasks, NEW c, Takes(t, c),
           NEW s, NEW new \in Process, new.st = s, s # "none",
           NEW casts \in Seq(Message), NEW set \in SUBSET Timer,
           NEW asked \in SUBSET Request, NEW over, NEW K,
           Step(t, new, casts, set, asked, over),
           job'.outputs = job.outputs, job'.state = "F" => job.state = "F",
           row' \in {row, None},
           UNCHANGED <<rq, cq, scheduling, remote, cancels>>,
           \A r \in Slot : <<"job_finished", r>> \notin Tags(casts),
           \A q \in asked : q.kind \in {"logs", "outputs"} => c = "job_finished",
           Calm /\ Calm' /\ AloneInv /\ AwaitInv =>
               /\ Only(K, casts, set, asked)
               /\ \A k \in K : MayAwait(s, k) /\ (k \in AfterUp => ents')
               /\ s \in {"sleeping", "validating"} => new.action = "create"
               /\ StageOf(s)'
               /\ row' # None => "job_finished" \notin K
    PROVE  RInv'
<1>1. ProcessOK
  BY DEF TypeOK
<1>2. CalmInv'
  <2> SUFFICES ASSUME Calm'
               PROVE  /\ AloneInv' /\ AwaitInv' /\ StageOf(vr[First].st)'
                      /\ row' # None => ~Awaits("job_finished")'
    BY DEF CalmInv
  <2>1. Calm
    BY DEF Calm
  <2>2. AloneInv /\ AwaitInv
    BY <2>1 DEF RInv, CalmInv
  <2>3. /\ Only(K, casts, set, asked)
        /\ \A k \in K : MayAwait(s, k) /\ (k \in AfterUp => ents')
        /\ s \in {"sleeping", "validating"} => new.action = "create"
        /\ StageOf(s)'
        /\ row' # None => "job_finished" \notin K
    BY <2>1, <2>2
  <2>4. AloneInv' /\ \A k : Awaits(k)' => k \in K
    BY <1>1, <2>2, <2>3, CallAwaits
  <2>5. vr'[First] = new
    BY <1>1, <2>2, CallIs
  <2>6. AwaitInv'
    BY <2>3, <2>4, <2>5 DEF AwaitInv
  <2>7. StageOf(vr[First].st)'
    BY <2>3, <2>5 DEF StageOf, NotStarted
  <2> QED BY <2>3, <2>4, <2>6, <2>7
<1>3. OnceInv'
  BY DEF RInv, OnceInv
<1>4. Done => Done'
  BY DEF Done, Finished
<1>5. QueueInv'
  <2>1. QueueInv
    BY DEF RInv
  <2> QED BY <1>4, <2>1 DEF QueueInv
<1>6. DownloadInv'
  <2>1. mail[t] # <<>>
    BY DEF Takes
  <2>2. Acts(t, new, Tags(casts), asked)
    BY <1>1, <2>1, StepActs
  <2>3. c = "job_finished" => \E r \in Slot : <<"job_finished", r>> \in Tags(mail[t])
    <3>1. Head(mail[t]) \in Message /\ <<Head(mail[t]).kind, Head(mail[t]).slot>> \in Tags(mail[t])
      BY <1>1, <2>1, HeadTag
    <3>2. c = Clause(vr[t], Head(mail[t]))
      BY DEF Takes
    <3>3. c = "job_finished" => Head(mail[t]).kind = "job_finished"
      BY <3>2, ClauseStates
    <3>4. Head(mail[t]).slot \in Slot
      BY <3>1 DEF Message
    <3> QED BY <3>1, <3>3, <3>4
  <2>4. Downloading' => Downloading
    BY <2>2, <2>3 DEF Acts, Downloading
  <2> QED BY <1>4, <2>4 DEF RInv, DownloadInv
<1> QED BY <1>2, <1>3, <1>5, <1>6 DEF RInv

(* The calls that leave the rest of the world alone.                       *)
CalmAt(t) == Calm /\ AloneInv /\ AwaitInv /\ t = First /\ StageOf(vr[t].st)

LEMMA CalmHere ==
    ASSUME TypeOK, RInv, NEW t \in Tasks, NEW c, Takes(t, c), Calm
    PROVE  CalmAt(t)
<1>1. ProcessOK /\ AloneInv /\ AwaitInv /\ StageOf(vr[First].st)
  BY DEF TypeOK, RInv, CalmInv
<1>2. t = First
  BY <1>1, FirstTakes
<1> QED BY <1>1, <1>2 DEF CalmAt

LEMMA SameStage ==
    ASSUME UNCHANGED <<conf, queues, world>>, NEW s, StageOf(s)
    PROVE  StageOf(s)'
  BY DEF conf, queues, world, StageOf, NotStarted

LEMMA GotoCall ==
    ASSUME TypeOK, RInv, NEW t \in Tasks, NEW c, Takes(t, c), NEW s \in Working,
           NEW casts, NEW set \in SUBSET Timer, NEW K,
           casts = <<>> \/ \E k \in {"ssh_prov_connected", "ssh_swm_connected"} : casts = <<Msg(k)>>,
           Goto(t, s, casts, set), OnlyProcess,
           Only(K, casts, set, {}), "job_finished" \notin K,
           CalmAt(t) =>
               /\ \A k \in K : MayAwait(s, k) /\ (k \in AfterUp => ents)
               /\ s \in {"sleeping", "validating"} => vr[t].action = "create"
               /\ StageOf(s)
    PROVE  RInv'
<1>1. ProcessOK
  BY DEF TypeOK
<1>2. /\ In(t, s) \in Process /\ In(t, s).st = s /\ s # "none"
      /\ In(t, s).action = vr[t].action
  BY <1>1, InProcess DEF Working
<1>3. /\ casts \in Seq(Message)
      /\ \A r \in Slot : <<"job_finished", r>> \notin Tags(casts)
  <2>1. CASE casts = <<>>
    BY <2>1, NoTags
  <2>2. CASE \E k \in {"ssh_prov_connected", "ssh_swm_connected"} : casts = <<Msg(k)>>
    <3>1. PICK k \in {"ssh_prov_connected", "ssh_swm_connected"} : casts = <<Msg(k)>>
      BY <2>2
    <3>2. <<Msg(k)>> \in Seq(Message) /\ Tags(<<Msg(k)>>) = {<<k, "none">>}
      BY MsgType DEF SelfCast
    <3> QED BY <3>1, <3>2
  <2> QED BY <2>1, <2>2
<1>4. Step(t, In(t, s), casts, set, {}, {})
  BY DEF Goto
<1>5. UNCHANGED <<conf, queues, world>>
  BY DEF OnlyProcess
<1>6. /\ job' = job /\ row' = row /\ ents' = ents
      /\ UNCHANGED <<rq, cq, scheduling, remote, cancels>>
  BY <1>5 DEF conf, queues, world
<1>7. Calm => CalmAt(t)
  BY CalmHere
<1>8. Calm => /\ \A k \in K : MayAwait(s, k) /\ (k \in AfterUp => ents')
              /\ s \in {"sleeping", "validating"} => In(t, s).action = "create"
              /\ StageOf(s)'
  BY <1>2, <1>5, <1>6, <1>7, SameStage
<1> QED BY <1>2, <1>3, <1>4, <1>6, <1>8, CallInv

LEMMA AskGateCall ==
    ASSUME TypeOK, RInv, NEW t \in Tasks, NEW c, Takes(t, c), NEW s \in Working,
           NEW k \in GateRequest, AskGate(t, s, k), OnlyProcess,
           CalmAt(t) =>
               /\ MayAwait(s, k)
               /\ s \in {"sleeping", "validating"} => vr[t].action = "create"
               /\ StageOf(s)
    PROVE  RInv'
<1>1. ProcessOK
  BY DEF TypeOK
<1>2. /\ In(t, s) \in Process /\ In(t, s).st = s /\ s # "none"
      /\ In(t, s).action = vr[t].action
  BY <1>1, InProcess DEF Working
<1>3. <<>> \in Seq(Message) /\ \A r \in Slot : <<"job_finished", r>> \notin Tags(<<>>)
  BY NoTags
<1>4. Step(t, In(t, s), <<>>, {}, {Ask(t, k)}, {"gate"})
  BY DEF AskGate
<1>5. UNCHANGED <<conf, queues, world>>
  BY DEF OnlyProcess
<1>6. /\ job' = job /\ row' = row /\ ents' = ents
      /\ UNCHANGED <<rq, cq, scheduling, remote, cancels>>
  BY <1>5 DEF conf, queues, world
<1>7. Calm => CalmAt(t)
  BY CalmHere
<1>8. /\ {Ask(t, k)} \in SUBSET Request
      /\ \A q \in {Ask(t, k)} : q.kind \notin {"logs", "outputs"}
      /\ k \notin AfterUp /\ k # "job_finished"
  BY DEF Ask, Request, GateRequest, AfterUp
<1>9. Calm => /\ Only({k}, <<>>, {}, {Ask(t, k)})
              /\ \A l \in {k} : MayAwait(s, l) /\ (l \in AfterUp => ents')
              /\ s \in {"sleeping", "validating"} => In(t, s).action = "create"
              /\ StageOf(s)'
              /\ row' # None => "job_finished" \notin {k}
  <2> SUFFICES ASSUME Calm
               PROVE  /\ Only({k}, <<>>, {}, {Ask(t, k)})
                      /\ MayAwait(s, k) /\ k \notin AfterUp /\ k # "job_finished"
                      /\ s \in {"sleeping", "validating"} => In(t, s).action = "create"
                      /\ StageOf(s)'
    OBVIOUS
  <2>1. CalmAt(t) /\ t = First
    BY <1>7 DEF CalmAt
  <2>2. Only({k}, <<>>, {}, {Ask(t, k)})
    BY <2>1 DEF Only
  <2> QED BY <1>2, <1>5, <1>8, <2>1, <2>2, SameStage
<1> DEFINE new == In(t, s)
           asked == {Ask(t, k)}
           K == {k}
<1>10. /\ asked \in SUBSET Request /\ {} \in SUBSET Timer
       /\ \A q \in asked : q.kind \in {"logs", "outputs"} => c = "job_finished"
       /\ row' \in {row, None} /\ job'.outputs = job.outputs
       /\ job'.state = "F" => job.state = "F"
  BY <1>6, <1>8
<1>11. /\ new \in Process /\ new.st = s /\ Step(t, new, <<>>, {}, asked, {"gate"})
       /\ Calm => /\ Only(K, <<>>, {}, asked)
                  /\ \A l \in K : MayAwait(s, l) /\ (l \in AfterUp => ents')
                  /\ s \in {"sleeping", "validating"} => new.action = "create"
                  /\ StageOf(s)'
                  /\ row' # None => "job_finished" \notin K
  BY <1>2, <1>4, <1>9
<1> HIDE DEF new, asked, K
<1> QED BY <1>2, <1>3, <1>6, <1>10, <1>11, CallInv

LEMMA EndCall ==
    ASSUME TypeOK, RInv, NEW t \in Tasks, NEW c, Takes(t, c), NEW s \in Dead,
           Step(t, In(t, s), <<>>, {}, {}, {}), UNCHANGED <<job, row, queues, world>>,
           CalmAt(t) => StageOf(s)
    PROVE  RInv'
<1>1. ProcessOK
  BY DEF TypeOK
<1>2. In(t, s) \in Process /\ In(t, s).st = s /\ s \notin {"none", "sleeping", "validating"}
  BY <1>1, InProcess DEF Dead
<1>3. <<>> \in Seq(Message) /\ \A r \in Slot : <<"job_finished", r>> \notin Tags(<<>>)
  BY NoTags
<1>4. UNCHANGED <<rq, cq, scheduling, remote, cancels>>
  BY DEF queues, world
<1>5. Calm => CalmAt(t)
  BY CalmHere
<1>6. Calm => StageOf(s)'
  BY <1>4, <1>5 DEF StageOf, NotStarted
<1>7. Only({}, <<>>, {}, {})
  BY DEF Only
<1> DEFINE new == In(t, s)
           casts == <<>>
           none == {}
<1>8. /\ new \in Process /\ new.st = s /\ Step(t, new, casts, none, none, none)
      /\ casts \in Seq(Message) /\ none \in SUBSET Timer /\ none \in SUBSET Request
      /\ \A r \in Slot : <<"job_finished", r>> \notin Tags(casts)
      /\ \A q \in none : q.kind \in {"logs", "outputs"} => c = "job_finished"
      /\ Only(none, casts, none, none)
      /\ \A k \in none : MayAwait(s, k) /\ (k \in AfterUp => ents')
      /\ "job_finished" \notin none
  BY <1>2, <1>3, <1>7
<1>9. row' \in {row, None} /\ job'.outputs = job.outputs /\ (job'.state = "F" => job.state = "F")
  OBVIOUS
<1>10. s # "none" /\ (s \in {"sleeping", "validating"} => new.action = "create")
  BY <1>2
<1> HIDE DEF new, casts, none
<1> QED BY <1>4, <1>6, <1>8, <1>9, <1>10, CallInv

(***************************************************************************)
(* The clauses, one by one.                                                *)
(***************************************************************************)
LEMMA CalmClause ==
    ASSUME TypeOK, NEW t \in Tasks, NEW c, Takes(t, c), CalmAt(t)
    PROVE  /\ StageOf(vr[t].st)
           /\ c = "activate" => vr[t].st = "sleeping" /\ vr[t].action = "create"
           /\ c \in {"partition_absent", "partition_exists"} =>
                  vr[t].st = "validating" /\ vr[t].action = "create"
           /\ c \in {"partition_spawned", "partition_building", "partition_up",
                     "permanent", "transient"} \cup Timer => vr[t].st = "creating"
           /\ c \in AfterUp => vr[t].st = "creating" /\ ents
           /\ c \in {"partition_deleted", "start_destroying"} => vr[t].st = "destroying"
           /\ c \in {"uploaded", "upload_failed"} => vr[t].st = "uploading"
           /\ c = "downloaded" => vr[t].st = "downloading"
           /\ c = "job_finished" => vr[t].st = "running" /\ Awaits("job_finished")
           /\ c \notin {"destroy", "cancel_keep"}
<1>1. ProcessOK /\ AloneInv /\ AwaitInv /\ t = First
  BY DEF TypeOK, CalmAt
<1>2. c = "activate" => vr[t].st = "sleeping"
  BY <1>1, CalmTakes
<1>3. c = "activate" => vr[t].action = "create"
  BY <1>1, <1>2 DEF AwaitInv
<1> QED BY <1>1, <1>2, <1>3, CalmTakes DEF CalmAt

LEMMA EarlyStage ==
    ASSUME NEW s \in Early, NEW r \in Early, StageOf(r)
    PROVE  StageOf(s)
  BY DEF StageOf, Early

(* Every clause that keeps a process in creating, waiting for a message or *)
(* a timer of that state.                                                  *)
LEMMA CreatingCall ==
    ASSUME TypeOK, RInv, NEW t \in Tasks, NEW c, Takes(t, c), OnlyProcess, NEW k,
           c \in {"partition_exists", "partition_spawned", "partition_building", "transient"}
                 \cup AfterUp,
           \/ k \in Timer /\ Goto(t, "creating", <<>>, {k})
           \/ k \in {"ssh_prov_connected", "ssh_swm_connected"} /\ Goto(t, "creating", <<Msg(k)>>, {}),
           k = "part_fetch" \/ ents \/ c \in AfterUp
    PROVE  RInv'
<1>1. "creating" \in Working /\ "creating" \in Early /\ k # "job_finished"
  BY DEF Working, Early, Timer
<1>2. k \in Timer \cup {"ssh_prov_connected", "ssh_swm_connected"} /\ MayAwait("creating", k)
  BY DEF MayAwait, Timer, AfterUp
<1>3. CalmAt(t) => (k \in AfterUp => ents) /\ StageOf("creating")
  <2> SUFFICES ASSUME CalmAt(t) PROVE (k \in AfterUp => ents) /\ StageOf("creating")
    OBVIOUS
  <2>1. vr[t].st \in Early /\ StageOf(vr[t].st) /\ (c \in AfterUp => ents)
    BY CalmClause DEF Early
  <2> QED BY <1>1, <2>1, EarlyStage DEF AfterUp
<1>4. CASE k \in Timer /\ Goto(t, "creating", <<>>, {k})
  <2>1. Only({k}, <<>>, {k}, {}) /\ {k} \in SUBSET Timer
    BY <1>4 DEF Only
  <2> DEFINE K == {k}
             casts == <<>>
  <2>2. /\ Only(K, casts, K, {}) /\ K \in SUBSET Timer /\ Goto(t, "creating", casts, K)
        /\ casts = <<>> /\ "job_finished" \notin K
        /\ \A l \in K : l = k
    BY <1>1, <1>4, <2>1
  <2> HIDE DEF K, casts
  <2> QED BY <1>1, <1>2, <1>3, <2>2, GotoCall
<1>5. CASE k \in {"ssh_prov_connected", "ssh_swm_connected"} /\ Goto(t, "creating", <<Msg(k)>>, {})
  <2>1. Only({k}, <<Msg(k)>>, {}, {})
    BY DEF Only
  <2> DEFINE K == {k}
             casts == <<Msg(k)>>
  <2>2. /\ Only(K, casts, {}, {}) /\ {} \in SUBSET Timer /\ Goto(t, "creating", casts, {})
        /\ \E l \in {"ssh_prov_connected", "ssh_swm_connected"} : casts = <<Msg(l)>>
        /\ "job_finished" \notin K
        /\ \A l \in K : l = k
    BY <1>1, <1>5, <2>1
  <2> HIDE DEF K, casts
  <2> QED BY <1>1, <1>2, <1>3, <2>2, GotoCall
<1> QED BY <1>4, <1>5

LEMMA CreatingClauses ==
    ASSUME TypeOK, RInv, NEW t \in Tasks,
           \/ PartitionSpawned(t) \/ PartitionNotUp(t) \/ WorkerUploaded(t)
           \/ WorkerNotReady(t) \/ SshReady(t) \/ TryWorkerUpload(t)
    PROVE  RInv'
<1>1. CASE PartitionSpawned(t)
  BY <1>1, CreatingCall DEF PartitionSpawned, Timer
<1>2. CASE PartitionNotUp(t)
  BY <1>2, CreatingCall DEF PartitionNotUp, Timer
<1>3. CASE WorkerUploaded(t)
  BY <1>3, CreatingCall DEF WorkerUploaded, Timer, AfterUp
<1>4. CASE WorkerNotReady(t)
  BY <1>4, CreatingCall DEF WorkerNotReady, Timer, AfterUp
<1>5. CASE SshReady(t)
  <2>1. PICK k \in {"ssh_check_prov_port", "ssh_check_swm_port"} :
           Takes(t, k) /\ Goto(t, "creating", <<Msg(Connected(k))>>, {})
    BY <1>5 DEF SshReady
  <2>2. Connected(k) \in {"ssh_prov_connected", "ssh_swm_connected"} /\ k \in AfterUp
    BY DEF Connected, AfterUp
  <2>3. OnlyProcess /\ ents
    BY <1>5 DEF SshReady
  <2> QED BY <2>1, <2>2, <2>3, CreatingCall
<1>6. CASE TryWorkerUpload(t)
  BY <1>6, CreatingCall DEF TryWorkerUpload, AfterUp
<1> QED BY <1>1, <1>2, <1>3, <1>4, <1>5, <1>6

LEMMA NotReadyClause == ASSUME TypeOK, RInv, NEW t \in Tasks, NotReady(t) PROVE RInv'
<1>1. PICK k \in {"ssh_check_prov_port", "ssh_check_swm_port", "part_check"} :
         /\ Takes(t, k)
         /\ Goto(t, IF k = "part_check" THEN vr[t].st ELSE "creating", <<>>, {k})
  BY DEF NotReady
<1> DEFINE s == IF k = "part_check" THEN vr[t].st ELSE "creating"
           K == {k}
           casts == <<>>
<1>2. s \in Working
  BY <1>1 DEF Takes, Alive, Working
<1>3. k \in AfterUp /\ MayAwait("creating", k) /\ OnlyProcess
  BY DEF NotReady, AfterUp, MayAwait
<1>4. CalmAt(t) => s = "creating" /\ ents /\ StageOf(s)
  BY <1>1, <1>3, CalmClause
<1>5. /\ K \in SUBSET Timer /\ Only(K, casts, K, {}) /\ "job_finished" \notin K
      /\ casts = <<>> /\ Goto(t, s, casts, K)
      /\ \A l \in K : l = k
  BY <1>1 DEF Only, Timer
<1> HIDE DEF s, K, casts
<1>6. CalmAt(t) => /\ \A l \in K : MayAwait(s, l) /\ (l \in AfterUp => ents)
                   /\ s \in {"sleeping", "validating"} => vr[t].action = "create"
                   /\ StageOf(s)
  BY <1>3, <1>4, <1>5
<1> QED BY <1>1, <1>2, <1>3, <1>5, <1>6, GotoCall

LEMMA IgnoreClause == ASSUME TypeOK, RInv, NEW t \in Tasks, Ignore(t) PROVE RInv'
<1>1. Takes(t, "ignore") /\ Goto(t, vr[t].st, <<>>, {}) /\ OnlyProcess
  BY DEF Ignore
<1>2. vr[t].st \in Working
  BY <1>1 DEF Takes, Alive
<1>3. CalmAt(t) => /\ vr[t].st \in {"sleeping", "validating"} => vr[t].action = "create"
                   /\ StageOf(vr[t].st)
  BY DEF CalmAt, AwaitInv
<1> DEFINE casts == <<>>
           none == {}
           s == vr[t].st
<1>4. /\ none \in SUBSET Timer /\ Only(none, casts, none, {}) /\ "job_finished" \notin none
      /\ casts = <<>> /\ Goto(t, s, casts, none)
  BY <1>1 DEF Only
<1>5. CalmAt(t) => /\ \A l \in none : MayAwait(s, l) /\ (l \in AfterUp => ents)
                   /\ s \in {"sleeping", "validating"} => vr[t].action = "create"
                   /\ StageOf(s)
  BY <1>3
<1>6. s \in Working
  BY <1>2
<1> HIDE DEF casts, none, s
<1> QED BY <1>1, <1>4, <1>5, <1>6, GotoCall

LEMMA GateClauses ==
    ASSUME TypeOK, RInv, NEW t \in Tasks,
           \/ PartitionAbsent(t) \/ PartitionExists(t) \/ PartitionDeleted(t)
           \/ NodeGone(t) \/ PartFetch(t)
    PROVE  RInv'
<1>1. {"validating", "creating", "destroying"} \subseteq Working /\ {"stopped", "crashed"} = Dead
  BY DEF Working, Dead
<1>2. ASSUME OnlyProcess PROVE UNCHANGED <<job, row, queues, world>>
  BY <1>2 DEF OnlyProcess, conf
<1>3. CASE PartitionAbsent(t)
  <2>1. Takes(t, "partition_absent") /\ OnlyProcess
    BY <1>3 DEF PartitionAbsent
  <2>2. CalmAt(t) => vr[t].st = "validating" /\ vr[t].action = "create" /\ StageOf(vr[t].st)
    BY <2>1, CalmClause
  <2>3. CASE AskGate(t, "creating", "create")
    <3>1. CalmAt(t) => StageOf("creating")
      BY <2>2, EarlyStage DEF Early
    <3> QED BY <1>1, <2>1, <2>3, <3>1, AskGateCall DEF GateRequest, MayAwait
  <2>4. CASE vr[t].action # "create" /\ Stop(t)
    <3>1. ~CalmAt(t)
      BY <2>2, <2>4
    <3> QED BY <1>1, <1>2, <2>1, <2>4, <3>1, EndCall DEF Stop
  <2> QED BY <1>3, <2>3, <2>4 DEF PartitionAbsent
<1>4. CASE PartitionExists(t)
  <2>1. Takes(t, "partition_exists") /\ OnlyProcess
    BY <1>4 DEF PartitionExists
  <2>2. CASE Goto(t, "creating", <<>>, {"part_fetch"})
    BY <2>1, <2>2, CreatingCall DEF Timer
  <2>3. CASE vr[t].action # "create" /\ AskGate(t, "destroying", "delete")
    <3>1. ~CalmAt(t)
      BY <2>1, <2>3, CalmClause
    <3> QED BY <1>1, <2>1, <2>3, <3>1, AskGateCall DEF GateRequest
  <2> QED BY <1>4, <2>2, <2>3 DEF PartitionExists
<1>5. CASE PartitionDeleted(t)
  <2>1. Takes(t, "partition_deleted") /\ OnlyProcess /\ Stop(t)
    BY <1>5 DEF PartitionDeleted
  <2>2. CalmAt(t) => StageOf("stopped")
    <3>1. CalmAt(t) => StageOf("destroying")
      BY <2>1, CalmClause
    <3> QED BY <3>1 DEF StageOf, Early
  <2> QED BY <1>1, <1>2, <2>1, <2>2, EndCall DEF Stop
<1>6. CASE NodeGone(t)
  <2>1. PICK c \in {"ssh_check_prov_port", "ssh_check_swm_port", "part_check",
                    "ssh_prov_connected"} : Takes(t, c)
    BY <1>6 DEF NodeGone
  <2>2. ~CalmAt(t)
    BY <1>6, <2>1, CalmClause DEF AfterUp, NodeGone
  <2>3. Crash(t) /\ OnlyProcess
    BY <1>6 DEF NodeGone
  <2> QED BY <1>1, <1>2, <2>1, <2>2, <2>3, EndCall DEF Crash
<1>7. CASE PartFetch(t)
  <2>1. Takes(t, "part_fetch") /\ AskGate(t, vr[t].st, "fetch") /\ OnlyProcess
    BY <1>7 DEF PartFetch
  <2>2. CalmAt(t) => vr[t].st = "creating" /\ StageOf(vr[t].st)
    BY <2>1, CalmClause DEF Timer
  <2>3. vr[t].st \in Working
    BY <2>1 DEF Takes, Alive
  <2> QED BY <2>1, <2>2, <2>3, AskGateCall DEF GateRequest, MayAwait
<1> QED BY <1>3, <1>4, <1>5, <1>6, <1>7

(* fail_partition_creation, fail_job_and_destroy, a worker that fails.     *)
LEMMA FailCall ==
    ASSUME TypeOK, RInv, NEW t \in Tasks, NEW c, Takes(t, c), NEW over,
           Step(t, [In(t, "destroying") EXCEPT !.err = TRUE],
                <<Msg("start_destroying")>>, {}, {}, over),
           SetState("E"), row' \in {row, None}, ents' = ents,
           UNCHANGED <<rq, cq, scheduling, remote, cancels>>,
           CalmAt(t) => vr[t].st \in Early
    PROVE  RInv'
<1> DEFINE new == [In(t, "destroying") EXCEPT !.err = TRUE]
           casts == <<Msg("start_destroying")>>
           K == {"start_destroying"}
           none == {}
<1>1. new \in Process /\ new.st = "destroying"
  <2>1. ProcessOK
    BY DEF TypeOK
  <2>2. In(t, "destroying") \in Process /\ In(t, "destroying").st = "destroying"
    BY <2>1, InProcess DEF Working
  <2> QED BY <2>2 DEF Process
<1>2. /\ casts \in Seq(Message)
      /\ \A r \in Slot : <<"job_finished", r>> \notin Tags(casts)
  BY MsgType DEF SelfCast
<1>3. job' = [job EXCEPT !.state = "E"] /\ job'.outputs = job.outputs /\ job'.state = "E"
  BY DEF SetState, TypeOK, WorldOK
<1>4. Calm => StageOf("destroying")'
  <2> SUFFICES ASSUME Calm PROVE StageOf("destroying")'
    OBVIOUS
  <2>1. StageOf(vr[t].st) /\ vr[t].st \in Early
    BY CalmHere DEF CalmAt
  <2>2. NotStarted'
    BY <1>3, <2>1 DEF StageOf, NotStarted
  <2> QED BY <1>3, <2>2 DEF StageOf, Early
<1>5. /\ Step(t, new, casts, none, none, over) /\ Only(K, casts, none, none)
      /\ none \in SUBSET Timer /\ none \in SUBSET Request
      /\ \A q \in none : q.kind \in {"logs", "outputs"} => c = "job_finished"
      /\ \A k \in K : MayAwait("destroying", k) /\ k \notin AfterUp
      /\ "job_finished" \notin K
  BY DEF Only, MayAwait, AfterUp
<1> HIDE DEF new, casts, K, none
<1> QED BY <1>1, <1>2, <1>3, <1>4, <1>5, CallInv

LEMMA FailClauses ==
    ASSUME TypeOK, RInv, NEW t \in Tasks, PartitionFailed(t) \/ UploadFailed(t) \/ WorkerFails(t)
    PROVE  RInv'
<1>1. CASE PartitionFailed(t)
  <2>1. Takes(t, "permanent")
    BY <1>1 DEF PartitionFailed
  <2>2. CalmAt(t) => vr[t].st \in Early
    BY <2>1, CalmClause DEF Early
  <2> QED BY <1>1, <2>1, <2>2, FailCall DEF PartitionFailed, FailJob, Elsewhere, queues, world
<1>2. CASE UploadFailed(t)
  <2>1. Takes(t, "upload_failed")
    BY <1>2 DEF UploadFailed
  <2>2. CalmAt(t) => vr[t].st \in Early
    BY <2>1, CalmClause DEF Early
  <2> QED BY <1>2, <2>1, <2>2, FailCall DEF UploadFailed, FailJob, Elsewhere, queues, world
<1>3. CASE WorkerFails(t)
  <2>1. Takes(t, "ssh_prov_connected")
    BY <1>3 DEF WorkerFails
  <2>2. CalmAt(t) => vr[t].st \in Early
    BY <2>1, CalmClause DEF Early, AfterUp
  <2> QED BY <1>3, <2>1, <2>2, FailCall DEF WorkerFails, queues
<1> QED BY <1>1, <1>2, <1>3

(* A call that leaves the job, its row and the rest of the world alone.    *)
LEMMA PlainCall ==
    ASSUME TypeOK, RInv, NEW t \in Tasks, NEW c, Takes(t, c),
           NEW s, NEW new \in Process, new.st = s, s # "none",
           NEW casts \in Seq(Message), NEW set \in SUBSET Timer,
           NEW asked \in SUBSET Request, NEW over, NEW K,
           Step(t, new, casts, set, asked, over),
           UNCHANGED <<job, row, queues, world>>,
           \A r \in Slot : <<"job_finished", r>> \notin Tags(casts),
           \A q \in asked : q.kind \in {"logs", "outputs"} => c = "job_finished",
           s \notin {"sleeping", "validating"}, "job_finished" \notin K,
           CalmAt(t) =>
               /\ Only(K, casts, set, asked)
               /\ \A k \in K : MayAwait(s, k) /\ (k \in AfterUp => ents')
               /\ StageOf(s)
    PROVE  RInv'
<1>1. /\ job' = job /\ row' = row
      /\ UNCHANGED <<rq, cq, scheduling, remote, cancels>>
  BY DEF queues, world
<1>2. Calm => CalmAt(t)
  BY CalmHere
<1>3. StageOf(s) => StageOf(s)'
  BY <1>1 DEF StageOf, NotStarted
<1> QED BY <1>1, <1>2, <1>3, CallInv

(* wm_virtres asks the gate for the deletion.                              *)
LEMMA DeleteCall ==
    ASSUME TypeOK, RInv, NEW t \in Tasks, NEW c, Takes(t, c),
           Step(t, [In(t, "destroying") EXCEPT !.action = "destroy"], <<>>, {},
                {Ask(t, "delete")}, {"gate"}),
           UNCHANGED <<job, row, queues, world>>,
           CalmAt(t) => StageOf("destroying")
    PROVE  RInv'
<1> DEFINE new == [In(t, "destroying") EXCEPT !.action = "destroy"]
           casts == <<>>
           K == {"delete"}
           asked == {Ask(t, "delete")}
           none == {}
<1>1. new \in Process /\ new.st = "destroying"
  <2>1. ProcessOK
    BY DEF TypeOK
  <2>2. In(t, "destroying") \in Process /\ In(t, "destroying").st = "destroying"
    BY <2>1, InProcess DEF Working
  <2> QED BY <2>2 DEF Process
<1>2. /\ casts \in Seq(Message)
      /\ \A r \in Slot : <<"job_finished", r>> \notin Tags(casts)
  BY NoTags
<1>3. asked \in SUBSET Request /\ \A q \in asked : q.kind = "delete"
  BY DEF Ask, Request, GateRequest
<1>4. CalmAt(t) => Only(K, casts, none, asked)
  BY DEF CalmAt, Only
<1>5. /\ Step(t, new, casts, none, asked, {"gate"}) /\ none \in SUBSET Timer
      /\ \A k \in K : MayAwait("destroying", k) /\ k \notin AfterUp
      /\ "job_finished" \notin K
  BY DEF MayAwait, AfterUp
<1> HIDE DEF new, casts, K, asked, none
<1> QED BY <1>1, <1>2, <1>3, <1>4, <1>5, PlainCall

(* keep_resources_and_stop.                                                *)
LEMMA KeepCall ==
    ASSUME TypeOK, RInv, NEW t \in Tasks, NEW c, Takes(t, c), KeepAndStop(t), Elsewhere,
           CalmAt(t) => StageOf("stopped")
    PROVE  RInv'
  BY EndCall DEF KeepAndStop, Stop, Elsewhere, Dead

LEMMA ActivateClause == ASSUME TypeOK, RInv, NEW t \in Tasks, Activate(t) PROVE RInv'
<1>1. Takes(t, "activate") /\ ProcessOK
  BY DEF Activate, TypeOK
<1>2. CalmAt(t) => vr[t].st \in Early /\ StageOf(vr[t].st) /\ vr[t].action = "create"
  BY <1>1, CalmClause DEF Early
<1>3. CASE inputs
  <2>1. AskGate(t, "validating", "exists") /\ OnlyProcess
    BY <1>3 DEF Activate, Elsewhere, OnlyProcess
  <2>2. CalmAt(t) => StageOf("validating")
    BY <1>2, EarlyStage DEF Early
  <2> QED BY <1>1, <1>2, <2>1, <2>2, AskGateCall DEF Working, GateRequest, MayAwait
<1>4. CASE ~inputs
  <2> DEFINE new == [In(t, "stopped") EXCEPT !.err = TRUE]
             casts == <<>>
             none == {}
  <2>1. new \in Process /\ new.st = "stopped"
    <3>1. In(t, "stopped") \in Process /\ In(t, "stopped").st = "stopped"
      BY <1>1, InProcess DEF Dead
    <3> QED BY <3>1 DEF Process
  <2>2. job' = [job EXCEPT !.state = "E"] /\ job'.outputs = job.outputs /\ job'.state = "E"
    BY <1>4 DEF Activate, SetState, TypeOK, WorldOK
  <2>3. row' = row /\ UNCHANGED <<rq, cq, scheduling, remote, cancels>>
    BY <1>4 DEF Activate, Elsewhere, queues, world
  <2>4. /\ casts \in Seq(Message)
        /\ \A r \in Slot : <<"job_finished", r>> \notin Tags(casts)
    BY NoTags
  <2>5. /\ Step(t, new, casts, none, none, none) /\ Only(none, casts, none, none)
        /\ none \in SUBSET Timer /\ none \in SUBSET Request
        /\ \A q \in none : q.kind \in {"logs", "outputs"} => "activate" = "job_finished"
        /\ \A k \in none : MayAwait("stopped", k) /\ (k \in AfterUp => ents')
        /\ "job_finished" \notin none
    BY <1>4 DEF Activate, Only
  <2>6. Calm => StageOf("stopped")'
    <3> SUFFICES ASSUME Calm PROVE StageOf("stopped")'
      OBVIOUS
    <3>1. StageOf(vr[t].st) /\ vr[t].st \in Early
      BY <1>1, <1>2, CalmHere
    <3>2. NotStarted'
      BY <2>2, <2>3, <3>1 DEF StageOf, NotStarted
    <3> QED BY <2>2, <3>2 DEF StageOf, Early
  <2> HIDE DEF new, casts, none
  <2> QED BY <1>1, <2>1, <2>2, <2>3, <2>4, <2>5, <2>6, CallInv
<1> QED BY <1>3, <1>4

LEMMA PartitionUpClause == ASSUME TypeOK, RInv, NEW t \in Tasks, PartitionUp(t) PROVE RInv'
<1> DEFINE new == [In(t, "creating") EXCEPT !.mgr = TRUE]
           casts == <<>>
           K == {"ssh_check_prov_port"}
           none == {}
<1>1. Takes(t, "partition_up") /\ ProcessOK
  BY DEF PartitionUp, TypeOK
<1>2. new \in Process /\ new.st = "creating"
  <2>1. In(t, "creating") \in Process /\ In(t, "creating").st = "creating"
    BY <1>1, InProcess DEF Working
  <2> QED BY <2>1 DEF Process
<1>3. /\ job'.outputs = job.outputs /\ job'.state = job.state /\ row' = row /\ ents' = TRUE
      /\ UNCHANGED <<rq, cq, scheduling, remote, cancels>>
  BY DEF PartitionUp, Elsewhere, queues, world, TypeOK, WorldOK
<1>4. casts \in Seq(Message) /\ \A r \in Slot : <<"job_finished", r>> \notin Tags(casts)
  BY NoTags
<1>5. /\ Step(t, new, casts, K, none, none) /\ Only(K, casts, K, none)
      /\ K \in SUBSET Timer /\ none \in SUBSET Request
      /\ \A q \in none : q.kind \in {"logs", "outputs"} => "partition_up" = "job_finished"
      /\ \A k \in K : MayAwait("creating", k)
      /\ "job_finished" \notin K
  BY DEF PartitionUp, Only, MayAwait, AfterUp, Timer
<1>6. Calm => StageOf("creating")'
  <2> SUFFICES ASSUME Calm PROVE StageOf("creating")'
    OBVIOUS
  <2>1. StageOf("creating")
    BY <1>1, CalmHere, CalmClause
  <2> QED BY <1>3, <2>1 DEF StageOf, NotStarted
<1> HIDE DEF new, casts, K, none
<1> QED BY <1>1, <1>2, <1>3, <1>4, <1>5, <1>6, CallInv

LEMMA SwmConnectedClause == ASSUME TypeOK, RInv, NEW t \in Tasks, SwmConnected(t) PROVE RInv'
<1> DEFINE new == In(t, "creating")
           casts == <<>>
           K == {"part_check"}
           none == {}
<1>1. Takes(t, "ssh_swm_connected") /\ ProcessOK /\ OnlyProcess
  BY DEF SwmConnected, TypeOK
<1>2. new \in Process /\ new.st = "creating"
  BY <1>1, InProcess DEF Working
<1>3. UNCHANGED <<job, row, queues, world>> /\ ents' = ents
  BY <1>1 DEF OnlyProcess, conf
<1>4. casts \in Seq(Message) /\ \A r \in Slot : <<"job_finished", r>> \notin Tags(casts)
  BY NoTags
<1>5. /\ Step(t, new, casts, K, none, {"gate"}) /\ Only(K, casts, K, none)
      /\ K \in SUBSET Timer /\ none \in SUBSET Request
      /\ \A q \in none : q.kind \in {"logs", "outputs"} => "ssh_swm_connected" = "job_finished"
      /\ \A k \in K : MayAwait("creating", k)
      /\ "job_finished" \notin K
  BY DEF SwmConnected, Only, MayAwait, AfterUp, Timer
<1>6. CalmAt(t) => StageOf("creating") /\ ents'
  <2> SUFFICES ASSUME CalmAt(t) PROVE StageOf("creating") /\ ents'
    OBVIOUS
  <2>1. vr[t].st = "creating" /\ ents /\ StageOf(vr[t].st)
    BY <1>1, CalmClause DEF AfterUp
  <2> QED BY <1>3, <2>1
<1> HIDE DEF new, casts, K, none
<1> QED BY <1>1, <1>2, <1>3, <1>4, <1>5, <1>6, PlainCall

LEMMA DataUploadedClause == ASSUME TypeOK, RInv, NEW t \in Tasks, DataUploaded(t) PROVE RInv'
<1> DEFINE new == In(t, "running")
           casts == <<>>
           none == {}
<1>1. Takes(t, "uploaded") /\ ProcessOK
  BY DEF DataUploaded, TypeOK
<1>2. new \in Process /\ new.st = "running"
  BY <1>1, InProcess DEF Working
<1>3. /\ job'.outputs = job.outputs /\ job'.state = "Q" /\ row' = row
      /\ UNCHANGED <<rq, cq, scheduling, remote, cancels>>
  BY DEF DataUploaded, SetState, Elsewhere, queues, world, TypeOK, WorldOK
<1>4. casts \in Seq(Message) /\ \A r \in Slot : <<"job_finished", r>> \notin Tags(casts)
  BY NoTags
<1>5. /\ Step(t, new, casts, none, none, {"upload"}) /\ Only(none, casts, none, none)
      /\ none \in SUBSET Timer /\ none \in SUBSET Request
      /\ \A q \in none : q.kind \in {"logs", "outputs"} => "uploaded" = "job_finished"
      /\ \A k \in none : MayAwait("running", k) /\ (k \in AfterUp => ents')
      /\ "job_finished" \notin none
  BY DEF DataUploaded, Only
<1>6. StageOf("running")'
  BY DEF StageOf, Early
<1> HIDE DEF new, casts, none
<1> QED BY <1>1, <1>2, <1>3, <1>4, <1>5, <1>6, CallInv

LEMMA DataDownloadedClause == ASSUME TypeOK, RInv, NEW t \in Tasks, DataDownloaded(t) PROVE RInv'
<1>1. Takes(t, "downloaded") /\ ProcessOK /\ Elsewhere
  BY DEF DataDownloaded, TypeOK
<1>2. CalmAt(t) => StageOf("stopped") /\ StageOf("destroying")
  <2>1. CalmAt(t) => StageOf("downloading")
    BY <1>1, CalmClause
  <2> QED BY <2>1 DEF StageOf, Early
<1>3. CASE job.keep
  BY <1>1, <1>2, <1>3, KeepCall DEF DataDownloaded
<1>4. CASE ~job.keep
  <2> DEFINE new == In(t, "destroying")
             casts == <<Msg("start_destroying")>>
             K == {"start_destroying"}
             none == {}
  <2>1. new \in Process /\ new.st = "destroying"
    BY <1>1, InProcess DEF Working
  <2>2. UNCHANGED <<job, row, queues, world>>
    BY <1>4 DEF DataDownloaded, Elsewhere, conf
  <2>3. casts \in Seq(Message) /\ \A r \in Slot : <<"job_finished", r>> \notin Tags(casts)
    BY MsgType DEF SelfCast
  <2>4. /\ Step(t, new, casts, none, none, {"download"}) /\ Only(K, casts, none, none)
        /\ none \in SUBSET Timer /\ none \in SUBSET Request
        /\ \A q \in none : q.kind \in {"logs", "outputs"} => "downloaded" = "job_finished"
        /\ \A k \in K : MayAwait("destroying", k) /\ k \notin AfterUp
        /\ "job_finished" \notin K
    BY <1>4 DEF DataDownloaded, Only, MayAwait, AfterUp
  <2> HIDE DEF new, casts, K, none
  <2> QED BY <1>1, <1>2, <2>1, <2>2, <2>3, <2>4, PlainCall
<1> QED BY <1>3, <1>4

LEMMA DestroyingClauses ==
    ASSUME TypeOK, RInv, NEW t \in Tasks, StartDestroying(t) \/ Destroy(t) \/ CancelKeep(t)
    PROVE  RInv'
<1>1. CASE StartDestroying(t)
  <2>1. Takes(t, "start_destroying")
    BY <1>1 DEF StartDestroying
  <2>2. CalmAt(t) => StageOf("destroying")
    BY <2>1, CalmClause
  <2> QED BY <1>1, <2>1, <2>2, DeleteCall DEF StartDestroying, Elsewhere
<1>2. CASE Destroy(t)
  <2>1. Takes(t, "destroy")
    BY <1>2 DEF Destroy
  <2>2. ~CalmAt(t)
    BY <2>1, CalmClause
  <2>3. CASE job.keep
    BY <1>2, <2>1, <2>2, <2>3, KeepCall DEF Destroy
  <2>4. CASE ~job.keep
    BY <1>2, <2>1, <2>2, <2>4, DeleteCall DEF Destroy, Elsewhere, conf
  <2> QED BY <2>3, <2>4
<1>3. CASE CancelKeep(t)
  <2>1. Takes(t, "cancel_keep")
    BY <1>3 DEF CancelKeep
  <2>2. ~CalmAt(t)
    BY <2>1, CalmClause
  <2> QED BY <1>3, <2>1, <2>2, KeepCall DEF CancelKeep
<1> QED BY <1>1, <1>2, <1>3

LEMMA JobFinishedClause == ASSUME TypeOK, RInv, NEW t \in Tasks, JobFinished(t) PROVE RInv'
<1> DEFINE new == In(t, "downloading")
           casts == <<>>
           none == {}
           asked == IF vr[t].mgr /\ ents THEN Downloads(t) ELSE {}
           K == IF vr[t].mgr /\ ents THEN {"logs"} ELSE {}
<1>1. Takes(t, "job_finished") /\ ProcessOK /\ OnlyProcess /\ job.outputs \in BOOLEAN
  BY FlagsAssumption DEF JobFinished, TypeOK, WorldOK
<1>2. new \in Process /\ new.st = "downloading"
  BY <1>1, InProcess DEF Working
<1>3. UNCHANGED <<job, row, queues, world>>
  BY <1>1 DEF OnlyProcess, conf
<1>4. casts \in Seq(Message) /\ \A r \in Slot : <<"job_finished", r>> \notin Tags(casts)
  BY NoTags
<1>5. CalmAt(t) => row = None /\ ~job.outputs /\ t = First
  <2> SUFFICES ASSUME CalmAt(t) PROVE row = None /\ ~job.outputs /\ t = First
    OBVIOUS
  <2>1. Awaits("job_finished") /\ Calm /\ t = First
    BY <1>1, CalmClause DEF CalmAt
  <2>2. row = None
    BY <2>1 DEF RInv, CalmInv
  <2> QED BY <2>1, <2>2 DEF Calm
<1>6. CalmAt(t) => Only(K, casts, none, asked) /\ StageOf("downloading")
  <2> SUFFICES ASSUME CalmAt(t) PROVE Only(K, casts, none, asked) /\ StageOf("downloading")
    OBVIOUS
  <2>1. Downloads(t) = {Ask(First, "logs")}
    BY <1>5 DEF Downloads, Ask
  <2>2. StageOf("downloading")
    BY <1>5 DEF StageOf, Early
  <2> QED BY <2>1, <2>2 DEF Only
<1>7. asked \in SUBSET Request
  <2>1. \A l \in BOOLEAN, k \in Transfer : [task |-> t, kind |-> k, live |-> l] \in Request
    BY DEF Request
  <2>2. \A q \in asked : \E l \in BOOLEAN, k \in Transfer : q = [task |-> t, kind |-> k, live |-> l]
    BY <1>1 DEF Downloads, Ask, Transfer
  <2> QED BY <2>1, <2>2
<1>8. /\ Step(t, new, casts, none, asked, {"download"}) /\ none \in SUBSET Timer
      /\ \A k \in K : MayAwait("downloading", k) /\ k \notin AfterUp
      /\ "job_finished" \notin K
  BY DEF JobFinished, MayAwait, AfterUp
<1> HIDE DEF new, casts, K, none, asked
<1> QED BY <1>1, <1>2, <1>3, <1>4, <1>6, <1>7, <1>8, PlainCall

LEMMA PartReadyClause == ASSUME TypeOK, RInv, NEW t \in Tasks, PartReady(t) PROVE RInv'
<1>1. Takes(t, "part_check") /\ ProcessOK
  BY DEF PartReady, TypeOK
<1>2. CalmAt(t) => vr[t].st \in Early /\ StageOf(vr[t].st) /\ t = First
  BY <1>1, CalmClause DEF Early, AfterUp, CalmAt
<1>3. CASE inputs
  <2> DEFINE new == In(t, "uploading")
             casts == <<>>
             K == {"upload"}
             none == {}
             asked == {Ask(t, "upload")}
  <2>1. new \in Process /\ new.st = "uploading"
    BY <1>1, InProcess DEF Working
  <2>2. /\ job'.outputs = job.outputs /\ job'.state = "T" /\ row' = row
        /\ UNCHANGED <<rq, cq, scheduling, remote, cancels>>
    BY <1>3 DEF PartReady, SetState, Elsewhere, queues, world, TypeOK, WorldOK
  <2>3. casts \in Seq(Message) /\ \A r \in Slot : <<"job_finished", r>> \notin Tags(casts)
    BY NoTags
  <2>4. asked \in SUBSET Request /\ \A q \in asked : q.kind = "upload"
    BY DEF Ask, Request, Transfer
  <2>5. Calm => Only(K, casts, none, asked) /\ StageOf("uploading")'
    <3> SUFFICES ASSUME Calm PROVE Only(K, casts, none, asked) /\ StageOf("uploading")'
      OBVIOUS
    <3>1. StageOf(vr[t].st) /\ vr[t].st \in Early /\ t = First
      BY <1>1, <1>2, CalmHere
    <3>2. NotStarted'
      BY <2>2, <3>1 DEF StageOf, NotStarted
    <3>3. StageOf("uploading")'
      BY <3>2 DEF StageOf, Early
    <3>4. Only(K, casts, none, asked)
      BY <3>1 DEF Only
    <3> QED BY <3>3, <3>4
  <2>6. /\ Step(t, new, casts, none, asked, {"upload"}) /\ none \in SUBSET Timer
        /\ \A k \in K : MayAwait("uploading", k) /\ k \notin AfterUp
        /\ "job_finished" \notin K
    BY <1>3 DEF PartReady, MayAwait, AfterUp
  <2> HIDE DEF new, casts, K, none, asked
  <2> QED BY <1>1, <2>1, <2>2, <2>3, <2>4, <2>5, <2>6, CallInv
<1>4. CASE ~inputs
  BY <1>1, <1>2, <1>4, FailCall DEF PartReady, FailJob, Elsewhere, queues, world
<1> QED BY <1>3, <1>4

LEMMA HandleClauses ==
    ASSUME TypeOK, RInv, NEW t \in Tasks, Handle(t) \/ WorkerFails(t)
    PROVE  RInv'
  BY CreatingClauses, NotReadyClause, IgnoreClause, GateClauses, FailClauses, ActivateClause,
     PartitionUpClause, SwmConnectedClause, DataUploadedClause, DataDownloadedClause,
     DestroyingClauses, JobFinishedClause, PartReadyClause
  DEF Handle

(***************************************************************************)
(* Timers, answers, and messages of wm_relocator.                          *)
(***************************************************************************)
LEMMA OneMessage ==
    ASSUME NEW m
    PROVE  /\ Append(<<>>, m) = <<m>> /\ Len(<<m>>) = 1 /\ <<m>>[1] = m
           /\ 1 .. 1 = {1} /\ <<m>> # <<>> /\ Len(<<>>) = 0 /\ 1 .. 0 = {}
  OBVIOUS

(* The only thing in flight is a message that arrives.                     *)
LEMMA ArrivesAlone ==
    ASSUME AloneInv, vr' = vr, NEW m, mail'[First] \in {<<>>, <<m>>},
           timers'[First] = {}, requests' = {}
    PROVE  AloneInv' /\ \A h : Awaits(h)' => h = m.kind /\ mail'[First] = <<m>>
<1>1. CASE mail'[First] = <<>>
  BY <1>1, OneMessage DEF AloneInv, Awaits
<1>2. CASE mail'[First] = <<m>>
  BY <1>2, OneMessage DEF AloneInv, Awaits
<1> QED BY <1>1, <1>2

LEMMA ArriveCase ==
    ASSUME TypeOK, RInv, NEW u \in Tasks, NEW m \in Message, Arrives(u, m),
           m.kind # "job_finished", vr' = vr, requests' \subseteq requests,
           UNCHANGED <<job, row, ents, rq, cq, scheduling, cancels>>,
           remote' = remote \/ (remote = "running" /\ remote' = "ended"),
           Calm /\ AloneInv /\ AwaitInv =>
               /\ AloneInv'
               /\ \A h : Awaits(h)' => /\ h # "job_finished"
                                       /\ MayAwait(vr[First].st, h)
                                       /\ h \in AfterUp => ents
    PROVE  RInv'
<1>1. CalmInv'
  <2> SUFFICES ASSUME Calm'
               PROVE  /\ AloneInv' /\ AwaitInv' /\ StageOf(vr[First].st)'
                      /\ row' # None => ~Awaits("job_finished")'
    BY DEF CalmInv
  <2>1. Calm /\ AloneInv /\ AwaitInv /\ StageOf(vr[First].st)
    BY DEF Calm, RInv, CalmInv
  <2>2. /\ AloneInv'
        /\ \A h : Awaits(h)' => /\ h # "job_finished"
                                /\ MayAwait(vr[First].st, h)
                                /\ h \in AfterUp => ents
    BY <2>1
  <2>3. AwaitInv'
    BY <2>1, <2>2 DEF AwaitInv
  <2>4. StageOf(vr[First].st)'
    BY <2>1 DEF StageOf, NotStarted
  <2> QED BY <2>2, <2>3, <2>4
<1>2. OnceInv'
  BY DEF RInv, OnceInv
<1>3. Done => Done'
  BY DEF Done, Finished
<1>4. QueueInv'
  <2>1. QueueInv
    BY DEF RInv
  <2> QED BY <1>3, <2>1 DEF QueueInv
<1>5. DownloadInv'
  <2>1. Downloading' => Downloading
    BY DEF Arrives, Downloading
  <2> QED BY <1>3, <2>1 DEF RInv, DownloadInv
<1> QED BY <1>1, <1>2, <1>4, <1>5 DEF RInv

LEMMA FireCase ==
    ASSUME TypeOK, RInv, NEW t \in Tasks, NEW k \in Timer, Fire(t, k)
    PROVE  RInv'
<1>1. /\ ProcessOK /\ k \in timers[t] /\ mail[t] \in Seq(Message)
      /\ timers' = [timers EXCEPT ![t] = @ \ {k}]
      /\ mail' = [mail EXCEPT ![t] = Append(mail[t], Msg(k))]
      /\ vr' = vr /\ requests' = requests
  BY DEF Fire, TypeOK, ProcessOK
<1>2. Alive(t)
  BY <1>1 DEF ProcessOK
<1>3. Msg(k) \in Message /\ Msg(k).kind = k /\ Msg(k).slot = "none" /\ k # "job_finished"
  BY DEF Msg, Message, Slot, Timer
<1>4. Arrives(t, Msg(k))
  <2>1. Send(t, Msg(k))
    BY <1>1, <1>2 DEF Send
  <2> QED BY <1>1, <1>3, <2>1, SendArrives
<1>5. ASSUME AloneInv, AwaitInv
      PROVE  AloneInv' /\ \A h : Awaits(h)' => /\ h # "job_finished"
                                               /\ MayAwait(vr[First].st, h)
                                               /\ h \in AfterUp => ents
  <2>1. t = First
    BY <1>2, <1>5 DEF AloneInv, Alive, Working
  <2>2. mail[First] = <<>> /\ requests = {}
    BY <1>1, <1>5, <2>1 DEF AloneInv
  <2>3. timers'[First] = {}
    <3>1. \A l \in timers[First] : l = k
      BY <1>1, <1>5, <2>1 DEF AloneInv
    <3>2. timers'[First] = timers[First] \ {k}
      BY <1>1, <2>1 DEF ProcessOK
    <3> QED BY <3>1, <3>2
  <2>4. mail'[First] = <<Msg(k)>>
    <3>1. mail'[First] = Append(<<>>, Msg(k))
      BY <1>1, <2>1, <2>2 DEF ProcessOK
    <3> QED BY <3>1, OneMessage
  <2>5. AloneInv' /\ \A h : Awaits(h)' => h = k
    BY <1>1, <1>3, <1>5, <2>2, <2>3, <2>4, ArrivesAlone
  <2>6. Awaits(k)
    BY <1>1, <2>1 DEF Awaits
  <2> QED BY <1>3, <1>5, <2>5, <2>6 DEF AwaitInv
<1>6. /\ UNCHANGED <<job, row, ents, rq, cq, scheduling, cancels>>
      /\ remote' = remote
  BY DEF Fire, conf, queues, world
<1> QED BY <1>1, <1>3, <1>4, <1>5, <1>6, ArriveCase

(* What a request of kind k may be answered with.                          *)
MayAnswer(k, a) ==
    \/ k = "exists" /\ a \in {"partition_absent", "partition_exists", "exit"}
    \/ k \in {"create", "fetch"} /\ a \in {"partition_spawned", "partition_building",
           "partition_up", "permanent", "transient", "exit"}
    \/ k = "delete" /\ a \in {"partition_deleted", "permanent", "transient", "exit"}
    \/ k \in Transfer /\ a \in {"ok", "failed"}

LEMMA AnswersCase ==
    ASSUME TypeOK, RInv, NEW q \in requests, NEW a \in GateAnswer \cup {"ok", "failed"},
           Answers(q, a), MayAnswer(q.kind, a), cancels' = cancels,
           remote' = remote \/ (remote = "running" /\ remote' = "ended")
    PROVE  RInv'
<1> DEFINE m == [kind |-> a, slot |-> SlotOf(q.kind), live |-> q.live]
<1>1. q \in Request /\ q.task \in Tasks /\ ProcessOK
  BY DEF TypeOK, ProcessOK, Request
<1>2. m \in Message /\ m.kind = a
  BY <1>1 DEF SlotOf, Slot, Request, Message
<1>3. /\ Send(q.task, m) /\ requests' = requests \ {q}
      /\ vr' = vr /\ timers' = timers
      /\ UNCHANGED <<job, row, ents, rq, cq, scheduling, cancels>>
  BY DEF Answers, conf, queues
<1>4. a # "job_finished" /\ a \notin AfterUp
  BY DEF GateAnswer, AfterUp
<1> HIDE DEF m
<1>5. Arrives(q.task, m)
  BY <1>1, <1>2, <1>3, SendArrives
<1>6. ASSUME AloneInv, AwaitInv
      PROVE  AloneInv' /\ \A h : Awaits(h)' => /\ h # "job_finished"
                                               /\ MayAwait(vr[First].st, h)
                                               /\ h \in AfterUp => ents
  <2>1. q.task = First /\ requests' = {}
    BY <1>3, <1>6 DEF AloneInv
  <2>2. mail[First] = <<>> /\ timers[First] = {}
    BY <1>6 DEF AloneInv
  <2>3. mail'[First] = IF Alive(First) THEN Append(<<>>, m) ELSE <<>>
    BY <1>1, <1>3, <2>1, <2>2, TasksAssumption DEF Send, ProcessOK
  <2>4. mail'[First] \in {<<>>, <<m>>}
    BY <2>3, OneMessage
  <2>5. AloneInv' /\ \A h : Awaits(h)' => h = a
    BY <1>2, <1>3, <1>6, <2>1, <2>2, <2>4, ArrivesAlone
  <2>6. MayAwait(vr[First].st, q.kind)
    BY <1>6 DEF AwaitInv, Awaits
  <2>7. MayAwait(vr[First].st, a)
    <3>1. CASE q.kind = "exists" /\ a \in {"partition_absent", "partition_exists", "exit"}
      BY <2>6, <3>1 DEF MayAwait, AfterUp
    <3>2. CASE q.kind \in {"create", "fetch"} /\ a \in {"partition_spawned", "partition_building",
                   "partition_up", "permanent", "transient", "exit"}
      BY <2>6, <3>2 DEF MayAwait, AfterUp
    <3>3. CASE q.kind = "delete" /\ a \in {"partition_deleted", "permanent", "transient", "exit"}
      BY <2>6, <3>3 DEF MayAwait, AfterUp
    <3>4. CASE q.kind \in Transfer /\ a \in {"ok", "failed"}
      BY <2>6, <3>4 DEF MayAwait, AfterUp, Transfer
    <3> QED BY <3>1, <3>2, <3>3, <3>4 DEF MayAnswer
  <2> QED BY <1>4, <2>5, <2>7
<1> QED BY <1>1, <1>2, <1>3, <1>4, <1>5, <1>6, ArriveCase

LEMMA AnswerClauses ==
    ASSUME TypeOK, RInv, NEW q \in requests,
           GateAnswers(q) \/ GateFails(q) \/ TransferEnds(q) \/ TransferFails(q)
    PROVE  RInv'
<1>1. WorldOK /\ q \in Request
  BY DEF TypeOK, ProcessOK
<1>2. CASE GateAnswers(q)
  <2>1. AnswerTo(q.kind) \in GateAnswer /\ MayAnswer(q.kind, AnswerTo(q.kind))
    <3>1. CASE q.kind = "exists"
      BY <3>1 DEF AnswerTo, GateAnswer, MayAnswer
    <3>2. CASE q.kind = "create"
      BY <3>2 DEF AnswerTo, GateAnswer, MayAnswer
    <3>3. CASE q.kind = "fetch"
      BY <1>1, <3>3 DEF AnswerTo, GateAnswer, MayAnswer, WorldOK
    <3>4. CASE q.kind = "delete"
      BY <3>4 DEF AnswerTo, GateAnswer, MayAnswer
    <3> QED BY <1>2, <3>1, <3>2, <3>3, <3>4 DEF GateAnswers, GateRequest
  <2> QED BY <1>2, <2>1, AnswersCase DEF GateAnswers, CloudBecomes
<1>3. CASE GateFails(q)
  <2>1. PICK a : /\ Answers(q, a)
                 /\ a \in {IF q.kind = "exists" THEN "partition_absent" ELSE "permanent",
                           IF q.kind = "exists" THEN "partition_absent" ELSE "transient", "exit"}
    BY <1>3 DEF GateFails
  <2>2. a \in GateAnswer
    BY <2>1 DEF GateAnswer
  <2>3. MayAnswer(q.kind, a)
    BY <1>3, <2>1 DEF MayAnswer, GateFails, GateRequest
  <2>4. PICK d : CloudBecomes(d)
    BY <1>3 DEF GateFails
  <2>5. cancels' = cancels
    BY <1>3 DEF GateFails
  <2>6. remote' = remote \/ (remote = "running" /\ remote' = "ended")
    BY <2>4 DEF CloudBecomes
  <2> QED BY <2>1, <2>2, <2>3, <2>5, <2>6, AnswersCase
<1>4. CASE TransferEnds(q)
  <2>1. PICK a \in {"ok", "failed"} : Answers(q, a)
    BY <1>4 DEF TransferEnds
  <2>2. MayAnswer(q.kind, a) /\ cancels' = cancels /\ remote' = remote
    BY <1>4 DEF TransferEnds, MayAnswer
  <2> QED BY <2>1, <2>2, AnswersCase
<1>5. CASE TransferFails(q)
  <2>1. Answers(q, "failed") /\ MayAnswer(q.kind, "failed") /\ cancels' = cancels /\ remote' = remote
    BY <1>5 DEF TransferFails, MayAnswer
  <2> QED BY <2>1, AnswersCase
<1> QED BY <1>2, <1>3, <1>4, <1>5

(***************************************************************************)
(* The rest of Sky Port.                                                   *)
(***************************************************************************)
Events == {"job_canceled", "remove_entities", "job_finished", "start", "proc_started"}

LEMMA QueueTypes ==
    ASSUME TypeOK
    PROVE  /\ rq \in Seq(Events) /\ cq \in Seq(Events)
           /\ Len(rq) \in Nat /\ Len(cq) \in Nat
<1>1. /\ rq \in Seq({"job_canceled", "remove_entities", "job_finished"})
      /\ cq \in Seq({"job_canceled", "start", "proc_started", "job_finished"})
  BY DEF TypeOK, WorldOK
<1>2. rq \in Seq(Events) /\ cq \in Seq(Events)
  BY <1>1 DEF Events
<1> QED BY <1>2, LenProperties

(* An event added to a queue, and one taken from it.                       *)
LEMMA Added ==
    ASSUME NEW s \in Seq(Events), NEW e \in Events
    PROVE  /\ Len(Append(s, e)) = Len(s) + 1 /\ Len(s) \in Nat
           /\ \A i \in 1 .. Len(s) : Append(s, e)[i] = s[i]
           /\ Append(s, e)[Len(s) + 1] = e
           /\ \A i \in 1 .. Len(Append(s, e)) : i \in 1 .. Len(s) \/ i = Len(s) + 1
           /\ Len(s) + 1 \in 1 .. Len(Append(s, e))
           /\ \A i \in 1 .. Len(s) : i \in 1 .. Len(Append(s, e)) /\ i < Len(s) + 1
<1>1. /\ Len(Append(s, e)) = Len(s) + 1 /\ Len(s) \in Nat
      /\ \A i \in 1 .. Len(s) : Append(s, e)[i] = s[i]
      /\ Append(s, e)[Len(s) + 1] = e
  OBVIOUS
<1> QED BY <1>1

LEMMA Taken ==
    ASSUME NEW s \in Seq(Events), s # <<>>
    PROVE  /\ Head(s) = s[1] /\ 1 \in 1 .. Len(s) /\ Len(s) \in Nat
           /\ \A i \in 1 .. Len(Tail(s)) :
                 /\ Tail(s)[i] = s[i + 1] /\ i \in Nat /\ i + 1 # 1
                 /\ i + 1 \in 1 .. Len(s)
<1>1. Len(s) \in Nat /\ Len(s) > 0
  BY EmptySeq
<1>2. Head(s) = s[1]
  BY <1>1
<1>3. Len(Tail(s)) = Len(s) - 1 /\ \A i \in 1 .. Len(Tail(s)) : Tail(s)[i] = s[i + 1]
  BY HeadTailProperties
<1> QED BY <1>1, <1>2, <1>3

(* A step in which no process takes part.                                  *)
LEMMA StandCase ==
    ASSUME RInv, UNCHANGED process, job'.outputs = job.outputs,
           OnceInv', QueueInv', Downloading => Done',
           Calm' => Calm,
           Calm => (ents => ents') /\ StageOf(vr[First].st)',
           row' # None => row # None
    PROVE  RInv'
<1>1. CalmInv'
  BY DEF RInv, CalmInv, AloneInv, AwaitInv, Awaits, process
<1>2. DownloadInv'
  <2>1. Downloading' => Downloading
    BY DEF Downloading, process
  <2> QED BY <2>1 DEF DownloadInv
<1> QED BY <1>1, <1>2 DEF RInv

LEMMA QuietClauses ==
    ASSUME TypeOK, RInv,
           \/ PartitionComesUp \/ InputsVanish \/ RelocatorCleansUp \/ SchedulerReads
           \/ UNCHANGED vars
    PROVE  RInv'
<1>1. /\ UNCHANGED <<process, job, ents, rq, cq, remote, cancels>>
      /\ row' \in {row, None}
  BY DEF PartitionComesUp, InputsVanish, RelocatorCleansUp, SchedulerReads, vars,
         process, conf, queues, world
<1>2. UNCHANGED process /\ job' = job /\ ents' = ents
  BY <1>1
<1>3. Done => Done'
  BY <1>1 DEF Done, Finished
<1>4. OnceInv'
  BY <1>1 DEF RInv, OnceInv
<1>5. QueueInv'
  BY <1>1, <1>3 DEF RInv, QueueInv
<1>6. Downloading => Done'
  BY <1>3 DEF RInv, DownloadInv
<1>7. Calm' => Calm
  BY <1>1 DEF Calm
<1>8. ASSUME Calm PROVE StageOf(vr[First].st)'
  <2>1. StageOf(vr[First].st)
    BY <1>8 DEF RInv, CalmInv
  <2>2. NotStarted => NotStarted'
    BY <1>1 DEF NotStarted, PartitionComesUp, InputsVanish, RelocatorCleansUp, SchedulerReads,
                vars, queues
  <2>3. vr' = vr
    BY <1>1 DEF process
  <2> QED BY <1>1, <2>1, <2>2, <2>3 DEF StageOf
<1> QED BY <1>1, <1>2, <1>4, <1>5, <1>6, <1>7, <1>8, StandCase

LEMMA UserCancelsCase == ASSUME TypeOK, RInv, UserCancels PROVE RInv'
<1> DEFINE r == Append(rq, "job_canceled")
           c == Append(cq, "job_canceled")
<1>1. /\ UNCHANGED process /\ job'.outputs = job.outputs /\ job'.state = "C"
      /\ rq' = r /\ cq' = c
      /\ UNCHANGED <<row, ents, scheduling, remote>>
      /\ cancels \in Nat /\ cancels' = cancels + 1
  BY DEF UserCancels, SetState, TypeOK, WorldOK, RInv, QueueInv
<1>2. cancels' \in Nat /\ cancels' # 0
  BY <1>1
<1>3. /\ \A i \in 1 .. Len(rq) : r[i] = rq[i] /\ i \in 1 .. Len(r) /\ i < Len(rq) + 1
      /\ r[Len(rq) + 1] = "job_canceled" /\ Len(rq) + 1 \in 1 .. Len(r)
      /\ \A i \in 1 .. Len(r) : i \in 1 .. Len(rq) \/ i = Len(rq) + 1
  BY QueueTypes, Added DEF Events
<1>4. /\ \A i \in 1 .. Len(cq) : c[i] = cq[i]
      /\ c[Len(cq) + 1] = "job_canceled"
      /\ \A i \in 1 .. Len(c) : i \in 1 .. Len(cq) \/ i = Len(cq) + 1
  BY QueueTypes, Added DEF Events
<1> HIDE DEF r, c
<1>5. OnceInv'
  <2>1. OnceInv
    BY DEF RInv
  <2> QED BY <1>1, <1>4, <2>1 DEF OnceInv
<1>6. Done => Done'
  BY <1>1, <1>4 DEF Done, Finished
<1>7. QueueInv'
  <2> SUFFICES ASSUME row' # None
               PROVE  /\ row' = First
                      /\ \A i \in 1 .. Len(r) : r[i] # "remove_entities"
                      /\ \E i \in 1 .. Len(r) : r[i] = "job_canceled"
                      /\ \A i \in 1 .. Len(r) : r[i] = "job_finished" =>
                            Done' \/ \E h \in 1 .. Len(r) : h < i /\ r[h] = "job_canceled"
    BY <1>1, <1>2 DEF QueueInv
  <2>1. /\ row = First
        /\ \A i \in 1 .. Len(rq) : rq[i] # "remove_entities"
        /\ \A i \in 1 .. Len(rq) : rq[i] = "job_finished" =>
              Done \/ \E h \in 1 .. Len(rq) : h < i /\ rq[h] = "job_canceled"
    BY <1>1 DEF RInv, QueueInv
  <2>2. ASSUME NEW i \in 1 .. Len(r), r[i] = "job_finished"
        PROVE  Done' \/ \E h \in 1 .. Len(r) : h < i /\ r[h] = "job_canceled"
    <3>1. i \in 1 .. Len(rq) /\ rq[i] = "job_finished"
      BY <1>3, <2>2
    <3> QED BY <1>3, <1>6, <2>1, <3>1
  <2> QED BY <1>1, <1>3, <2>1, <2>2
<1>8. Downloading => Done'
  BY <1>6 DEF RInv, DownloadInv
<1>9. Calm' => Calm
  BY <1>1, <1>2 DEF Calm
<1>10. ASSUME Calm PROVE StageOf(vr[First].st)'
  <2>1. StageOf(vr[First].st) /\ vr' = vr
    BY <1>1, <1>10 DEF RInv, CalmInv, process
  <2>2. NotStarted => NotStarted'
    BY <1>1, <1>4 DEF NotStarted
  <2> QED BY <1>1, <2>1, <2>2 DEF StageOf
<1> QED BY <1>1, <1>5, <1>7, <1>8, <1>9, <1>10, StandCase

(* The relocator takes a cancel, or what it leaves behind.                 *)
LEMMA RelocatorHead ==
    ASSUME TypeOK, QueueInv, rq # <<>>, Head(rq) # "job_finished"
    PROVE  /\ cancels # 0
           /\ Head(rq) = "remove_entities" => row = None
<1>1. 1 \in 1 .. Len(rq) /\ Head(rq) = rq[1]
  BY QueueTypes, Taken
<1> QED BY <1>1 DEF QueueInv

LEMMA RelocatorRemovesCase == ASSUME TypeOK, RInv, RelocatorRemoves PROVE RInv'
<1>1. rq # <<>> /\ Head(rq) = "remove_entities" /\ QueueInv
  BY DEF RelocatorRemoves, RInv
<1>2. cancels # 0 /\ row = None
  BY <1>1, RelocatorHead
<1>3. UNCHANGED process /\ UNCHANGED <<job, row, cq, remote, cancels>>
  BY DEF RelocatorRemoves, world
<1>4. OnceInv' /\ QueueInv' /\ (Downloading => Done')
  BY <1>1, <1>2, <1>3 DEF RInv, OnceInv, QueueInv, DownloadInv, Done, Finished
<1>5. ~Calm /\ ~Calm'
  BY <1>2, <1>3 DEF Calm
<1> QED BY <1>2, <1>3, <1>4, <1>5, StandCase

LEMMA RelocatorCanceledCase == ASSUME TypeOK, RInv, RelocatorCanceled PROVE RInv'
<1>1. rq # <<>> /\ Head(rq) = "job_canceled" /\ QueueInv /\ ProcessOK /\ WorldOK
  BY DEF RelocatorCanceled, RInv, TypeOK
<1>2. cancels # 0 /\ cancels \in Nat
  BY <1>1, RelocatorHead DEF QueueInv
<1>3. row' = None /\ UNCHANGED <<requests, job, cq, remote, cancels>>
  BY DEF RelocatorCanceled, world
<1>4. CalmInv' /\ OnceInv' /\ QueueInv'
  BY <1>2, <1>3 DEF CalmInv, Calm, OnceInv, QueueInv, RInv
<1>5. ASSUME NEW t \in Tasks, NEW s \in Slot, <<"job_finished", s>> \in Tags(mail'[t])
      PROVE  <<"job_finished", s>> \in Tags(mail[t])
  <2>1. CASE row # None /\ Send(row, Msg(IF job.keep THEN "cancel_keep" ELSE "destroy"))
    <3> DEFINE k == IF job.keep THEN "cancel_keep" ELSE "destroy"
    <3>1. /\ Msg(k) \in Message /\ Msg(k).kind = k /\ k # "job_finished" /\ row \in Tasks
          /\ Send(row, Msg(k))
      BY <1>1, <2>1 DEF Msg, Message, Slot, RelocatorEvent, WorldOK
    <3> HIDE DEF k
    <3>2. Arrives(row, Msg(k))
      BY <1>1, <3>1, SendArrives
    <3> QED BY <1>5, <3>1, <3>2 DEF Arrives
  <2>2. CASE mail' = mail
    BY <1>5, <2>2
  <2>3. CASE \E u \in Unused : mail' = [mail EXCEPT ![u] = <<Msg("activate")>>]
    <3>1. PICK u \in Unused : mail' = [mail EXCEPT ![u] = <<Msg("activate")>>]
      BY <2>3
    <3>2. Tags(<<Msg("activate")>>) = {<<"activate", "none">>}
      BY MsgType DEF RelocatorEvent
    <3>3. CASE t = u
      BY <1>1, <1>5, <3>1, <3>2, <3>3 DEF ProcessOK
    <3>4. CASE t # u
      BY <1>1, <1>5, <3>1, <3>4 DEF ProcessOK
    <3> QED BY <3>3, <3>4
  <2> QED BY <2>1, <2>2, <2>3 DEF RelocatorCanceled
<1>6. DownloadInv'
  <2>1. Downloading' => Downloading
    BY <1>3, <1>5 DEF Downloading
  <2>2. Done => Done'
    BY <1>3 DEF Done, Finished
  <2> QED BY <2>1, <2>2 DEF RInv, DownloadInv
<1> QED BY <1>4, <1>6 DEF RInv

LEMMA RelocatorFinishedCase == ASSUME TypeOK, RInv, RelocatorFinished PROVE RInv'
<1>1. /\ rq # <<>> /\ Head(rq) = "job_finished" /\ rq' = Tail(rq) /\ row' = None
      /\ UNCHANGED <<vr, timers, requests, job, ents, cq, scheduling, remote, cancels>>
  BY DEF RelocatorFinished, world
<1>2. /\ rq[1] = "job_finished" /\ 1 \in 1 .. Len(rq)
      /\ \A i \in 1 .. Len(rq') : rq'[i] = rq[i + 1] /\ i + 1 \in 1 .. Len(rq)
  BY <1>1, QueueTypes, Taken
<1>3. OnceInv' /\ (Done => Done')
  BY <1>1 DEF RInv, OnceInv, Done, Finished
<1>4. QueueInv'
  <2>1. QueueInv
    BY DEF RInv
  <2> QED BY <1>1, <1>2, <2>1 DEF QueueInv
<1>5. ProcessOK /\ First \in Tasks
  BY TasksAssumption DEF TypeOK
<1>6. CASE row # None /\ Send(row, Msg("job_finished"))
  <2>1. row = First /\ Calm
    BY <1>6 DEF RInv, QueueInv, Calm
  <2>2. Done
    <3>1. \A h \in 1 .. Len(rq) : ~(h < 1)
      OBVIOUS
    <3> QED BY <1>2, <1>6, <3>1 DEF RInv, QueueInv
  <2>3. /\ AloneInv /\ AwaitInv /\ StageOf(vr[First].st) /\ ~Awaits("job_finished")
    BY <1>6, <2>1 DEF RInv, CalmInv
  <2>4. vr[First].st = "running"
    <3>1. ~NotStarted
      BY <2>2 DEF Done, Finished, NotStarted
    <3> QED BY <1>6, <2>3, <3>1 DEF StageOf
  <2>5. \A k : ~Awaits(k)
    <3>1. \A k : Awaits(k) => k = "job_finished"
      BY <2>3, <2>4 DEF AwaitInv, MayAwait
    <3> QED BY <2>3, <3>1
  <2>6. mail[First] = <<>>
    <3> SUFFICES ASSUME mail[First] # <<>> PROVE FALSE
      OBVIOUS
    <3>1. mail[First] \in Seq(Message)
      BY FirstType, <1>5
    <3>2. Len(mail[First]) \in Nat \ {0}
      BY <3>1, EmptySeq
    <3>3. 1 \in 1 .. Len(mail[First])
      BY <3>2
    <3> QED BY <2>5, <3>3 DEF Awaits
  <2>7. timers'[First] = {} /\ requests' = {} /\ vr' = vr
    BY <1>1, <2>5 DEF Awaits
  <2>8. mail'[First] = <<Msg("job_finished")>>
    <3>1. mail'[First] = Append(<<>>, Msg("job_finished"))
      BY <1>5, <1>6, <2>1, <2>4, <2>6 DEF Send, Alive, Working, ProcessOK
    <3> QED BY <3>1, OneMessage
  <2>9. AloneInv' /\ \A h : Awaits(h)' => h = "job_finished"
    <3>1. AloneInv' /\ \A h : Awaits(h)' => h = Msg("job_finished").kind
      BY <2>3, <2>7, <2>8, ArrivesAlone
    <3> QED BY <3>1 DEF Msg
  <2>10. AwaitInv'
    BY <2>4, <2>7, <2>9 DEF AwaitInv, MayAwait, AfterUp
  <2>11. StageOf(vr[First].st)'
    BY <1>1, <2>4, <2>7 DEF StageOf, Early
  <2>12. CalmInv'
    BY <1>1, <2>9, <2>10, <2>11 DEF CalmInv
  <2>13. DownloadInv'
    BY <1>3, <2>2 DEF DownloadInv
  <2> QED BY <1>3, <1>4, <2>12, <2>13 DEF RInv
<1>7. CASE mail' = mail
  <2>1. UNCHANGED process /\ job' = job /\ ents' = ents
    BY <1>1, <1>7 DEF process
  <2>2. Downloading => Done'
    BY <1>3 DEF RInv, DownloadInv
  <2>3. Calm' => Calm
    BY <1>1 DEF Calm
  <2>4. ASSUME Calm PROVE StageOf(vr[First].st)'
    BY <1>1, <2>4 DEF RInv, CalmInv, StageOf, NotStarted
  <2> QED BY <1>1, <1>3, <1>4, <2>1, <2>2, <2>3, <2>4, StandCase
<1> QED BY <1>6, <1>7 DEF RelocatorFinished

(* Steps of a job that has been started, or soon will be.                  *)
LEMMA StartedCase ==
    ASSUME TypeOK, RInv, UNCHANGED process, ~NotStarted,
           UNCHANGED <<row, ents, cancels>>, job'.outputs = job.outputs,
           OnceInv', QueueInv', Downloading => Done'
    PROVE  RInv'
<1>1. Calm' => Calm
  BY DEF Calm
<1>2. ASSUME Calm PROVE StageOf(vr[First].st)'
  <2>1. StageOf(vr[First].st) /\ vr' = vr
    BY <1>2 DEF RInv, CalmInv, process
  <2> QED BY <2>1 DEF StageOf
<1> QED BY <1>1, <1>2, StandCase

(* The queue of wm_relocator is as it was, or has one event more.          *)
LEMMA QueueKept ==
    ASSUME TypeOK, QueueInv, UNCHANGED <<row, cancels>>,
           cancels = 0 => \A i \in 1 .. Len(cq') : cq'[i] # "job_canceled",
           Done => Done',
           \/ rq' = rq
           \/ rq' = Append(rq, "job_finished") /\ (cancels = 0 => Done')
    PROVE  QueueInv'
<1>1. CASE rq' = rq
  BY <1>1 DEF QueueInv
<1>2. CASE rq' = Append(rq, "job_finished") /\ (cancels = 0 => Done')
  <2> DEFINE r == Append(rq, "job_finished")
  <2>1. /\ \A i \in 1 .. Len(rq) : r[i] = rq[i] /\ i \in 1 .. Len(r) /\ i < Len(rq) + 1
        /\ r[Len(rq) + 1] = "job_finished"
        /\ \A i \in 1 .. Len(r) : i \in 1 .. Len(rq) \/ i = Len(rq) + 1
    BY QueueTypes, Added DEF Events
  <2>2. rq' = r
    BY <1>2
  <2> HIDE DEF r
  <2>3. ASSUME row # None, NEW i \in 1 .. Len(r), r[i] = "job_finished"
        PROVE  Done' \/ \E h \in 1 .. Len(r) : h < i /\ r[h] = "job_canceled"
    <3>1. CASE i \in 1 .. Len(rq)
      BY <2>1, <2>3, <3>1 DEF QueueInv
    <3>2. CASE i = Len(rq) + 1
      <4>1. cancels # 0 => \E h \in 1 .. Len(rq) : rq[h] = "job_canceled"
        BY <2>3 DEF QueueInv
      <4> QED BY <1>2, <2>1, <3>2, <4>1
    <3> QED BY <2>1, <3>1, <3>2
  <2>4. row # None =>
          /\ row = First
          /\ \A i \in 1 .. Len(r) : r[i] # "remove_entities"
          /\ cancels # 0 => \E i \in 1 .. Len(r) : r[i] = "job_canceled"
    BY <2>1 DEF QueueInv
  <2>5. cancels = 0 => \A i \in 1 .. Len(r) : r[i] = "job_finished"
    BY <2>1 DEF QueueInv
  <2> QED BY <2>2, <2>3, <2>4, <2>5 DEF QueueInv
<1> QED BY <1>1, <1>2

LEMMA StartClauses ==
    ASSUME TypeOK, RInv, SchedulerResult \/ ComputeStarts \/ RemoteStarts \/ RemoteEnds
    PROVE  RInv'
<1>1. OnceInv /\ QueueInv
  BY DEF RInv
<1>2. ASSUME NEW e \in {"start", "proc_started", "job_finished"}, cq' = Append(cq, e)
      PROVE  /\ \A i \in 1 .. Len(cq) : cq'[i] = cq[i]
             /\ cq'[Len(cq) + 1] = e
             /\ \A i \in 1 .. Len(cq') : i \in 1 .. Len(cq) \/ i = Len(cq) + 1
  BY <1>2, QueueTypes, Added DEF Events
<1>3. CASE SchedulerResult
  <2>1. /\ UNCHANGED process /\ scheduling /\ job'.outputs = job.outputs /\ job'.state = "W"
        /\ cq' = Append(cq, "start") /\ rq' = rq
        /\ UNCHANGED <<row, ents, remote, cancels>>
    BY <1>3 DEF SchedulerResult, SetState, world, TypeOK, WorldOK
  <2>2. OnceInv' /\ (Done => Done')
    BY <1>1, <1>2, <2>1 DEF OnceInv, Done, Finished
  <2>3. QueueInv'
    <3>1. cancels = 0 => \A i \in 1 .. Len(cq') : cq'[i] # "job_canceled"
      BY <1>1, <1>2, <2>1 DEF QueueInv
    <3> QED BY <1>1, <2>1, <2>2, <3>1, QueueKept
  <2>4. ~NotStarted /\ (Downloading => Done')
    BY <2>1, <2>2 DEF NotStarted, RInv, DownloadInv
  <2> QED BY <2>1, <2>2, <2>3, <2>4, StartedCase
<1>4. CASE ComputeStarts
  <2>1. /\ UNCHANGED process /\ job' = job /\ rq' = rq /\ UNCHANGED <<row, ents, cancels>>
        /\ cq # <<>> /\ Head(cq) = "start" /\ cq' \in {Tail(cq), <<>>}
        /\ remote' \in {remote, IF remote = "idle" THEN "sent" ELSE remote}
    BY <1>4 DEF ComputeStarts, conf
  <2>2. cq[1] = "start" /\ 1 \in 1 .. Len(cq)
    BY <2>1, QueueTypes, Taken
  <2>3. \A i \in 1 .. Len(cq') : \E h \in 1 .. Len(cq) : cq'[i] = cq[h]
    <3>1. CASE cq' = Tail(cq)
      BY <2>1, <3>1, QueueTypes, Taken
    <3>2. CASE cq' = <<>>
      BY <3>2
    <3> QED BY <2>1, <3>1, <3>2
  <2>4. (remote' # "ended" => remote # "ended") /\ (remote = "ended" => remote' = "ended")
    BY <2>1
  <2>5. OnceInv'
    <3>1. remote' # "ended" => \A i \in 1 .. Len(cq') : cq'[i] # "job_finished"
      BY <1>1, <2>3, <2>4 DEF OnceInv
    <3>2. \A i, h \in 1 .. Len(cq') : cq'[i] = "job_finished" /\ cq'[h] = "job_finished" => i = h
      <4>1. CASE cq' = Tail(cq)
        <5> SUFFICES ASSUME NEW i \in 1 .. Len(cq'), NEW h \in 1 .. Len(cq'),
                            cq'[i] = "job_finished", cq'[h] = "job_finished"
                     PROVE  i = h
          OBVIOUS
        <5>1. /\ cq'[i] = cq[i + 1] /\ i \in Nat /\ i + 1 \in 1 .. Len(cq)
              /\ cq'[h] = cq[h + 1] /\ h \in Nat /\ h + 1 \in 1 .. Len(cq)
          BY <2>1, <4>1, QueueTypes, Taken
        <5>2. i + 1 = h + 1
          BY <1>1, <5>1 DEF OnceInv
        <5> QED BY <5>1, <5>2
      <4>2. CASE cq' = <<>>
        BY <4>2
      <4> QED BY <2>1, <4>1, <4>2
    <3> QED BY <3>1, <3>2 DEF OnceInv
  <2>6. Done => Done'
    BY <2>1, <2>3, <2>4 DEF Done, Finished
  <2>7. QueueInv'
    <3>1. cancels = 0 => \A i \in 1 .. Len(cq') : cq'[i] # "job_canceled"
      BY <1>1, <2>1, <2>3 DEF QueueInv
    <3> QED BY <1>1, <2>1, <2>6, <3>1, QueueKept
  <2>8. ~NotStarted /\ (Downloading => Done')
    BY <2>2, <2>6 DEF NotStarted, RInv, DownloadInv
  <2> QED BY <2>1, <2>5, <2>7, <2>8, StartedCase
<1>5. CASE RemoteStarts \/ RemoteEnds
  <2>1. /\ UNCHANGED process /\ job' = job /\ rq' = rq /\ UNCHANGED <<row, ents, cancels>>
        /\ remote \in {"sent", "running"}
    BY <1>5 DEF RemoteStarts, RemoteEnds, conf
  <2>2. PICK e \in {"proc_started", "job_finished"} :
           cq' = Append(cq, e) /\ (e = "job_finished" => remote' = "ended")
    BY <1>5 DEF RemoteStarts, RemoteEnds
  <2>3. /\ \A i \in 1 .. Len(cq) : cq'[i] = cq[i] /\ cq[i] # "job_finished"
        /\ cq'[Len(cq) + 1] = e
        /\ \A i \in 1 .. Len(cq') : i \in 1 .. Len(cq) \/ i = Len(cq) + 1
    BY <1>1, <1>2, <2>1, <2>2 DEF OnceInv
  <2>4. OnceInv'
    BY <2>2, <2>3 DEF OnceInv
  <2>5. ~Done /\ ~NotStarted
    BY <2>1 DEF Done, Finished, NotStarted
  <2>6. QueueInv'
    <3>1. cancels = 0 => \A i \in 1 .. Len(cq') : cq'[i] # "job_canceled"
      BY <1>1, <2>2, <2>3 DEF QueueInv
    <3> QED BY <1>1, <2>1, <2>5, <3>1, QueueKept
  <2>7. Downloading => Done'
    BY <2>5 DEF RInv, DownloadInv
  <2> QED BY <2>1, <2>4, <2>5, <2>6, <2>7, StartedCase
<1> QED BY <1>3, <1>4, <1>5

LEMMA ComputeUpdatesCase == ASSUME TypeOK, RInv, ComputeUpdates PROVE RInv'
<1> DEFINE e == Head(cq)
<1>1. OnceInv /\ QueueInv
  BY DEF RInv
<1>2. /\ UNCHANGED process /\ job'.outputs = job.outputs
      /\ cq # <<>> /\ cq' = Tail(cq) /\ e \in {"proc_started", "job_finished", "job_canceled"}
      /\ job'.state = CASE e = "proc_started" -> "R"
                        [] e = "job_finished" -> "F"
                        [] e = "job_canceled" -> "C"
      /\ rq' = IF e = "proc_started" THEN rq ELSE Append(rq, "job_finished")
      /\ UNCHANGED <<row, ents, scheduling, remote, cancels>>
  BY DEF ComputeUpdates, SetState, world, TypeOK, WorldOK
<1>3. /\ cq[1] = e /\ 1 \in 1 .. Len(cq)
      /\ \A i \in 1 .. Len(cq') : /\ cq'[i] = cq[i + 1] /\ i \in Nat /\ i + 1 # 1
                                  /\ i + 1 \in 1 .. Len(cq)
  BY <1>2, QueueTypes, Taken
<1> HIDE DEF e
<1>4. OnceInv'
  <2>1. \A i, h \in 1 .. Len(cq') : cq'[i] = "job_finished" /\ cq'[h] = "job_finished" => i = h
    <3> SUFFICES ASSUME NEW i \in 1 .. Len(cq'), NEW h \in 1 .. Len(cq'),
                        cq'[i] = "job_finished", cq'[h] = "job_finished"
                 PROVE  i = h
      OBVIOUS
    <3>1. i \in Nat /\ h \in Nat /\ i + 1 = h + 1
      BY <1>1, <1>3 DEF OnceInv
    <3> QED BY <3>1
  <2> QED BY <1>1, <1>2, <1>3, <2>1 DEF OnceInv
<1>5. Finished => Finished'
  BY <1>2, <1>3 DEF Finished
<1>6. cancels = 0 => \A i \in 1 .. Len(cq') : cq'[i] # "job_canceled"
  BY <1>1, <1>3 DEF QueueInv
<1>7. CASE e = "proc_started"
  <2>1. Done => Done'
    BY <1>2, <1>5, <1>7 DEF Done
  <2>2. QueueInv'
    BY <1>1, <1>2, <1>6, <1>7, <2>1, QueueKept
  <2>3. ~NotStarted /\ (Downloading => Done')
    BY <1>3, <1>7, <2>1 DEF NotStarted, RInv, DownloadInv
  <2> QED BY <1>2, <1>4, <2>2, <2>3, StartedCase
<1>8. CASE e = "job_finished"
  <2>1. ~Done /\ ~NotStarted
    BY <1>3, <1>8 DEF Done, Finished, NotStarted
  <2>2. cancels = 0 => Done'
    <3>1. remote = "ended" /\ \A i \in 1 .. Len(cq') : cq'[i] # "job_finished"
      BY <1>1, <1>3, <1>8 DEF OnceInv
    <3> QED BY <1>2, <3>1 DEF Done, Finished
  <2>3. QueueInv'
    BY <1>1, <1>2, <1>6, <1>8, <2>1, <2>2, QueueKept
  <2>4. Downloading => Done'
    BY <2>1 DEF RInv, DownloadInv
  <2> QED BY <1>2, <1>4, <2>1, <2>3, <2>4, StartedCase
<1>9. CASE e = "job_canceled"
  <2>1. Done => Done'
    BY <1>2, <1>5, <1>9 DEF Done
  <2>2. cancels # 0
    BY <1>1, <1>3, <1>9 DEF QueueInv
  <2>3. QueueInv'
    BY <1>1, <1>2, <1>6, <1>9, <2>1, <2>2, QueueKept
  <2>4. Downloading => Done'
    BY <2>1 DEF RInv, DownloadInv
  <2>5. Calm' => Calm
    BY <1>2 DEF Calm
  <2>6. ASSUME Calm PROVE StageOf(vr[First].st)'
    <3>1. StageOf(vr[First].st) /\ vr' = vr
      BY <1>2, <2>6 DEF RInv, CalmInv, process
    <3>2. job'.state = "C" /\ (NotStarted => NotStarted')
      BY <1>2, <1>3, <1>9 DEF NotStarted
    <3> QED BY <1>2, <3>1, <3>2 DEF StageOf
  <2> QED BY <1>2, <1>4, <2>3, <2>4, <2>5, <2>6, StandCase
<1> QED BY <1>2, <1>7, <1>8, <1>9

(***************************************************************************)
(* The invariant holds at first, and every step preserves it.              *)
(***************************************************************************)
LEMMA InitRInv == Init => RInv
<1> SUFFICES ASSUME Init PROVE RInv
  OBVIOUS
<1>1. /\ vr[First] = Fresh("create") /\ mail[First] = <<Msg("activate")>>
      /\ timers[First] = {} /\ requests = {} /\ row = First
      /\ \A t \in Tasks : t # First => vr[t].st = "none" /\ mail[t] = <<>>
  BY TasksAssumption DEF Init, NotSpawned
<1>2. /\ rq = <<>> /\ cq = <<>> /\ ~scheduling /\ remote = "idle" /\ cancels = 0
      /\ job.state = "W"
  BY DEF Init
<1>3. Len(<<>>) = 0 /\ 1 .. 0 = {}
  OBVIOUS
<1>4. Msg("activate").kind = "activate" /\ Msg("activate").slot = "none"
  BY DEF Msg
<1>5. AloneInv
  BY <1>1, OneMessage DEF AloneInv
<1>6. \A k : Awaits(k) => k = "activate"
  BY <1>1, <1>4, OneMessage DEF Awaits
<1>7. vr[First].st = "sleeping" /\ vr[First].action = "create"
  BY <1>1 DEF Fresh
<1>8. AwaitInv
  BY <1>6, <1>7 DEF AwaitInv, MayAwait, AfterUp
<1>9. StageOf(vr[First].st)
  BY <1>2, <1>3, <1>7 DEF StageOf, NotStarted, Early
<1>10. CalmInv
  BY <1>5, <1>6, <1>8, <1>9 DEF CalmInv
<1>11. OnceInv /\ QueueInv
  BY <1>1, <1>2, <1>3 DEF OnceInv, QueueInv
<1>12. DownloadInv
  <2>1. \A t \in Tasks : Tags(mail[t]) \subseteq {<<"activate", "none">>}
    BY <1>1, MsgType, NoTags DEF RelocatorEvent
  <2> QED BY <1>1, <2>1 DEF DownloadInv, Downloading
<1> QED BY <1>10, <1>11, <1>12 DEF RInv

LEMMA StepRInv == TypeOK /\ RInv /\ [Next]_vars => RInv'
<1> SUFFICES ASSUME TypeOK, RInv, [Next]_vars PROVE RInv'
  OBVIOUS
<1>1. CASE \E t \in Tasks : Handle(t) \/ WorkerFails(t)
  BY <1>1, HandleClauses
<1>2. CASE \E t \in Tasks, k \in Timer : Fire(t, k)
  BY <1>2, FireCase
<1>3. CASE \E q \in requests : Answer(q) \/ GateFails(q) \/ TransferFails(q)
  BY <1>3, AnswerClauses DEF Answer
<1>4. CASE SkyPort
  BY <1>4, RelocatorCanceledCase, RelocatorRemovesCase, RelocatorFinishedCase,
     QuietClauses, StartClauses, ComputeUpdatesCase DEF SkyPort
<1>5. CASE \/ PartitionComesUp \/ InputsVanish \/ UserCancels \/ RelocatorCleansUp
           \/ RemoteStarts \/ RemoteEnds
  BY <1>5, QuietClauses, UserCancelsCase, StartClauses
<1>6. CASE UNCHANGED vars
  BY <1>6, QuietClauses
<1> QED BY <1>1, <1>2, <1>3, <1>4, <1>5, <1>6 DEF Next

LEMMA Relocation == Spec => [](TypeOK /\ RInv)
<1>1. Spec => []TypeOK
  BY TypeCorrect
<1>2. Spec => []RInv
  <2>1. Init => RInv
    BY InitRInv
  <2>2. TypeOK /\ RInv /\ [Next]_vars => RInv'
    BY StepRInv
  <2> QED BY <1>1, <2>1, <2>2, PTL DEF Spec
<1> QED BY <1>1, <1>2, PTL

(* A row whose process has ended is one that wm_relocator may drop         *)
(* (cleanup_orphan_relocations): whatever fails in the relocation, and     *)
(* whenever the user cancels, the job is in a terminal state by then.      *)
THEOREM RowIsRecoverable == Spec => []RowRecoverable
<1>1. TypeOK /\ RInv => RowRecoverable
  <2> SUFFICES ASSUME TypeOK, RInv, row # None, ~Alive(row)
               PROVE  job.state \in {"C", "F", "E"}
    BY DEF RowRecoverable
  <2>1. row = First /\ Calm
    BY DEF RInv, QueueInv, Calm
  <2>2. StageOf(vr[First].st)
    BY <2>1 DEF RInv, CalmInv
  <2>3. vr[First].st = "stopped"
    BY <2>1, <2>2 DEF StageOf, Alive, Working, Early
  <2> QED BY <2>2, <2>3 DEF StageOf
<1> QED BY <1>1, Relocation, PTL

(* The partition of a job FINISHED is not deleted while its results are    *)
(* downloaded (finish_or_destroy_resources waits for the transfer), for    *)
(* jobs without output files: with them two downloads run, and the process *)
(* waits for the one it asked for last.                                    *)
THEOREM DownloadedFirst ==
    ASSUME OutputOptions \subseteq {FALSE}
    PROVE  Spec => []DownloadsBeforeDelete
<1>1. TypeOK /\ RInv => DownloadsBeforeDelete
  <2> SUFFICES ASSUME TypeOK, RInv, job.state = "F",
                      NEW q \in requests, NEW p \in requests,
                      q.kind \in {"logs", "outputs"}, p.kind = "delete"
               PROVE  FALSE
    BY DEF DownloadsBeforeDelete
  <2>1. Done
    BY DEF RInv, DownloadInv, Downloading
  <2>2. Calm
    <3>1. ~job.outputs
      BY DEF TypeOK, WorldOK
    <3> QED BY <2>1, <3>1 DEF Done, Calm
  <2>3. q = p
    BY <2>2 DEF RInv, CalmInv, AloneInv
  <2> QED BY <2>3
<1> QED BY <1>1, Relocation, PTL
=============================================================================
