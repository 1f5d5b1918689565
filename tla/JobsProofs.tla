----------------------------- MODULE JobsProofs -----------------------------
(***************************************************************************)
(* Theorems about Jobs, for every set of jobs and of nodes and every value *)
(* of the bounds on starts, snapshots and faults.                          *)
(***************************************************************************)
EXTENDS Jobs, TLAPS

(* The timing the properties assume: a snapshot is answered, and its jobs  *)
(* started, before the next; nothing is planned for later; users requeue   *)
(* once, what has ended.                                                   *)
OneAtATime ==
    /\ Prompt /\ ~LaterRows
    /\ RequeueFrom \subseteq {"F", "E"}
    /\ MaxRequeues <= 1

(* A launch that has given back all it will ever give back: one of the     *)
(* head frees its node before its end is handled.                          *)
Gone(l) == \/ Launch(l).st \in {"unused", "done"}
           \/ Launch(l).st = "reported" /\ Local(l)
Held(l) == IF Gone(l) THEN {} ELSE Launch(l).nodes

(* The last start of the job, if there was one, has come to its end.       *)
Over(j) == made[j] > 0 => Gone(<<j, made[j]>>)

(* The rows that are still to be started.                                  *)
Pending == IF timers + starts > 0 THEN timetable ELSE {}

StageInv ==
    /\ Len(asked) + timers + starts <= 1
    /\ times \subseteq {"now"}

SnapshotInv ==
    \A i \in 1 .. Len(asked) :
        /\ \A n \in asked[i].idle : alloc[n] = "idle"
        /\ \A j \in asked[i].jobs : job[j].state # "none" /\ Over(j)

RowInv ==
    /\ \A r \in Pending :
         /\ r.now /\ r.main \in r.nodes
         /\ job[r.job].state \notin {"none", "Q"}
         /\ Over(r.job)
         /\ \A n \in r.nodes : alloc[n] = "idle"
    /\ \A r, q \in Pending :
         r # q => r.job # q.job /\ r.nodes \cap q.nodes = {}

QueueInv ==
    \A j \in JobIds :
        /\ job[j].state = "none" => made[j] = 0
        /\ job[j].state = "Q" => Over(j)

(* The starts of a job are numbered, and only the last may be going on.    *)
LaunchInv ==
    \A j \in JobIds :
        /\ made[j] > 0 => job[j].nodes = launch[j][made[j]].nodes
        /\ \A k \in Numbers :
             /\ k > made[j] => launch[j][k].st = "unused"
             /\ k < made[j] => Gone(<<j, k>>)
             /\ launch[j][k].st # "unused" => launch[j][k].main \in launch[j][k].nodes

EventInv ==
    /\ \A e \in events : e.type = "finished" =>
         launch[e.job][e.num].st = "reported" /\ e.state \in Ended
    /\ \A e, f \in events :
         e.type = "finished" /\ f.type = "finished" /\ e.job = f.job /\ e.num = f.num
         => e = f

(* Before anything is requeued a job is started once.                      *)
FirstInv ==
    requeues = 0 =>
        \A j \in JobIds :
            /\ made[j] <= 1
            /\ made[j] = 1 =>
                 /\ job[j].state # "Q"
                 /\ \A i \in 1 .. Len(asked) : j \notin asked[i].jobs
                 /\ \A r \in Pending : r.job # j
            /\ job[j].state \in {"F", "E"} => made[j] = 1 /\ Over(j)

HeldInv ==
    /\ \A l \in Launches : \A n \in Held(l) : alloc[n] = "busy"
    /\ \A l, m \in Launches : l # m => Held(l) \cap Held(m) = {}

Safe == /\ StageInv /\ SnapshotInv /\ RowInv /\ QueueInv /\ LaunchInv
        /\ EventInv /\ FirstInv /\ HeldInv
IInv == TypeOK /\ Safe

-----------------------------------------------------------------------------
(***************************************************************************)
(* What the two assignments most actions are made of do.                   *)
(***************************************************************************)
LaunchRecord == [st : LaunchState, nodes : SUBSET Nodes,
                 main : Nodes \cup {Manager}, told : BOOLEAN]
JobRecord == [state : JobState, nodes : SUBSET Nodes]

LEMMA SetLaunchIs ==
    ASSUME launch \in [JobIds -> [Numbers -> LaunchRecord]],
           NEW j \in JobIds, NEW k \in Numbers, NEW s \in LaunchState,
           SetLaunch(<<j, k>>, s)
    PROVE  /\ launch' \in [JobIds -> [Numbers -> LaunchRecord]]
           /\ launch'[j][k] = [launch[j][k] EXCEPT !.st = s]
           /\ \A i \in JobIds, m \in Numbers :
                i # j \/ m # k => launch'[i][m] = launch[i][m]
<1>1. launch' = [launch EXCEPT ![j] = [launch[j] EXCEPT ![k] = [launch[j][k] EXCEPT !.st = s]]]
  BY DEF SetLaunch
<1>2. launch[j][k] \in LaunchRecord
  OBVIOUS
<1>3. [launch[j][k] EXCEPT !.st = s] \in LaunchRecord
  BY <1>2 DEF LaunchRecord
<1>4. [launch[j] EXCEPT ![k] = [launch[j][k] EXCEPT !.st = s]] \in [Numbers -> LaunchRecord]
  BY <1>3
<1> QED BY <1>1, <1>3, <1>4

LEMMA SetStateIs ==
    ASSUME job \in [JobIds -> JobRecord], NEW j \in JobIds, NEW s \in JobState,
           SetState(j, s)
    PROVE  /\ job' \in [JobIds -> JobRecord]
           /\ job'[j].state = s
           /\ \A i \in JobIds : job'[i].nodes = job[i].nodes
           /\ \A i \in JobIds : i # j => job'[i] = job[i]
  BY DEF SetState, JobRecord

(* A launch is a pair of a job and a number.                               *)
LEMMA LaunchPair ==
    ASSUME NEW l \in Launches
    PROVE  /\ l[1] \in JobIds /\ l[2] \in Numbers /\ l = <<l[1], l[2]>>
           /\ Launch(l) = launch[l[1]][l[2]]
  BY DEF Launches, Launch

LEMMA RecordTypes ==
    TypeOK => /\ launch \in [JobIds -> [Numbers -> LaunchRecord]]
              /\ job \in [JobIds -> JobRecord]
  BY DEF TypeOK, LaunchRecord, JobRecord

(***************************************************************************)
(* The start of the rows of the timetable, job by job.                     *)
(***************************************************************************)
Now == {r \in timetable : r.now}
RowOf(j) == CHOOSE r \in Now : r.job = j
Starts(j) == \E r \in Now : r.job = j
NewLaunch(r) == [st |-> IF r.main = Manager THEN "sleeping" ELSE "transfer",
                 nodes |-> r.nodes, main |-> r.main, told |-> FALSE]

LEMMA RowOfIs ==
    ASSUME TypeOK, NEW j \in JobIds, Starts(j)
    PROVE  RowOf(j) \in Now /\ RowOf(j).job = j /\ RowOf(j) \in Row
<1>1. \E r \in Now : r.job = j
  BY DEF Starts
<1>2. RowOf(j) \in Now /\ RowOf(j).job = j
  BY <1>1 DEF RowOf
<1> QED BY <1>2 DEF TypeOK, Now, Row

LEMMA StartJobsIs ==
    ASSUME TypeOK, StartJobs
    PROVE  /\ \A j \in JobIds : Starts(j) =>
                /\ made[j] < MaxStarts /\ made'[j] = made[j] + 1
                /\ job'[j] = [job[j] EXCEPT !.nodes = RowOf(j).nodes]
                /\ \A k \in Numbers : launch'[j][k] =
                     IF k = made[j] + 1 THEN NewLaunch(RowOf(j)) ELSE launch[j][k]
           /\ \A j \in JobIds : ~Starts(j) =>
                /\ made'[j] = made[j] /\ job'[j] = job[j]
                /\ \A k \in Numbers : launch'[j][k] = launch[j][k]
           /\ \A n \in Nodes : alloc'[n] =
                IF \E r \in Now : n \in r.nodes THEN "busy" ELSE alloc[n]
<1> DEFINE jobs == {r.job : r \in Now}
<1>1. \A j \in JobIds : j \in jobs <=> Starts(j)
  BY DEF Starts
<1>2. /\ \A j \in jobs : made[j] < MaxStarts
      /\ job' = [j \in JobIds |-> IF j \in jobs
                   THEN [job[j] EXCEPT !.nodes = RowOf(j).nodes] ELSE job[j]]
      /\ alloc' = [n \in Nodes |-> IF \E r \in Now : n \in r.nodes
                                   THEN "busy" ELSE alloc[n]]
      /\ made' = [j \in JobIds |-> IF j \in jobs THEN made[j] + 1 ELSE made[j]]
      /\ launch' = [j \in JobIds |-> [k \in Numbers |->
           IF j \in jobs /\ k = made'[j] THEN NewLaunch(RowOf(j)) ELSE launch[j][k]]]
  BY Zenon DEF StartJobs, Now, RowOf, NewLaunch
<1> HIDE DEF jobs
<1>3. \A j \in JobIds : Starts(j) => made[j] < MaxStarts /\ made'[j] = made[j] + 1
  BY <1>1, <1>2
<1>4. \A j \in JobIds : ~Starts(j) => made'[j] = made[j]
  BY <1>1, <1>2
<1>5. \A j \in JobIds : job'[j] =
        IF Starts(j) THEN [job[j] EXCEPT !.nodes = RowOf(j).nodes] ELSE job[j]
  BY <1>1, <1>2
<1>6. \A j \in JobIds, k \in Numbers : launch'[j][k] =
        IF Starts(j) /\ k = made[j] + 1 THEN NewLaunch(RowOf(j)) ELSE launch[j][k]
  BY <1>1, <1>2, <1>3
<1> QED BY <1>2, <1>3, <1>4, <1>5, <1>6

(***************************************************************************)
(* Types                                                                   *)
(***************************************************************************)
LEMMA StartJobsType == TypeOK /\ StartJobs => TypeOK'
<1> SUFFICES ASSUME TypeOK, StartJobs PROVE TypeOK'
  OBVIOUS
<1>1. /\ launch \in [JobIds -> [Numbers -> LaunchRecord]]
      /\ job \in [JobIds -> JobRecord]
      /\ made \in [JobIds -> 0..MaxStarts] /\ MaxStarts \in Nat
  BY RecordTypes, BoundsAssumption DEF TypeOK
<1>2. /\ DOMAIN job' = JobIds /\ job' = [j \in JobIds |-> job'[j]]
      /\ made' = [j \in JobIds |-> made'[j]]
      /\ alloc' = [n \in Nodes |-> alloc'[n]]
      /\ launch' = [j \in JobIds |-> [k \in Numbers |-> launch'[j][k]]]
  BY Zenon DEF StartJobs
<1>3. \A j \in JobIds : Starts(j) => RowOf(j) \in Row
  BY RowOfIs
<1>4. ASSUME NEW j \in JobIds PROVE job'[j] \in JobRecord
  <2>1. job[j] \in JobRecord
    BY <1>1
  <2>2. CASE Starts(j)
    <3>1. RowOf(j).nodes \in SUBSET Nodes
      BY <1>3, <2>2 DEF Row
    <3>2. job'[j] = [job[j] EXCEPT !.nodes = RowOf(j).nodes]
      BY <2>2, StartJobsIs
    <3> QED BY <2>1, <3>1, <3>2 DEF JobRecord
  <2>3. CASE ~Starts(j)
    <3>1. job'[j] = job[j]
      BY <2>3, StartJobsIs
    <3> QED BY <2>1, <3>1
  <2> QED BY <2>2, <2>3
<1>5. ASSUME NEW j \in JobIds PROVE made'[j] \in 0..MaxStarts
  <2>1. made[j] \in 0..MaxStarts
    BY <1>1
  <2>2. \/ made[j] < MaxStarts /\ made'[j] = made[j] + 1
        \/ made'[j] = made[j]
    BY StartJobsIs
  <2> QED BY <1>1, <2>1, <2>2
<1>6. ASSUME NEW j \in JobIds, NEW k \in Numbers PROVE launch'[j][k] \in LaunchRecord
  <2>1. Starts(j) => NewLaunch(RowOf(j)) \in LaunchRecord
    BY <1>3 DEF NewLaunch, Row, LaunchRecord, LaunchState, Coming, Process
  <2>2. launch[j][k] \in LaunchRecord
    BY <1>1
  <2>3. \/ Starts(j) /\ launch'[j][k] = NewLaunch(RowOf(j))
        \/ launch'[j][k] = launch[j][k]
    BY StartJobsIs
  <2> QED BY <2>1, <2>2, <2>3
<1>7. \A n \in Nodes : alloc'[n] \in {"idle", "busy"}
  BY StartJobsIs DEF TypeOK
<1>8. job' \in [JobIds -> JobRecord] /\ made' \in [JobIds -> 0..MaxStarts]
  BY <1>2, <1>4, <1>5
<1>9. alloc' \in [Nodes -> {"idle", "busy"}]
  BY <1>2, <1>7
<1>10. launch' \in [JobIds -> [Numbers -> LaunchRecord]]
  BY <1>2, <1>6
<1>11. /\ starts' \in Nat
       /\ UNCHANGED <<plan, events, canceled, bounds>>
  BY DEF StartJobs, TypeOK
<1> QED BY <1>8, <1>9, <1>10, <1>11 DEF TypeOK, JobRecord, LaunchRecord, plan, bounds

LEMMA ScheduleType == TypeOK /\ Schedule => TypeOK'
<1> SUFFICES ASSUME TypeOK, Schedule PROVE TypeOK'
  OBVIOUS
<1> DEFINE snapshot == [jobs |-> {j \in JobIds : job[j].state = "Q"},
                        idle |-> {n \in Nodes : alloc[n] = "idle"}]
<1>1. snapshot \in Snapshot
  BY DEF Snapshot
<1>2. asked' = Append(asked, snapshot)
  BY DEF Schedule
<1>3. asked' \in Seq(Snapshot)
  BY <1>1, <1>2 DEF TypeOK
<1> QED BY <1>3 DEF Schedule, TypeOK, records, work, bounds

(* The rows of a timetable are about what its snapshot has.                *)
LEMMA RowsOfTimetable ==
    ASSUME NEW s \in Snapshot,
           NEW tt \in Timetables(s)
    PROVE  /\ tt \subseteq Row
           /\ \A r \in tt : r.job \in s.jobs /\ r.main \in r.nodes
           /\ \A r \in tt : r.now => r.nodes \subseteq s.idle
           /\ ~LaterRows => \A r \in tt : r.now
           /\ \A r, q \in tt : r # q => r.job # q.job
           /\ \A r, q \in tt : r # q /\ r.now /\ q.now => r.nodes \cap q.nodes = {}
<1>1. \A r \in tt : /\ r \in Row /\ r.job \in s.jobs /\ r.main \in r.nodes
                    /\ IF r.now THEN r.nodes \subseteq s.idle ELSE LaterRows
  BY DEF Timetables
<1>2. \A r, q \in tt : r # q => r.job # q.job
  BY DEF Timetables
<1>3. \A r, q \in tt : r # q /\ r.now /\ q.now => r.nodes \cap q.nodes = {}
  BY DEF Timetables
<1> QED BY <1>1, <1>2, <1>3

(* The first snapshot is answered.                                         *)
LEMMA NewTimetableIs ==
    ASSUME TypeOK, NewTimetable
    PROVE  /\ Len(asked) > 0 /\ asked' = Tail(asked)
           /\ Head(asked) = asked[1]
           /\ asked[1] \in Snapshot
           /\ timetable' \in Timetables(asked[1])
           /\ job' \in [JobIds -> JobRecord]
           /\ \A j \in JobIds :
                /\ job'[j].nodes = job[j].nodes
                /\ IF \E r \in timetable' : r.job = j /\ r.now
                   THEN job'[j].state = "W" ELSE job'[j] = job[j]
           /\ IF timetable' = {}
              THEN UNCHANGED <<times, timers>>
              ELSE /\ times' = {IF r.now THEN "now" ELSE "later" : r \in timetable'}
                   /\ timers' = timers + 1
<1>1. PICK tt \in Timetables(Head(asked)) :
        /\ timetable' = tt
        /\ job' = [j \in JobIds |->
                     IF \E r \in tt : r.job = j /\ r.now
                     THEN [job[j] EXCEPT !.state = "W"] ELSE job[j]]
        /\ IF tt = {}
           THEN UNCHANGED <<times, timers>>
           ELSE /\ times' = {IF r.now THEN "now" ELSE "later" : r \in tt}
                /\ timers' = timers + 1
  BY Zenon DEF NewTimetable
<1>2. /\ Len(asked) > 0 /\ asked' = Tail(asked) /\ Head(asked) = asked[1]
      /\ asked[1] \in Snapshot
  <2>1. asked \in Seq(Snapshot) /\ asked # <<>> /\ asked' = Tail(asked)
    BY DEF NewTimetable, TypeOK
  <2> QED BY <2>1
<1>3. \A j \in JobIds : job[j] \in JobRecord
  BY RecordTypes
<1>4. \A j \in JobIds :
        /\ job'[j] \in JobRecord
        /\ job'[j].nodes = job[j].nodes
        /\ IF \E r \in tt : r.job = j /\ r.now
           THEN job'[j].state = "W" ELSE job'[j] = job[j]
  BY <1>1, <1>3 DEF JobRecord, JobState
<1>5. job' \in [JobIds -> JobRecord]
  BY <1>1, <1>4
<1> QED BY <1>1, <1>2, <1>4, <1>5

LEMMA NewTimetableType == TypeOK /\ NewTimetable => TypeOK'
<1> SUFFICES ASSUME TypeOK, NewTimetable PROVE TypeOK'
  OBVIOUS
<1>1. /\ timetable' \subseteq Row
      /\ asked' \in Seq(Snapshot)
  <2>1. asked \in Seq(Snapshot) /\ asked # <<>> /\ asked' = Tail(asked)
    BY DEF NewTimetable, TypeOK
  <2>2. asked' \in Seq(Snapshot)
    BY <2>1
  <2>3. asked[1] \in Snapshot /\ timetable' \in Timetables(asked[1])
    BY NewTimetableIs
  <2>4. timetable' \subseteq Row
    BY <2>3, RowsOfTimetable
  <2> QED BY <2>2, <2>4
<1>2. times' \subseteq {"now", "later"} /\ timers' \in Nat
  <2>1. times \subseteq {"now", "later"} /\ timers \in Nat
    BY DEF TypeOK
  <2>2. \/ (times' = times /\ timers' = timers)
        \/ /\ times' = {IF r.now THEN "now" ELSE "later" : r \in timetable'}
           /\ timers' = timers + 1
    BY NewTimetableIs
  <2>3. {IF r.now THEN "now" ELSE "later" : r \in timetable'} \subseteq {"now", "later"}
    OBVIOUS
  <2>4. times' \subseteq {"now", "later"}
    BY <2>1, <2>2, <2>3
  <2>5. timers' \in Nat
    BY <2>1, <2>2
  <2> QED BY <2>4, <2>5
<1>3. job' \in [JobIds -> JobRecord]
  BY NewTimetableIs
<1>4. UNCHANGED <<alloc, starts, work, events, canceled, bounds>>
  BY DEF NewTimetable
<1> QED BY <1>1, <1>2, <1>3, <1>4 DEF TypeOK, JobRecord, Row, work, bounds

LEMMA StartTimeType == TypeOK /\ StartTime => TypeOK'
  BY DEF TypeOK, StartTime, records, work, bounds

(* The actions that move one launch, and the events on their way.          *)
EventType == [type : {"proc_started", "finished"}, job : JobIds,
              num : Numbers, state : JobState]

LEMMA MoveType ==
    ASSUME TypeOK, NEW l \in Launches, NEW s \in LaunchState, SetLaunch(l, s),
           UNCHANGED <<plan, starts, made, canceled, requeues>>,
           alloc' \in [Nodes -> {"idle", "busy"}], job' \in [JobIds -> JobRecord],
           events' \subseteq EventType, faults' \in Nat
    PROVE  TypeOK'
<1>1. launch' \in [JobIds -> [Numbers -> LaunchRecord]]
  <2>1. l[1] \in JobIds /\ l[2] \in Numbers /\ SetLaunch(<<l[1], l[2]>>, s)
    BY LaunchPair
  <2>2. launch \in [JobIds -> [Numbers -> LaunchRecord]]
    BY RecordTypes
  <2> QED BY <2>1, <2>2, SetLaunchIs
<1> QED BY <1>1 DEF TypeOK, plan, JobRecord, LaunchRecord, EventType

LEMMA LaunchActions ==
    ASSUME TypeOK, NEW l \in Launches,
           \/ CommitDone(l) \/ CommitFailed(l) \/ JobArrived(l) \/ Execute(l)
           \/ ProcessDies(l)
    PROVE  /\ TypeOK'
           /\ \E s \in LaunchState : SetLaunch(l, s) /\ s \notin {"unused", "done", "reported"}
           /\ Launch(l).st \in Coming \cup Process
           /\ UNCHANGED <<records, plan, starts, made, canceled, requeues>>
           /\ events' \in {events, events \cup {Started(l[1], l[2])}}
<1>1. /\ \E s \in LaunchState : SetLaunch(l, s) /\ s \notin {"unused", "done", "reported"}
      /\ Launch(l).st \in Coming \cup Process
      /\ UNCHANGED <<records, plan, starts, made, canceled, requeues>>
      /\ events' \in {events, events \cup {Started(l[1], l[2])}}
      /\ faults' \in Nat
  BY DEF CommitDone, CommitFailed, JobArrived, Execute, ProcessDies, bounds,
         LaunchState, Coming, Process, Broken, TypeOK
<1>2. Started(l[1], l[2]) \in EventType
  BY LaunchPair DEF Started, EventType, JobState
<1>3. events' \subseteq EventType
  BY <1>1, <1>2 DEF TypeOK, EventType
<1>4. TypeOK'
  BY <1>1, <1>3, MoveType, RecordTypes DEF records, TypeOK
<1> QED BY <1>1, <1>4

LEMMA CompleteIs ==
    ASSUME TypeOK, NEW l \in Launches, NEW s \in Ended,
           Complete(l, s)
    PROVE  /\ TypeOK'
           /\ SetLaunch(l, "reported")
           /\ events' = events \cup {Finished(l[1], l[2], s)}
           /\ UNCHANGED <<plan, starts, made, canceled, requeues>>
           /\ Local(l) =>
                /\ SetState(l[1], s)
                /\ \A n \in Nodes : alloc'[n] = IF n = Manager THEN "idle" ELSE alloc[n]
           /\ ~Local(l) => UNCHANGED records
<1>1. Finished(l[1], l[2], s) \in EventType
  BY LaunchPair DEF Finished, EventType, JobState
<1>2. /\ SetLaunch(l, "reported")
      /\ events' = events \cup {Finished(l[1], l[2], s)}
      /\ UNCHANGED <<plan, starts, made, canceled, requeues>>
      /\ faults' \in Nat
  BY DEF Complete, bounds, TypeOK
<1>3. CASE Local(l)
  <2>1. SetState(l[1], s) /\ alloc' = [n \in Nodes |-> IF n = Manager THEN "idle" ELSE alloc[n]]
    BY <1>3 DEF Complete
  <2>2. alloc' \in [Nodes -> {"idle", "busy"}]
    BY <2>1 DEF TypeOK
  <2>3. job' \in [JobIds -> JobRecord]
    BY <2>1, SetStateIs, LaunchPair, RecordTypes DEF JobState
  <2>4. TypeOK'
    BY <1>1, <1>2, <2>2, <2>3, MoveType DEF TypeOK, EventType, LaunchState
  <2> QED BY <1>2, <1>3, <2>1, <2>4
<1>4. CASE ~Local(l)
  <2>1. UNCHANGED records
    BY <1>4 DEF Complete
  <2>2. TypeOK'
    BY <1>1, <1>2, <2>1, MoveType, RecordTypes DEF TypeOK, EventType, LaunchState, records
  <2> QED BY <1>2, <1>4, <2>1, <2>2
<1> QED BY <1>3, <1>4

LEMMA EventPair ==
    ASSUME TypeOK, NEW e \in events
    PROVE  /\ e \in EventType /\ e.job \in JobIds /\ e.num \in Numbers /\ e.state \in JobState
           /\ <<e.job, e.num>> \in Launches
           /\ Launch(<<e.job, e.num>>) = launch[e.job][e.num]
  BY DEF TypeOK, EventType, Launches, Launch

LEMMA ReportType ==
    ASSUME TypeOK, NEW e \in events, ProcStarted(e) \/ JobFinished(e) \/ EventLost(e)
    PROVE  TypeOK'
<1>1. events' \subseteq EventType
  BY DEF ProcStarted, JobFinished, EventLost, TypeOK, EventType
<1>2. CASE ProcStarted(e)
  <2>1. job' \in [JobIds -> JobRecord]
    BY <1>2, SetStateIs, EventPair, RecordTypes DEF ProcStarted, JobState
  <2> QED BY <1>1, <1>2, <2>1
          DEF ProcStarted, TypeOK, JobRecord, EventType, plan, work, bounds
<1>3. CASE JobFinished(e)
  <2>1. job' \in [JobIds -> JobRecord]
    BY <1>3, SetStateIs, EventPair, RecordTypes DEF JobFinished
  <2>2. alloc' \in [Nodes -> {"idle", "busy"}]
    BY <1>3 DEF JobFinished, TypeOK
  <2>3. SetLaunch(<<e.job, e.num>>, "done") /\ UNCHANGED <<plan, starts, made, canceled, bounds>>
    BY <1>3 DEF JobFinished
  <2> QED BY <1>1, <2>1, <2>2, <2>3, EventPair, MoveType DEF bounds, TypeOK, LaunchState
<1>4. CASE EventLost(e)
  <2>1. faults' \in Nat /\ UNCHANGED <<records, plan, starts, made, canceled, requeues>>
    BY <1>4 DEF EventLost, TypeOK
  <2>2. CASE e.type = "finished"
    BY <1>1, <1>4, <2>1, <2>2, EventPair, MoveType, RecordTypes
       DEF EventLost, LaunchState, Broken, records, TypeOK
  <2>3. CASE e.type # "finished"
    BY <1>1, <1>4, <2>1, <2>3 DEF EventLost, TypeOK, EventType, records, plan
  <2> QED BY <2>2, <2>3
<1> QED BY <1>2, <1>3, <1>4

LEMMA UserType == ASSUME TypeOK, NEW j \in JobIds, Submit(j) \/ Requeue(j) PROVE TypeOK'
<1>1. job' \in [JobIds -> JobRecord]
  BY SetStateIs, RecordTypes DEF Submit, Requeue, JobState
<1>2. requeues' \in Nat
  BY DEF Submit, Requeue, TypeOK, bounds
<1> QED BY <1>1, <1>2 DEF Submit, Requeue, TypeOK, JobRecord, plan, work, bounds

LEMMA InitType == Init => TypeOK
<1> SUFFICES ASSUME Init PROVE TypeOK
  OBVIOUS
<1>1. asked \in Seq(Snapshot)
  BY DEF Init
<1>2. launch \in [JobIds -> [Numbers -> LaunchRecord]]
  BY DEF Init, Unused, LaunchRecord, LaunchState
<1>3. job \in [JobIds -> JobRecord]
  BY DEF Init, JobRecord, JobState
<1>4. made \in [JobIds -> 0..MaxStarts]
  BY BoundsAssumption DEF Init
<1> QED BY <1>1, <1>2, <1>3, <1>4 DEF Init, TypeOK, LaunchRecord, JobRecord

(* What the actions of a step are.                                         *)
LEMMA StepIs ==
    [Next]_vars =>
        \/ \E j \in JobIds : Submit(j) \/ Requeue(j)
        \/ Schedule \/ NewTimetable \/ StartTime \/ StartJobs
        \/ \E l \in Launches : CommitDone(l) \/ CommitFailed(l) \/ JobArrived(l)
                                  \/ Execute(l) \/ ProcessDies(l)
        \/ \E l \in Launches, s \in {"E", "F"} :
             Launch(l).st \in Process /\ Complete(l, s)
        \/ \E e \in events : ProcStarted(e) \/ JobFinished(e) \/ EventLost(e)
        \/ UNCHANGED vars
  BY DEF Next, User, Planning, Compute, Report, Fault, ExecuteFails, ProcessFinishes, Process

LEMMA StepType == TypeOK /\ [Next]_vars => TypeOK'
<1> SUFFICES ASSUME TypeOK, [Next]_vars PROVE TypeOK'
  OBVIOUS
<1>1. ASSUME NEW j \in JobIds, Submit(j) \/ Requeue(j) PROVE TypeOK'
  BY <1>1, UserType
<1>2. CASE Schedule \/ NewTimetable \/ StartTime \/ StartJobs
  BY <1>2, ScheduleType, NewTimetableType, StartTimeType, StartJobsType
<1>3. ASSUME NEW l \in Launches, \/ CommitDone(l) \/ CommitFailed(l) \/ JobArrived(l)
                                 \/ Execute(l) \/ ProcessDies(l)
      PROVE  TypeOK'
  BY <1>3, LaunchActions
<1>4. ASSUME NEW l \in Launches, NEW s \in {"E", "F"}, Complete(l, s) PROVE TypeOK'
  BY <1>4, CompleteIs DEF Ended
<1>5. ASSUME NEW e \in events, ProcStarted(e) \/ JobFinished(e) \/ EventLost(e) PROVE TypeOK'
  BY <1>5, ReportType
<1>6. CASE UNCHANGED vars
  BY <1>6 DEF vars, records, plan, work, bounds, TypeOK
<1> QED BY <1>1, <1>2, <1>3, <1>4, <1>5, <1>6, StepIs

(* Every record, row, launch and event keeps its type.                     *)
THEOREM TypeCorrect == Spec => []TypeOK
  BY InitType, StepType, PTL DEF Spec

-----------------------------------------------------------------------------
(***************************************************************************)
(* Safety.  First, what keeps the parts of the invariant.                  *)
(***************************************************************************)
LEMMA GoneIs ==
    ASSUME NEW j \in JobIds, NEW k \in Numbers
    PROVE  /\ <<j, k>> \in Launches
           /\ Launch(<<j, k>>) = launch[j][k]
           /\ Gone(<<j, k>>) <=> \/ launch[j][k].st \in {"unused", "done"}
                                 \/ /\ launch[j][k].st = "reported"
                                    /\ launch[j][k].main = Manager
  BY DEF Gone, Local, Launch, Launches

(* A launch that has not ended is the last of its job, and the job's       *)
(* record has its nodes.                                                   *)
LEMMA LastLaunch ==
    ASSUME IInv, NEW l \in Launches, ~Gone(l)
    PROVE  /\ l[2] = made[l[1]] /\ made[l[1]] > 0
           /\ job[l[1]].nodes = Launch(l).nodes
           /\ Launch(l).main \in Launch(l).nodes
           /\ Held(l) = Launch(l).nodes
<1>1. l[1] \in JobIds /\ l[2] \in Numbers /\ l = <<l[1], l[2]>> /\ Launch(l) = launch[l[1]][l[2]]
  BY LaunchPair
<1>2. Launch(l).st # "unused" /\ ~Gone(<<l[1], l[2]>>)
  BY <1>1 DEF Gone
<1>3. made[l[1]] \in Nat /\ l[2] \in Nat /\ l[2] > 0
  BY <1>1, BoundsAssumption DEF IInv, TypeOK, Numbers
<1>4. ~(l[2] > made[l[1]]) /\ ~(l[2] < made[l[1]])
  BY <1>1, <1>2 DEF IInv, Safe, LaunchInv
<1>5. l[2] = made[l[1]]
  BY <1>3, <1>4
<1> QED BY <1>1, <1>2, <1>3, <1>5 DEF IInv, Safe, LaunchInv, Held

(* Ends that stay ends, nodes that stay idle and jobs that become neither  *)
(* new nor queued disturb no plan.                                         *)
LEMMA PlanKept ==
    ASSUME IInv, UNCHANGED <<plan, starts, made, requeues>>,
           \A n \in Nodes : alloc[n] = "idle" => alloc'[n] = "idle",
           \A j \in JobIds : Over(j) => Over(j)',
           \A j \in JobIds :
             \/ job'[j].state = job[j].state
             \/ /\ job'[j].state \notin {"none", "Q"}
                /\ requeues = 0 /\ job'[j].state \in {"F", "E"} => made[j] > 0 /\ Over(j)'
    PROVE  StageInv' /\ SnapshotInv' /\ RowInv' /\ QueueInv' /\ FirstInv'
<1>1. /\ StageInv /\ SnapshotInv /\ RowInv /\ QueueInv /\ FirstInv
      /\ Pending' = Pending
      /\ asked' = asked /\ times' = times /\ timers' = timers /\ starts' = starts
      /\ made' = made /\ requeues' = requeues
  BY DEF IInv, Safe, Pending, plan
<1>2. /\ \A r \in Pending : r.job \in JobIds /\ r.nodes \subseteq Nodes
      /\ \A i \in 1 .. Len(asked) : asked[i].idle \subseteq Nodes /\ asked[i].jobs \subseteq JobIds
      /\ \A j \in JobIds : made[j] \in Nat
  <2>1. Pending \subseteq timetable
    BY DEF Pending
  <2>2. TypeOK
    BY DEF IInv
  <2>3. timetable \subseteq Row /\ asked \in Seq(Snapshot)
    BY <2>2 DEF TypeOK
  <2>4. \A r \in Row : r.job \in JobIds /\ r.nodes \subseteq Nodes
    BY DEF Row
  <2>5. \A j \in JobIds : made[j] \in Nat
    BY <2>2, BoundsAssumption DEF TypeOK
  <2>6. \A i \in 1 .. Len(asked) : asked[i] \in Snapshot
    BY <2>3
  <2>7. \A x \in Snapshot : x.idle \subseteq Nodes /\ x.jobs \subseteq JobIds
    BY DEF Snapshot
  <2> QED BY <2>1, <2>3, <2>4, <2>5, <2>6, <2>7
<1>3. StageInv'
  BY <1>1 DEF StageInv
<1>4. SnapshotInv'
  BY <1>1, <1>2 DEF SnapshotInv
<1>5. RowInv'
  BY <1>1, <1>2 DEF RowInv
<1>6. QueueInv'
  BY <1>1 DEF QueueInv
<1>7. FirstInv'
  BY <1>1, <1>2 DEF FirstInv
<1> QED BY <1>3, <1>4, <1>5, <1>6, <1>7

(* One launch goes on, or ends: nobody gets nodes, and those that become   *)
(* idle are of no launch any more.                                         *)
LEMMA LaunchStep ==
    ASSUME IInv, TypeOK', NEW l \in Launches, NEW s \in LaunchState, SetLaunch(l, s),
           s # "unused", Launch(l).st # "unused",
           Gone(l) => s = "done",
           UNCHANGED <<plan, starts, made, requeues>>,
           \A j \in JobIds : job'[j].nodes = job[j].nodes,
           \A n \in Nodes :
             \/ alloc'[n] = alloc[n]
             \/ /\ alloc'[n] = "idle" /\ Gone(l)'
                /\ \A m \in Launches : m # l => n \notin Held(m),
           \A j \in JobIds :
             \/ job'[j].state = job[j].state
             \/ /\ job'[j].state \notin {"none", "Q"}
                /\ requeues = 0 /\ job'[j].state \in {"F", "E"} => made[j] > 0 /\ Over(j)'
    PROVE  StageInv' /\ SnapshotInv' /\ RowInv' /\ QueueInv' /\ FirstInv' /\ LaunchInv' /\ HeldInv'
<1>1. /\ l[1] \in JobIds /\ l[2] \in Numbers /\ l = <<l[1], l[2]>>
      /\ Launch(l) = launch[l[1]][l[2]]
  BY LaunchPair
<1>2. /\ launch'[l[1]][l[2]] = [launch[l[1]][l[2]] EXCEPT !.st = s]
      /\ \A i \in JobIds, k \in Numbers :
           i # l[1] \/ k # l[2] => launch'[i][k] = launch[i][k]
      /\ launch[l[1]][l[2]] \in LaunchRecord
  BY <1>1, SetLaunchIs, RecordTypes DEF IInv
<1>3. /\ launch'[l[1]][l[2]].st = s
      /\ \A i \in JobIds, k \in Numbers :
           launch'[i][k].nodes = launch[i][k].nodes /\ launch'[i][k].main = launch[i][k].main
  BY <1>2 DEF LaunchRecord
<1>4. \A m \in Launches :
        /\ Launch(m)' = launch'[m[1]][m[2]] /\ Launch(m) = launch[m[1]][m[2]]
        /\ m[1] \in JobIds /\ m[2] \in Numbers /\ m = <<m[1], m[2]>>
        /\ m # l => Launch(m)' = Launch(m)
        /\ Launch(m)'.nodes = Launch(m).nodes
  BY <1>1, <1>2, <1>3, LaunchPair DEF Launch
<1>5. \A m \in Launches : Gone(m) => Gone(m)'
  <2>1. Gone(l) => Gone(l)'
    BY <1>1, <1>3, <1>4 DEF Gone
  <2>2. ASSUME NEW m \in Launches, m # l PROVE Gone(m)' = Gone(m)
    BY <2>2, <1>4 DEF Gone, Local
  <2> QED BY <2>1, <2>2
<1>6. \A m \in Launches : Held(m)' \subseteq Held(m)
  BY <1>4, <1>5 DEF Held
<1>7. \A j \in JobIds : made[j] \in 0 .. MaxStarts /\ made'[j] = made[j]
  BY DEF IInv, TypeOK
<1>8. \A j \in JobIds : Over(j) => Over(j)'
  BY <1>5, <1>7, BoundsAssumption DEF Over, Launches, Numbers
<1>9. StageInv' /\ SnapshotInv' /\ RowInv' /\ QueueInv' /\ FirstInv'
  BY <1>8, PlanKept
<1>10. LaunchInv'
  <2> SUFFICES ASSUME NEW j \in JobIds
               PROVE  /\ made[j] > 0 => job'[j].nodes = launch'[j][made[j]].nodes
                      /\ \A k \in Numbers :
                           /\ k > made[j] => launch'[j][k].st = "unused"
                           /\ k < made[j] => Gone(<<j, k>>)'
                           /\ launch'[j][k].st # "unused"
                              => launch'[j][k].main \in launch'[j][k].nodes
    BY <1>7 DEF LaunchInv
  <2>1. made[j] > 0 => made[j] \in Numbers
    BY <1>7, BoundsAssumption DEF Numbers
  <2>2. /\ made[j] > 0 => job[j].nodes = launch[j][made[j]].nodes
        /\ \A k \in Numbers :
             /\ k > made[j] => launch[j][k].st = "unused"
             /\ k < made[j] => Gone(<<j, k>>)
             /\ launch[j][k].st # "unused" => launch[j][k].main \in launch[j][k].nodes
    BY DEF IInv, Safe, LaunchInv
  <2>3. made[j] > 0 => job'[j].nodes = launch'[j][made[j]].nodes
    BY <1>3, <2>1, <2>2
  <2>4. ASSUME NEW k \in Numbers
        PROVE  /\ k > made[j] => launch'[j][k].st = "unused"
               /\ k < made[j] => Gone(<<j, k>>)'
               /\ launch'[j][k].st # "unused" => launch'[j][k].main \in launch'[j][k].nodes
    <3>1. <<j, k>> \in Launches
      BY DEF Launches
    <3>2. CASE j = l[1] /\ k = l[2]
      BY <1>1, <1>3, <1>5, <2>2, <3>1, <3>2
    <3>3. CASE ~(j = l[1] /\ k = l[2])
      BY <1>2, <1>5, <2>2, <3>1, <3>3
    <3> QED BY <3>2, <3>3
  <2> QED BY <2>3, <2>4
<1>11. HeldInv'
  <2>1. ASSUME NEW m \in Launches, NEW n \in Held(m)' PROVE alloc'[n] = "busy"
    <3>1. n \in Held(m) /\ alloc[n] = "busy" /\ n \in Nodes
      <4>1. n \in Held(m) /\ alloc[n] = "busy"
        BY <1>6 DEF IInv, Safe, HeldInv
      <4>2. Launch(m).nodes \subseteq Nodes
        BY LaunchPair, RecordTypes DEF IInv, LaunchRecord
      <4> QED BY <4>1, <4>2 DEF Held
    <3>2. m = l => ~Gone(l)'
      BY DEF Held
    <3> QED BY <3>1, <3>2
  <2>2. \A m, q \in Launches : m # q => Held(m)' \cap Held(q)' = {}
    BY <1>6 DEF IInv, Safe, HeldInv
  <2>3. Launches' = Launches
    BY DEF Launches, Numbers
  <2> QED BY <2>1, <2>2, <2>3 DEF HeldInv
<1> QED BY <1>9, <1>10, <1>11

(* A step that changes no launch and no node.                              *)
LEMMA NoLaunchStep ==
    ASSUME IInv, UNCHANGED <<plan, starts, alloc, made, launch, requeues>>,
           \A j \in JobIds : job'[j].nodes = job[j].nodes,
           \A j \in JobIds : \/ job'[j].state = job[j].state
                             \/ job'[j].state \notin {"none", "Q", "F", "E"}
    PROVE  StageInv' /\ SnapshotInv' /\ RowInv' /\ QueueInv' /\ FirstInv' /\ LaunchInv' /\ HeldInv'
<1>1. LaunchInv /\ HeldInv /\ launch' = launch /\ made' = made /\ alloc' = alloc
  BY DEF IInv, Safe
<1>2. /\ \A j \in JobIds : Over(j) <=> Over(j)'
      /\ \A l \in Launches : Gone(l) <=> Gone(l)'
      /\ \A l \in Launches : Held(l)' = Held(l)
      /\ Launches' = Launches
  BY <1>1 DEF Over, Gone, Local, Launch, Held, Launches, Numbers
<1>3. StageInv' /\ SnapshotInv' /\ RowInv' /\ QueueInv' /\ FirstInv'
  BY <1>1, <1>2, PlanKept
<1>4. LaunchInv'
  BY <1>1, <1>2 DEF LaunchInv, Launches
<1>5. HeldInv'
  BY <1>1, <1>2 DEF HeldInv
<1> QED BY <1>3, <1>4, <1>5

LEMMA EventsKept ==
    ASSUME EventInv, events' \subseteq events,
           \A e \in events' : e.type = "finished" =>
             launch'[e.job][e.num].st = launch[e.job][e.num].st
    PROVE  EventInv'
  BY DEF EventInv

LEMMA SubmitSafe ==
    ASSUME IInv, NEW j \in JobIds, Submit(j)
    PROVE  Safe'
<1>1. /\ job[j].state = "none" /\ SetState(j, "Q")
      /\ UNCHANGED <<alloc, plan, starts, made, launch, events, requeues>>
  BY DEF Submit, work, bounds
<1>2. /\ job'[j].state = "Q"
      /\ \A i \in JobIds : job'[i].nodes = job[i].nodes
      /\ \A i \in JobIds : i # j => job'[i] = job[i]
  BY <1>1, SetStateIs, RecordTypes DEF IInv, JobState
<1>3. /\ asked' = asked /\ times' = times /\ timers' = timers /\ starts' = starts
      /\ launch' = launch /\ made' = made /\ alloc' = alloc /\ events' = events
      /\ requeues' = requeues /\ Pending' = Pending
  BY <1>1 DEF plan, Pending
<1>4. made[j] = 0
  BY <1>1 DEF IInv, Safe, QueueInv
<1>5. /\ \A i \in JobIds : Over(i)' = Over(i)
      /\ \A l \in Launches : Gone(l)' = Gone(l)
      /\ \A l \in Launches : Held(l)' = Held(l)
      /\ Launches' = Launches
  BY <1>3 DEF Over, Gone, Local, Launch, Held, Launches, Numbers
<1>6. Over(j)
  BY <1>4 DEF Over
<1>7. \A r \in Pending : r.job \in JobIds /\ r.job # j
  <2>1. \A r \in Pending : r \in Row /\ job[r.job].state # "none"
    BY DEF IInv, TypeOK, Safe, RowInv, Pending
  <2> QED BY <2>1, <1>1 DEF Row
<1>8. \A i \in 1 .. Len(asked) : asked[i].jobs \subseteq JobIds
  <2>1. \A i \in 1 .. Len(asked) : asked[i] \in Snapshot
    BY DEF IInv, TypeOK
  <2> QED BY <2>1 DEF Snapshot
<1>9. StageInv' /\ HeldInv' /\ EventInv' /\ LaunchInv'
  BY <1>2, <1>3, <1>5 DEF IInv, Safe, StageInv, HeldInv, EventInv, LaunchInv, Launches
<1>10. SnapshotInv'
  BY <1>2, <1>3, <1>5, <1>6, <1>8 DEF IInv, Safe, SnapshotInv
<1>11. RowInv'
  BY <1>2, <1>3, <1>5, <1>7 DEF IInv, Safe, RowInv
<1>12. QueueInv'
  BY <1>2, <1>3, <1>5, <1>6 DEF IInv, Safe, QueueInv
<1>13. FirstInv'
  BY <1>2, <1>3, <1>4, <1>5 DEF IInv, Safe, FirstInv
<1> QED BY <1>9, <1>10, <1>11, <1>12, <1>13 DEF Safe

LEMMA RequeueSafe ==
    ASSUME IInv, OneAtATime, NEW j \in JobIds, Requeue(j)
    PROVE  Safe'
<1>1. /\ requeues = 0 /\ requeues' = 1
      /\ job[j].state \in {"F", "E"} /\ SetState(j, "Q")
      /\ UNCHANGED <<alloc, plan, starts, made, launch, events>>
  <2>1. requeues \in Nat /\ MaxRequeues \in Nat
    BY BoundsAssumption DEF IInv, TypeOK
  <2>2. /\ requeues < MaxRequeues /\ requeues' = requeues + 1
        /\ job[j].state \in RequeueFrom /\ SetState(j, "Q")
        /\ UNCHANGED <<alloc, plan, starts, work, events>>
    BY DEF Requeue
  <2>3. RequeueFrom \subseteq {"F", "E"} /\ MaxRequeues <= 1
    BY DEF OneAtATime
  <2>4. requeues = 0 /\ requeues' = 1
    BY <2>1, <2>2, <2>3
  <2> QED BY <2>2, <2>3, <2>4 DEF work
<1>2. /\ job'[j].state = "Q"
      /\ \A i \in JobIds : job'[i].nodes = job[i].nodes
      /\ \A i \in JobIds : i # j => job'[i] = job[i]
  BY <1>1, SetStateIs, RecordTypes DEF IInv, JobState
<1>3. /\ asked' = asked /\ times' = times /\ timers' = timers /\ starts' = starts
      /\ launch' = launch /\ made' = made /\ alloc' = alloc /\ events' = events
      /\ Pending' = Pending
  BY <1>1 DEF plan, Pending
<1>4. made[j] = 1 /\ Over(j)
  BY <1>1 DEF IInv, Safe, FirstInv
<1>5. /\ \A i \in JobIds : Over(i)' = Over(i)
      /\ \A l \in Launches : Gone(l)' = Gone(l)
      /\ \A l \in Launches : Held(l)' = Held(l)
      /\ Launches' = Launches
  BY <1>3 DEF Over, Gone, Local, Launch, Held, Launches, Numbers
<1>7. \A r \in Pending : r.job \in JobIds /\ r.job # j
  <2>1. \A r \in Pending : r \in Row
    BY DEF IInv, TypeOK, Pending
  <2>2. \A r \in Pending : r.job # j
    BY <1>1, <1>4 DEF IInv, Safe, FirstInv
  <2> QED BY <2>1, <2>2 DEF Row
<1>8. \A i \in 1 .. Len(asked) : asked[i].jobs \subseteq JobIds
  <2>1. \A i \in 1 .. Len(asked) : asked[i] \in Snapshot
    BY DEF IInv, TypeOK
  <2> QED BY <2>1 DEF Snapshot
<1>9. StageInv' /\ HeldInv' /\ EventInv' /\ LaunchInv'
  BY <1>2, <1>3, <1>5 DEF IInv, Safe, StageInv, HeldInv, EventInv, LaunchInv, Launches
<1>10. SnapshotInv'
  BY <1>2, <1>3, <1>4, <1>5, <1>8 DEF IInv, Safe, SnapshotInv
<1>11. RowInv'
  BY <1>2, <1>3, <1>5, <1>7 DEF IInv, Safe, RowInv
<1>12. QueueInv'
  BY <1>2, <1>3, <1>4, <1>5 DEF IInv, Safe, QueueInv
<1>13. FirstInv'
  BY <1>1 DEF FirstInv
<1> QED BY <1>9, <1>10, <1>11, <1>12, <1>13 DEF Safe

LEMMA ScheduleSafe ==
    ASSUME IInv, OneAtATime, Schedule
    PROVE  Safe'
<1> DEFINE snapshot == [jobs |-> {j \in JobIds : job[j].state = "Q"},
                        idle |-> {n \in Nodes : alloc[n] = "idle"}]
<1>1. /\ asked = <<>> /\ timers = 0 /\ starts = 0 /\ asked' = Append(asked, snapshot)
      /\ UNCHANGED <<records, timetable, times, timers, starts, work, events, requeues>>
  BY DEF Schedule, Settled, OneAtATime, bounds
<1>2. Len(asked') = 1 /\ asked'[1] = snapshot
  BY <1>1
<1>3. /\ job' = job /\ alloc' = alloc /\ times' = times /\ timers' = 0 /\ starts' = 0
      /\ launch' = launch /\ made' = made /\ events' = events /\ requeues' = requeues
      /\ Pending' = {}
  BY <1>1 DEF records, work, Pending
<1>4. /\ \A i \in JobIds : Over(i)' = Over(i)
      /\ \A l \in Launches : Gone(l)' = Gone(l)
      /\ \A l \in Launches : Held(l)' = Held(l)
      /\ Launches' = Launches
  BY <1>3 DEF Over, Gone, Local, Launch, Held, Launches, Numbers
<1>5. StageInv' /\ RowInv'
  BY <1>2, <1>3 DEF IInv, Safe, StageInv, RowInv
<1>6. SnapshotInv'
  BY <1>2, <1>3, <1>4 DEF IInv, Safe, SnapshotInv, QueueInv
<1>7. QueueInv' /\ LaunchInv' /\ EventInv' /\ HeldInv'
  BY <1>3, <1>4 DEF IInv, Safe, QueueInv, LaunchInv, EventInv, HeldInv, Launches
<1>8. FirstInv'
  BY <1>2, <1>3, <1>4 DEF IInv, Safe, FirstInv
<1> QED BY <1>5, <1>6, <1>7, <1>8 DEF Safe

LEMMA NewTimetableSafe ==
    ASSUME IInv, OneAtATime, NewTimetable
    PROVE  Safe'
<1>1. /\ Len(asked) = 1 /\ timers = 0 /\ starts = 0 /\ Len(asked') = 0
      /\ asked[1] \in Snapshot /\ timetable' \in Timetables(asked[1])
      /\ UNCHANGED <<alloc, starts, made, launch, events, requeues>>
  <2>1. /\ Len(asked) > 0 /\ asked' = Tail(asked)
        /\ asked[1] \in Snapshot /\ timetable' \in Timetables(asked[1])
    BY NewTimetableIs DEF IInv
  <2>2. /\ asked \in Seq(Snapshot) /\ timers \in Nat /\ starts \in Nat
        /\ Len(asked) + timers + starts <= 1
    BY DEF IInv, TypeOK, Safe, StageInv
  <2>3. Len(asked) = 1 /\ timers = 0 /\ starts = 0 /\ Len(asked') = 0
    <3>1. Len(asked) \in Nat /\ Len(asked) = 1 /\ timers = 0 /\ starts = 0
      <4>1. Len(asked) \in Nat
        BY <2>2
      <4>2. Len(asked) > 0
        BY <2>1
      <4>3. timers \in Nat /\ starts \in Nat /\ Len(asked) + timers + starts <= 1
        BY <2>2
      <4>4. \A a, b, c \in Nat : a > 0 /\ a + b + c <= 1 => a = 1 /\ b = 0 /\ c = 0
        OBVIOUS
      <4> QED BY <4>1, <4>2, <4>3, <4>4
    <3>2. asked # <<>> /\ asked' = Tail(asked)
      BY DEF NewTimetable
    <3>3. Len(asked') = Len(asked) - 1
      BY <2>2, <3>2
    <3> QED BY <3>1, <3>3
  <2>4. UNCHANGED <<alloc, starts, made, launch, events, requeues>>
    BY DEF NewTimetable, work, bounds
  <2> QED BY <2>1, <2>3, <2>4
<1>2. /\ job' \in [JobIds -> JobRecord]
      /\ \A j \in JobIds :
           /\ job'[j].nodes = job[j].nodes
           /\ IF \E r \in timetable' : r.job = j /\ r.now
              THEN job'[j].state = "W" ELSE job'[j] = job[j]
      /\ \/ timers' = 0 /\ timetable' = {} /\ times' = times
         \/ /\ timers' = 1
            /\ times' = {IF r.now THEN "now" ELSE "later" : r \in timetable'}
  BY <1>1, NewTimetableIs DEF IInv
<1>3. /\ timetable' \subseteq Row
      /\ \A r \in timetable' : /\ r.job \in asked[1].jobs /\ r.main \in r.nodes
                               /\ r.now /\ r.nodes \subseteq asked[1].idle
      /\ \A r, q \in timetable' : r # q => r.job # q.job /\ r.nodes \cap q.nodes = {}
  <2>1. ~LaterRows
    BY DEF OneAtATime
  <2> QED BY <1>1, <2>1, RowsOfTimetable
<1>4. Pending' \subseteq timetable'
  BY DEF Pending
<1>5. /\ \A n \in asked[1].idle : alloc[n] = "idle"
      /\ \A j \in asked[1].jobs : job[j].state # "none" /\ Over(j)
      /\ asked[1].jobs \subseteq JobIds /\ asked[1].idle \subseteq Nodes
  <2>1. SnapshotInv /\ 1 \in 1 .. Len(asked)
    BY <1>1 DEF IInv, Safe
  <2> QED BY <1>1, <2>1 DEF SnapshotInv, Snapshot
<1>6. /\ \A i \in JobIds : Over(i)' = Over(i)
      /\ \A l \in Launches : Gone(l)' = Gone(l)
      /\ \A l \in Launches : Held(l)' = Held(l)
      /\ Launches' = Launches
  BY <1>1 DEF Over, Gone, Local, Launch, Held, Launches, Numbers
<1>7. StageInv'
  <2>1. Len(asked') = 0 /\ starts' = 0 /\ timers' \in {0, 1}
    BY <1>1, <1>2
  <2>2. times \subseteq {"now"}
    BY DEF IInv, Safe, StageInv
  <2>3. {IF r.now THEN "now" ELSE "later" : r \in timetable'} \subseteq {"now"}
    BY <1>3
  <2>4. times' \subseteq {"now"}
    BY <1>2, <2>2, <2>3
  <2>5. Len(asked') + timers' + starts' <= 1
    <3>1. CASE timers' = 0
      BY <2>1, <3>1
    <3>2. CASE timers' = 1
      BY <2>1, <3>2
    <3> QED BY <2>1, <3>1, <3>2
  <2> QED BY <2>4, <2>5 DEF StageInv
<1>8. SnapshotInv'
  BY <1>1 DEF SnapshotInv
<1>9. RowInv'
  <2>1. ASSUME NEW r \in timetable'
        PROVE  /\ r.now /\ r.main \in r.nodes
               /\ job'[r.job].state \notin {"none", "Q"}
               /\ Over(r.job)'
               /\ \A n \in r.nodes : alloc'[n] = "idle"
    <3>1. r.job \in JobIds /\ r.job \in asked[1].jobs /\ r.now /\ r.main \in r.nodes
          /\ r.nodes \subseteq asked[1].idle
      BY <1>3, <1>5
    <3>2. job'[r.job].state = "W"
      BY <1>2, <3>1
    <3>3. Over(r.job)'
      BY <1>5, <1>6, <3>1
    <3> QED BY <1>1, <1>5, <3>1, <3>2, <3>3
  <2> QED BY <1>3, <1>4, <2>1 DEF RowInv
<1>10. QueueInv' /\ LaunchInv' /\ EventInv' /\ HeldInv'
  <2>1. /\ made' = made /\ launch' = launch /\ alloc' = alloc /\ events' = events
        /\ QueueInv /\ LaunchInv /\ EventInv /\ HeldInv
    BY <1>1 DEF IInv, Safe
  <2>2. QueueInv'
    BY <1>2, <1>6, <2>1 DEF QueueInv
  <2>3. LaunchInv'
    BY <1>2, <1>6, <2>1 DEF LaunchInv, Launches
  <2> QED BY <1>6, <2>1, <2>2, <2>3 DEF EventInv, HeldInv
<1>11. FirstInv'
  <2> SUFFICES ASSUME requeues = 0, NEW j \in JobIds
               PROVE  /\ made[j] <= 1
                      /\ made[j] = 1 => /\ job'[j].state # "Q"
                                        /\ \A r \in Pending' : r.job # j
                      /\ job'[j].state \in {"F", "E"} => made[j] = 1 /\ Over(j)'
    BY <1>1 DEF FirstInv
  <2>1. /\ made[j] <= 1
        /\ made[j] = 1 => job[j].state # "Q" /\ j \notin asked[1].jobs
        /\ job[j].state \in {"F", "E"} => made[j] = 1 /\ Over(j)
    <3>1. FirstInv /\ 1 \in 1 .. Len(asked)
      BY <1>1 DEF IInv, Safe
    <3> QED BY <3>1 DEF FirstInv
  <2>2. job'[j].state = "W" \/ job'[j].state = job[j].state
    BY <1>2
  <2> QED BY <1>3, <1>4, <1>6, <2>1, <2>2
<1> QED BY <1>7, <1>8, <1>9, <1>10, <1>11 DEF Safe

LEMMA StartTimeSafe ==
    ASSUME IInv, StartTime
    PROVE  Safe'
<1>1. /\ asked \in Seq(Snapshot) /\ timers \in Nat /\ starts \in Nat
      /\ Len(asked) + timers + starts <= 1 /\ times \subseteq {"now"}
  BY DEF IInv, TypeOK, Safe, StageInv
<1> DEFINE left == times \ (IF "now" \in times THEN {"now"} ELSE {"later"})
<1>2. /\ timers > 0 /\ starts' = starts + 1 /\ times' = left
      /\ timers' = IF left = {} THEN timers - 1 ELSE timers
      /\ UNCHANGED <<records, asked, timetable, work, events, requeues>>
  BY DEF StartTime, bounds
<1>3. left = {}
  BY <1>1
<1>4. timers = 1 /\ timers' = 0 /\ starts = 0 /\ starts' = 1 /\ Len(asked) = 0
  BY <1>1, <1>2, <1>3
<1>5. /\ job' = job /\ alloc' = alloc /\ times' = {} /\ asked' = asked
      /\ launch' = launch /\ made' = made /\ events' = events /\ requeues' = requeues
      /\ Pending' = Pending
  BY <1>2, <1>3, <1>4 DEF records, work, Pending
<1>6. /\ \A j \in JobIds : Over(j)' = Over(j)
      /\ \A l \in Launches : Gone(l)' = Gone(l)
      /\ \A l \in Launches : Held(l)' = Held(l)
      /\ Launches' = Launches
  BY <1>5 DEF Over, Gone, Local, Launch, Held, Launches, Numbers
<1>7. \A r \in Pending : r.job \in JobIds
  BY DEF IInv, TypeOK, Pending, Row
<1>8. StageInv' /\ SnapshotInv'
  BY <1>4, <1>5 DEF StageInv, SnapshotInv
<1>9. RowInv'
  BY <1>5, <1>6, <1>7 DEF IInv, Safe, RowInv
<1>10. QueueInv' /\ LaunchInv' /\ EventInv' /\ HeldInv' /\ FirstInv'
  BY <1>5, <1>6 DEF IInv, Safe, QueueInv, LaunchInv, EventInv, HeldInv, FirstInv, Launches
<1> QED BY <1>8, <1>9, <1>10 DEF Safe

(* The rows that are started have nodes nobody holds.                      *)
LEMMA StartJobsSafe ==
    ASSUME IInv, TypeOK', StartJobs
    PROVE  Safe'
<1>1. /\ Len(asked) = 0 /\ timers = 0 /\ starts = 1 /\ starts' = 0
      /\ UNCHANGED <<asked, timetable, times, timers, events, requeues>>
  <2>1. /\ asked \in Seq(Snapshot) /\ timers \in Nat /\ starts \in Nat
        /\ Len(asked) + timers + starts <= 1
    BY DEF IInv, TypeOK, Safe, StageInv
  <2>2. starts > 0 /\ starts' = starts - 1 /\ UNCHANGED <<plan, events, requeues>>
    BY DEF StartJobs, bounds
  <2> QED BY <2>1, <2>2 DEF plan
<1>2. Pending = timetable /\ Pending' = {}
  BY <1>1 DEF Pending
<1>3. /\ \A r \in Now :
           /\ r \in Row /\ r.main \in r.nodes
           /\ job[r.job].state \notin {"none", "Q"}
           /\ Over(r.job)
           /\ \A n \in r.nodes : alloc[n] = "idle"
      /\ \A r, q \in Now : r # q => r.job # q.job /\ r.nodes \cap q.nodes = {}
  BY <1>2 DEF Now, IInv, TypeOK, Safe, RowInv
<1>4. \A j \in JobIds : Starts(j) =>
        /\ RowOf(j) \in Now /\ RowOf(j).job = j
        /\ made[j] < MaxStarts /\ made'[j] = made[j] + 1
        /\ job'[j] = [job[j] EXCEPT !.nodes = RowOf(j).nodes]
        /\ \A k \in Numbers : launch'[j][k] =
             IF k = made[j] + 1 THEN NewLaunch(RowOf(j)) ELSE launch[j][k]
  BY StartJobsIs, RowOfIs DEF IInv
<1>5. \A j \in JobIds : ~Starts(j) =>
        /\ made'[j] = made[j] /\ job'[j] = job[j]
        /\ \A k \in Numbers : launch'[j][k] = launch[j][k]
  BY StartJobsIs DEF IInv
<1>6. \A j \in JobIds :
        /\ made[j] \in 0 .. MaxStarts /\ made'[j] \in 0 .. MaxStarts
        /\ job[j] \in JobRecord
        /\ job'[j].state = job[j].state
  <2>1. \A j \in JobIds :
          made[j] \in 0 .. MaxStarts /\ made'[j] \in 0 .. MaxStarts /\ job[j] \in JobRecord
    BY RecordTypes DEF IInv, TypeOK
  <2>2. ASSUME NEW j \in JobIds PROVE job'[j].state = job[j].state
    <3>1. \/ job'[j] = job[j]
          \/ job'[j] = [job[j] EXCEPT !.nodes = RowOf(j).nodes]
      BY <1>4, <1>5
    <3> QED BY <2>1, <3>1 DEF JobRecord
  <2> QED BY <2>1, <2>2
<1>7. ASSUME NEW j \in JobIds, Starts(j) PROVE job[j].state \notin {"none", "Q"} /\ Over(j)
  <2>1. RowOf(j) \in Now /\ RowOf(j).job = j
    BY <1>4, <1>7
  <2>2. job[RowOf(j).job].state \notin {"none", "Q"} /\ Over(RowOf(j).job)
    BY <1>3, <2>1
  <2> QED BY <2>1, <2>2
<1> DEFINE Fresh(l) == Starts(l[1]) /\ l[2] = made[l[1]] + 1
<1>8. ASSUME NEW l \in Launches
      PROVE  /\ ~Fresh(l) => Gone(l)' = Gone(l) /\ Held(l)' = Held(l) /\ Launch(l)' = Launch(l)
             /\ Fresh(l) => /\ Held(l)' = RowOf(l[1]).nodes /\ Launch(l).st = "unused"
                            /\ Launch(l)' = NewLaunch(RowOf(l[1]))
  <2>1. l[1] \in JobIds /\ l[2] \in Numbers /\ Launch(l) = launch[l[1]][l[2]]
        /\ Launch(l)' = launch'[l[1]][l[2]]
    BY LaunchPair DEF Launch
  <2>2. CASE ~Fresh(l)
    <3>1. Launch(l)' = Launch(l)
      <4>1. CASE ~Starts(l[1])
        <5>1. launch'[l[1]][l[2]] = launch[l[1]][l[2]]
          BY <1>5, <2>1, <4>1
        <5> QED BY <2>1, <5>1
      <4>2. CASE Starts(l[1]) /\ l[2] # made[l[1]] + 1
        <5>1. launch'[l[1]][l[2]] = launch[l[1]][l[2]]
          BY <1>4, <2>1, <4>2
        <5> QED BY <2>1, <5>1
      <4> QED BY <2>2, <4>1, <4>2
    <3> QED BY <2>2, <3>1 DEF Gone, Held, Local
  <2>3. CASE Fresh(l)
    <3>1. Launch(l)' = NewLaunch(RowOf(l[1]))
      BY <1>4, <2>1, <2>3
    <3>2. Launch(l).st = "unused"
      <4>1. l[2] > made[l[1]]
        BY <1>6, <2>1, <2>3
      <4> QED BY <2>1, <4>1 DEF IInv, Safe, LaunchInv
    <3>3. Launch(l)'.st \in {"sleeping", "transfer"} /\ Launch(l)'.nodes = RowOf(l[1]).nodes
      BY <3>1 DEF NewLaunch
    <3>4. ~Gone(l)'
      BY <3>3 DEF Gone
    <3> QED BY <2>3, <3>1, <3>2, <3>3, <3>4 DEF Held
  <2> QED BY <2>2, <2>3
<1>9. ASSUME NEW j \in JobIds, Over(j), ~Starts(j) PROVE Over(j)'
  <2>1. made'[j] = made[j] /\ (made[j] > 0 => made[j] \in Numbers)
    BY <1>5, <1>6, <1>9 DEF Numbers
  <2>2. made[j] > 0 => launch'[j][made[j]] = launch[j][made[j]]
    BY <1>5, <1>9, <2>1
  <2> QED BY <1>9, <2>1, <2>2 DEF Over, Gone, Local, Launch
<1>10. StageInv' /\ SnapshotInv' /\ RowInv'
  <2>1. times \subseteq {"now"}
    BY DEF IInv, Safe, StageInv
  <2> QED BY <1>1, <1>2, <2>1 DEF StageInv, SnapshotInv, RowInv
<1>11. QueueInv'
  BY <1>5, <1>6, <1>7, <1>9 DEF IInv, Safe, QueueInv
<1>12. FirstInv'
  <2> SUFFICES ASSUME requeues = 0, NEW j \in JobIds
               PROVE  /\ made'[j] <= 1
                      /\ made'[j] = 1 => job'[j].state # "Q"
                      /\ job'[j].state \in {"F", "E"} => made'[j] = 1 /\ Over(j)'
    BY <1>1, <1>2 DEF FirstInv
  <2>1. /\ made[j] <= 1
        /\ made[j] = 1 => job[j].state # "Q" /\ \A r \in Pending : r.job # j
        /\ job[j].state \in {"F", "E"} => made[j] = 1 /\ Over(j)
    BY <1>1 DEF IInv, Safe, FirstInv
  <2>2. made[j] = 1 => ~Starts(j)
    BY <1>2, <2>1 DEF Starts, Now
  <2>3. CASE Starts(j)
    <3>1. made[j] \in Nat /\ made'[j] = made[j] + 1
      <4>1. made[j] \in Nat
        BY <1>6
      <4>2. made'[j] = made[j] + 1
        BY <1>4, <2>3
      <4> QED BY <4>1, <4>2
    <3>2. made[j] = 0 /\ made'[j] = 1
      BY <2>1, <2>2, <2>3, <3>1
    <3>3. job'[j].state = job[j].state /\ job[j].state # "Q"
      BY <1>6, <1>7, <2>3
    <3>4. job[j].state \notin {"F", "E"}
      BY <2>1, <3>2
    <3> QED BY <3>2, <3>3, <3>4
  <2>4. CASE ~Starts(j)
    BY <1>5, <1>6, <1>9, <2>1, <2>4
  <2> QED BY <2>3, <2>4
<1>13. EventInv'
  <2>1. ASSUME NEW e \in events, e.type = "finished"
        PROVE  launch'[e.job][e.num].st = "reported" /\ e.state \in Ended
    <3>1. launch[e.job][e.num].st = "reported" /\ e.state \in Ended
      BY <2>1 DEF IInv, Safe, EventInv
    <3>2. /\ <<e.job, e.num>> \in Launches
          /\ Launch(<<e.job, e.num>>) = launch[e.job][e.num]
      BY EventPair DEF IInv
    <3>3. Launch(<<e.job, e.num>>)' = Launch(<<e.job, e.num>>)
      BY <1>8, <3>1, <3>2
    <3> QED BY <3>1, <3>2, <3>3 DEF Launch
  <2> QED BY <1>1, <2>1 DEF EventInv, IInv, Safe
<1>14. LaunchInv'
  <2> SUFFICES ASSUME NEW j \in JobIds
               PROVE  /\ made'[j] > 0 => job'[j].nodes = launch'[j][made'[j]].nodes
                      /\ \A k \in Numbers :
                           /\ k > made'[j] => launch'[j][k].st = "unused"
                           /\ k < made'[j] => Gone(<<j, k>>)'
                           /\ launch'[j][k].st # "unused"
                              => launch'[j][k].main \in launch'[j][k].nodes
    BY DEF LaunchInv
  <2>1. /\ made[j] > 0 => job[j].nodes = launch[j][made[j]].nodes
        /\ \A k \in Numbers :
             /\ k > made[j] => launch[j][k].st = "unused"
             /\ k < made[j] => Gone(<<j, k>>)
             /\ launch[j][k].st # "unused" => launch[j][k].main \in launch[j][k].nodes
    BY DEF IInv, Safe, LaunchInv
  <2>2. made'[j] > 0 => made'[j] \in Numbers
    BY <1>6 DEF Numbers
  <2>3. \A k \in Numbers : /\ <<j, k>> \in Launches
                           /\ Launch(<<j, k>>) = launch[j][k] /\ Launch(<<j, k>>)' = launch'[j][k]
    BY DEF Launches, Launch
  <2>4. CASE ~Starts(j)
    <3>1. \A k \in Numbers : Gone(<<j, k>>)' = Gone(<<j, k>>)
      BY <1>8, <2>3, <2>4
    <3>2. made'[j] = made[j] /\ job'[j] = job[j]
          /\ \A k \in Numbers : launch'[j][k] = launch[j][k]
      BY <1>5, <2>4
    <3> QED BY <2>1, <2>2, <3>1, <3>2
  <2>5. CASE Starts(j)
    <3>1. /\ made'[j] = made[j] + 1 /\ RowOf(j) \in Now
          /\ job'[j] = [job[j] EXCEPT !.nodes = RowOf(j).nodes]
          /\ launch'[j][made'[j]] = NewLaunch(RowOf(j))
          /\ \A k \in Numbers : k # made'[j] => launch'[j][k] = launch[j][k]
      BY <1>4, <1>6, <2>2, <2>5
    <3>2. job'[j].nodes = launch'[j][made'[j]].nodes
      BY <1>6, <3>1 DEF NewLaunch, JobRecord
    <3>3. launch'[j][made'[j]].main \in launch'[j][made'[j]].nodes
      BY <1>3, <3>1 DEF NewLaunch
    <3>4. ASSUME NEW k \in Numbers, k < made'[j] PROVE Gone(<<j, k>>)'
      <4>1. k = made[j] \/ k < made[j]
        BY <1>6, <3>1, <3>4 DEF Numbers
      <4>2. k # made[j] + 1
        BY <1>6, <3>1, <3>4 DEF Numbers
      <4>3. Gone(<<j, k>>)
        BY <1>6, <1>7, <2>1, <2>5, <4>1 DEF Over, Numbers
      <4> QED BY <1>8, <2>3, <4>2, <4>3
    <3>5. ASSUME NEW k \in Numbers, k > made'[j] PROVE launch'[j][k].st = "unused"
      <4>1. k \in Nat /\ made[j] \in Nat /\ k > made[j] + 1
        BY <1>6, <3>1, <3>5 DEF Numbers
      <4>2. k > made[j] /\ k # made'[j]
        BY <3>1, <4>1
      <4> QED BY <2>1, <3>1, <4>2
    <3>6. ASSUME NEW k \in Numbers, launch'[j][k].st # "unused"
          PROVE  launch'[j][k].main \in launch'[j][k].nodes
      BY <2>1, <3>1, <3>3, <3>6
    <3> QED BY <3>2, <3>4, <3>5, <3>6
  <2> QED BY <2>4, <2>5
<1>15. HeldInv'
  <2>1. /\ \A l \in Launches : \A n \in Held(l) : alloc[n] = "busy"
        /\ \A l, m \in Launches : l # m => Held(l) \cap Held(m) = {}
    BY DEF IInv, Safe, HeldInv
  <2>2. \A l \in Launches : Held(l) \subseteq Nodes
    BY LaunchPair, RecordTypes DEF IInv, Held, LaunchRecord
  <2>3. \A n \in Nodes : alloc'[n] = IF \E r \in Now : n \in r.nodes THEN "busy" ELSE alloc[n]
    BY StartJobsIs DEF IInv
  <2>4. \A l \in Launches : Fresh(l) => /\ RowOf(l[1]) \in Now /\ RowOf(l[1]).job = l[1]
                                       /\ RowOf(l[1]).nodes \subseteq Nodes
    <3>1. \A r \in Now : r.nodes \subseteq Nodes
      BY <1>3 DEF Row
    <3> QED BY <1>4, <3>1, LaunchPair
  <2>5. ASSUME NEW l \in Launches, NEW n \in Held(l)' PROVE alloc'[n] = "busy"
    <3>1. CASE Fresh(l)
      <4>1. n \in RowOf(l[1]).nodes
        BY <1>8, <3>1
      <4> QED BY <2>3, <2>4, <3>1, <4>1
    <3>2. CASE ~Fresh(l)
      <4>1. n \in Held(l)
        BY <1>8, <3>2
      <4> QED BY <2>1, <2>2, <2>3, <4>1
    <3> QED BY <3>1, <3>2
  <2>6. ASSUME NEW l \in Launches, NEW m \in Launches, l # m
        PROVE  Held(l)' \cap Held(m)' = {}
    <3>1. CASE ~Fresh(l) /\ ~Fresh(m)
      BY <1>8, <2>1, <2>6, <3>1
    <3>2. CASE Fresh(l) /\ Fresh(m)
      <4>1. l[1] # m[1]
        BY <2>6, <3>2, LaunchPair
      <4>2. RowOf(l[1]) # RowOf(m[1])
        BY <2>4, <3>2, <4>1
      <4>3. RowOf(l[1]).nodes \cap RowOf(m[1]).nodes = {}
        BY <1>3, <2>4, <3>2, <4>2
      <4> QED BY <1>8, <3>2, <4>3
    <3>3. ASSUME NEW p \in Launches, NEW q \in Launches, Fresh(p), ~Fresh(q)
          PROVE  Held(p)' \cap Held(q)' = {}
      <4>1. Held(p)' = RowOf(p[1]).nodes /\ Held(q)' = Held(q)
        BY <1>8, <3>3
      <4>2. \A n \in RowOf(p[1]).nodes : alloc[n] = "idle"
        BY <1>3, <2>4, <3>3
      <4> QED BY <2>1, <4>1, <4>2
    <3> HIDE DEF Fresh
    <3> QED BY <3>1, <3>2, <3>3
  <2>7. Launches' = Launches
    BY DEF Launches, Numbers
  <2> QED BY <2>5, <2>6, <2>7 DEF HeldInv
<1> QED BY <1>10, <1>11, <1>12, <1>13, <1>14, <1>15 DEF Safe

(* The steps of one launch that keep its nodes.                            *)
LEMMA MoveSafe ==
    ASSUME IInv, NEW l \in Launches,
           \/ CommitDone(l) \/ CommitFailed(l) \/ JobArrived(l) \/ Execute(l)
           \/ ProcessDies(l)
    PROVE  Safe'
<1>1. /\ TypeOK'
      /\ Launch(l).st \in Coming \cup Process
      /\ UNCHANGED <<records, plan, starts, made, canceled, requeues>>
      /\ events' \in {events, events \cup {Started(l[1], l[2])}}
  BY LaunchActions DEF IInv
<1>2. PICK s \in LaunchState : SetLaunch(l, s) /\ s \notin {"unused", "done", "reported"}
  BY LaunchActions DEF IInv
<1>3. Launch(l).st # "unused" /\ ~Gone(l)
  BY <1>1 DEF Gone, Coming, Process
<1>4. StageInv' /\ SnapshotInv' /\ RowInv' /\ QueueInv' /\ FirstInv' /\ LaunchInv' /\ HeldInv'
  BY <1>1, <1>2, <1>3, LaunchStep DEF records
<1>5. EventInv'
  <2>1. \A e \in events' : e.type = "finished" => e \in events
    BY <1>1 DEF Started
  <2>2. ASSUME NEW e \in events, e.type = "finished"
        PROVE  launch'[e.job][e.num] = launch[e.job][e.num]
    <3>1. launch[e.job][e.num].st = "reported" /\ e.job \in JobIds /\ e.num \in Numbers
      BY <2>2, EventPair DEF IInv, Safe, EventInv
    <3>2. ~(e.job = l[1] /\ e.num = l[2])
      BY <1>1, <3>1, LaunchPair DEF Coming, Process
    <3>3. l[1] \in JobIds /\ l[2] \in Numbers /\ SetLaunch(<<l[1], l[2]>>, s)
      BY <1>2, LaunchPair
    <3>4. launch \in [JobIds -> [Numbers -> LaunchRecord]]
      BY RecordTypes DEF IInv
    <3>5. \A i \in JobIds, k \in Numbers :
            i # l[1] \/ k # l[2] => launch'[i][k] = launch[i][k]
      BY <3>3, <3>4, SetLaunchIs
    <3> QED BY <3>1, <3>2, <3>5
  <2> QED BY <2>1, <2>2 DEF EventInv, IInv, Safe
<1> QED BY <1>4, <1>5 DEF Safe

(* The end of a process: the head takes back its own node.                 *)
LEMMA CompleteSafe ==
    ASSUME IInv, NEW l \in Launches, NEW s \in {"E", "F"},
           Launch(l).st \in Process, Complete(l, s)
    PROVE  Safe'
<1>1. /\ TypeOK' /\ SetLaunch(l, "reported")
      /\ events' = events \cup {Finished(l[1], l[2], s)}
      /\ UNCHANGED <<plan, starts, made, canceled, requeues>>
      /\ Local(l) => /\ SetState(l[1], s)
                     /\ \A n \in Nodes : alloc'[n] = IF n = Manager THEN "idle" ELSE alloc[n]
      /\ ~Local(l) => UNCHANGED records
  BY CompleteIs DEF IInv, Ended
<1>2. /\ Launch(l).st # "unused" /\ ~Gone(l)
      /\ l[1] \in JobIds /\ l[2] \in Numbers /\ l = <<l[1], l[2]>>
      /\ Launch(l) = launch[l[1]][l[2]]
  BY LaunchPair DEF Gone, Process
<1>3. /\ launch'[l[1]][l[2]] = [launch[l[1]][l[2]] EXCEPT !.st = "reported"]
      /\ \A i \in JobIds, k \in Numbers :
           i # l[1] \/ k # l[2] => launch'[i][k] = launch[i][k]
      /\ launch[l[1]][l[2]] \in LaunchRecord
  BY <1>1, <1>2, SetLaunchIs, RecordTypes DEF IInv, LaunchState
<1>4. /\ l[2] = made[l[1]] /\ made[l[1]] > 0
      /\ Launch(l).main \in Launch(l).nodes /\ Held(l) = Launch(l).nodes
  BY <1>2, LastLaunch
<1>5. Local(l) => Gone(l)'
  BY <1>2, <1>3 DEF Gone, Local, Launch, LaunchRecord
<1>6. \A n \in Nodes :
        \/ alloc'[n] = alloc[n]
        \/ /\ alloc'[n] = "idle" /\ Gone(l)'
           /\ \A m \in Launches : m # l => n \notin Held(m)
  <2>1. CASE Local(l)
    <3>1. Manager \in Held(l)
      BY <1>4, <2>1 DEF Local
    <3>2. \A m \in Launches : m # l => Manager \notin Held(m)
      BY <3>1 DEF IInv, Safe, HeldInv
    <3> QED BY <1>1, <1>5, <2>1, <3>2
  <2>2. CASE ~Local(l)
    BY <1>1, <2>2 DEF records
  <2> QED BY <2>1, <2>2
<1>7. /\ \A j \in JobIds : job'[j].nodes = job[j].nodes
      /\ \A j \in JobIds :
           \/ job'[j].state = job[j].state
           \/ /\ job'[j].state \notin {"none", "Q"}
              /\ requeues = 0 /\ job'[j].state \in {"F", "E"} => made[j] > 0 /\ Over(j)'
  <2>1. CASE Local(l)
    <3>1. /\ job'[l[1]].state = s
          /\ \A j \in JobIds : job'[j].nodes = job[j].nodes
          /\ \A j \in JobIds : j # l[1] => job'[j] = job[j]
      BY <1>1, <1>2, <2>1, SetStateIs, RecordTypes DEF IInv, JobState, Ended
    <3>2. Over(l[1])'
      BY <1>1, <1>2, <1>4, <1>5, <2>1 DEF Over
    <3> QED BY <1>4, <3>1, <3>2
  <2>2. CASE ~Local(l)
    BY <1>1, <2>2 DEF records
  <2> QED BY <2>1, <2>2
<1>8. StageInv' /\ SnapshotInv' /\ RowInv' /\ QueueInv' /\ FirstInv' /\ LaunchInv' /\ HeldInv'
  BY <1>1, <1>2, <1>6, <1>7, LaunchStep DEF LaunchState
<1>9. EventInv'
  <2>1. ASSUME NEW e \in events, e.type = "finished"
        PROVE  /\ launch'[e.job][e.num].st = "reported" /\ e.state \in Ended
               /\ ~(e.job = l[1] /\ e.num = l[2])
    <3>1. launch[e.job][e.num].st = "reported" /\ e.state \in Ended
          /\ e.job \in JobIds /\ e.num \in Numbers
      BY <2>1, EventPair DEF IInv, Safe, EventInv
    <3>2. ~(e.job = l[1] /\ e.num = l[2])
      BY <1>2, <3>1 DEF Process
    <3> QED BY <1>3, <3>1, <3>2
  <2>2. launch'[l[1]][l[2]].st = "reported" /\ s \in Ended
    BY <1>3 DEF LaunchRecord, Ended
  <2>3. /\ Finished(l[1], l[2], s).job = l[1] /\ Finished(l[1], l[2], s).num = l[2]
        /\ Finished(l[1], l[2], s).state = s
    BY DEF Finished
  <2> QED BY <1>1, <2>1, <2>2, <2>3 DEF EventInv, IInv, Safe
<1> QED BY <1>8, <1>9 DEF Safe

(* The head hears of an end elsewhere: the job's record still has the      *)
(* nodes of that start, and nobody else holds one of them.                 *)
LEMMA JobFinishedSafe ==
    ASSUME IInv, NEW e \in events, JobFinished(e)
    PROVE  Safe'
<1> DEFINE l == <<e.job, e.num>>
<1>1. /\ e.job \in JobIds /\ e.num \in Numbers /\ e.state \in JobState
      /\ l \in Launches /\ Launch(l) = launch[e.job][e.num]
      /\ l[1] = e.job /\ l[2] = e.num
  BY EventPair DEF IInv
<1>2. /\ e.type = "finished" /\ events' = events \ {e}
      /\ SetState(e.job, e.state) /\ SetLaunch(l, "done")
      /\ Local(l) => UNCHANGED alloc
      /\ ~Local(l) => alloc' = [n \in Nodes |-> IF n \in job[e.job].nodes
                                                THEN "idle" ELSE alloc[n]]
      /\ UNCHANGED <<plan, starts, made, requeues>>
  BY DEF JobFinished, bounds
<1> HIDE DEF l
<1>3. launch[e.job][e.num].st = "reported" /\ e.state \in Ended
  BY <1>2 DEF IInv, Safe, EventInv
<1>4. /\ launch'[e.job][e.num] = [launch[e.job][e.num] EXCEPT !.st = "done"]
      /\ \A i \in JobIds, k \in Numbers :
           i # e.job \/ k # e.num => launch'[i][k] = launch[i][k]
      /\ launch[e.job][e.num] \in LaunchRecord
  BY <1>1, <1>2, SetLaunchIs, RecordTypes DEF IInv, LaunchState, l
<1>5. Gone(l)'
  BY <1>1, <1>4 DEF Gone, Launch, LaunchRecord
<1>6. \A n \in Nodes :
        \/ alloc'[n] = alloc[n]
        \/ /\ alloc'[n] = "idle" /\ Gone(l)'
           /\ \A m \in Launches : m # l => n \notin Held(m)
  <2>1. CASE Local(l)
    BY <1>2, <2>1
  <2>2. CASE ~Local(l)
    <3>1. ~Gone(l)
      BY <1>1, <1>3, <2>2 DEF Gone
    <3>2. job[e.job].nodes = Held(l)
      BY <1>1, <3>1, LastLaunch
    <3>3. \A m \in Launches : m # l => Held(l) \cap Held(m) = {}
      BY <1>1 DEF IInv, Safe, HeldInv
    <3> QED BY <1>2, <1>5, <2>2, <3>2, <3>3
  <2> QED BY <2>1, <2>2
<1>7. /\ job'[e.job].state = e.state
      /\ \A j \in JobIds : job'[j].nodes = job[j].nodes
      /\ \A j \in JobIds : j # e.job => job'[j] = job[j]
  BY <1>1, <1>2, SetStateIs, RecordTypes DEF IInv
<1>8. requeues = 0 => made[e.job] > 0 /\ Over(e.job)'
  <2> SUFFICES ASSUME requeues = 0 PROVE made[e.job] > 0 /\ Over(e.job)'
    OBVIOUS
  <2>1. made[e.job] <= 1
    BY <1>1 DEF IInv, Safe, FirstInv
  <2>2. ~(e.num > made[e.job])
    BY <1>1, <1>3 DEF IInv, Safe, LaunchInv
  <2>3. made[e.job] \in Nat /\ e.num \in Nat /\ e.num > 0
    BY <1>1, BoundsAssumption DEF IInv, TypeOK, Numbers
  <2>4. e.num = made[e.job]
    BY <2>1, <2>2, <2>3
  <2> QED BY <1>2, <1>5, <2>3, <2>4 DEF Over, l
<1>9. \A j \in JobIds :
        \/ job'[j].state = job[j].state
        \/ /\ job'[j].state \notin {"none", "Q"}
           /\ requeues = 0 /\ job'[j].state \in {"F", "E"} => made[j] > 0 /\ Over(j)'
  BY <1>3, <1>7, <1>8 DEF Ended
<1>10. TypeOK'
  BY ReportType DEF IInv
<1>11. StageInv' /\ SnapshotInv' /\ RowInv' /\ QueueInv' /\ FirstInv' /\ LaunchInv' /\ HeldInv'
  BY <1>1, <1>2, <1>3, <1>6, <1>7, <1>9, <1>10, LaunchStep DEF LaunchState
<1>12. EventInv'
  <2>1. ASSUME NEW f \in events', f.type = "finished" PROVE ~(f.job = e.job /\ f.num = e.num)
    BY <1>2, <2>1 DEF IInv, Safe, EventInv
  <2>2. \A f \in events' : f.job \in JobIds /\ f.num \in Numbers
    BY <1>2, EventPair DEF IInv
  <2>3. \A f \in events' : f.type = "finished" =>
          launch'[f.job][f.num].st = launch[f.job][f.num].st
    BY <1>4, <2>1, <2>2
  <2> QED BY <1>2, <2>3, EventsKept DEF IInv, Safe
<1> QED BY <1>11, <1>12 DEF Safe

LEMMA ReportSafe ==
    ASSUME IInv, NEW e \in events, ProcStarted(e) \/ EventLost(e)
    PROVE  Safe'
<1>1. /\ e.job \in JobIds /\ e.num \in Numbers
      /\ <<e.job, e.num>> \in Launches /\ Launch(<<e.job, e.num>>) = launch[e.job][e.num]
  BY EventPair DEF IInv
<1>2. CASE ProcStarted(e)
  <2>1. /\ events' = events \ {e} /\ SetState(e.job, "R")
        /\ UNCHANGED <<alloc, plan, starts, made, launch, requeues>>
    BY <1>2 DEF ProcStarted, work, bounds
  <2>2. /\ job'[e.job].state = "R"
        /\ \A j \in JobIds : job'[j].nodes = job[j].nodes
        /\ \A j \in JobIds : j # e.job => job'[j] = job[j]
    BY <1>1, <2>1, SetStateIs, RecordTypes DEF IInv, JobState
  <2>3. StageInv' /\ SnapshotInv' /\ RowInv' /\ QueueInv' /\ FirstInv' /\ LaunchInv' /\ HeldInv'
    BY <2>1, <2>2, NoLaunchStep
  <2>4. EventInv'
    BY <2>1, EventsKept DEF IInv, Safe
  <2> QED BY <2>3, <2>4 DEF Safe
<1>3. CASE EventLost(e) /\ e.type = "finished"
  <2>1. /\ events' = events \ {e} /\ ~Local(<<e.job, e.num>>)
        /\ SetLaunch(<<e.job, e.num>>, "lost")
        /\ UNCHANGED <<records, plan, starts, made, requeues>>
    BY <1>3 DEF EventLost
  <2>2. launch[e.job][e.num].st = "reported"
    BY <1>3 DEF IInv, Safe, EventInv
  <2>3. ~Gone(<<e.job, e.num>>) /\ "lost" \in LaunchState
    BY <1>1, <2>1, <2>2 DEF Gone, LaunchState, Broken
  <2>4. TypeOK'
    BY <1>3, ReportType DEF IInv
  <2>5. StageInv' /\ SnapshotInv' /\ RowInv' /\ QueueInv' /\ FirstInv' /\ LaunchInv' /\ HeldInv'
    BY <1>1, <2>1, <2>2, <2>3, <2>4, LaunchStep DEF records
  <2>6. \A i \in JobIds, k \in Numbers :
          i # e.job \/ k # e.num => launch'[i][k] = launch[i][k]
    BY <1>1, <2>1, <2>3, SetLaunchIs, RecordTypes DEF IInv
  <2>7. ASSUME NEW f \in events', f.type = "finished" PROVE ~(f.job = e.job /\ f.num = e.num)
    BY <1>3, <2>1, <2>7 DEF IInv, Safe, EventInv
  <2>8. \A f \in events' : f.job \in JobIds /\ f.num \in Numbers
    BY <2>1, EventPair DEF IInv
  <2>9. \A f \in events' : f.type = "finished" =>
          launch'[f.job][f.num].st = launch[f.job][f.num].st
    BY <2>6, <2>7, <2>8
  <2>10. EventInv'
    BY <2>1, <2>9, EventsKept DEF IInv, Safe
  <2> QED BY <2>5, <2>10 DEF Safe
<1>4. CASE EventLost(e) /\ e.type # "finished"
  <2>1. events' = events \ {e} /\ UNCHANGED <<records, plan, starts, made, launch, requeues>>
    BY <1>4 DEF EventLost
  <2>2. StageInv' /\ SnapshotInv' /\ RowInv' /\ QueueInv' /\ FirstInv' /\ LaunchInv' /\ HeldInv'
    BY <2>1, NoLaunchStep DEF records
  <2>3. EventInv'
    BY <2>1, EventsKept DEF IInv, Safe
  <2> QED BY <2>2, <2>3 DEF Safe
<1> QED BY <1>2, <1>3, <1>4

-----------------------------------------------------------------------------
(***************************************************************************)
(* The theorems.                                                           *)
(***************************************************************************)
LEMMA InitSafe == Init => Safe
<1> SUFFICES ASSUME Init PROVE Safe
  OBVIOUS
<1>1. \A l \in Launches : Launch(l).st = "unused"
  BY LaunchPair DEF Init, Unused
<1>2. \A l \in Launches : Gone(l) /\ Held(l) = {}
  BY <1>1 DEF Gone, Held
<1>3. StageInv /\ SnapshotInv /\ RowInv /\ EventInv /\ HeldInv
  BY <1>2 DEF Init, StageInv, SnapshotInv, RowInv, EventInv, HeldInv, Pending
<1>4. QueueInv /\ FirstInv
  BY DEF Init, QueueInv, FirstInv, Over
<1>5. LaunchInv
  BY <1>2 DEF Init, LaunchInv, Unused, Launches, Numbers
<1> QED BY <1>3, <1>4, <1>5 DEF Safe

LEMMA StepSafe == ASSUME OneAtATime PROVE IInv /\ [Next]_vars => IInv'
<1>1. IInv /\ [Next]_vars => TypeOK'
  BY StepType DEF IInv
<1> SUFFICES ASSUME IInv, [Next]_vars PROVE Safe'
  BY <1>1 DEF IInv
<1>2. ASSUME NEW j \in JobIds, Submit(j) \/ Requeue(j) PROVE Safe'
  BY <1>2, SubmitSafe, RequeueSafe
<1>3. CASE Schedule \/ NewTimetable \/ StartTime \/ StartJobs
  BY <1>1, <1>3, ScheduleSafe, NewTimetableSafe, StartTimeSafe, StartJobsSafe
<1>4. ASSUME NEW l \in Launches, \/ CommitDone(l) \/ CommitFailed(l) \/ JobArrived(l)
                                 \/ Execute(l) \/ ProcessDies(l)
      PROVE  Safe'
  BY <1>4, MoveSafe
<1>5. ASSUME NEW l \in Launches, NEW s \in {"E", "F"}, Launch(l).st \in Process, Complete(l, s)
      PROVE  Safe'
  BY <1>5, CompleteSafe
<1>6. ASSUME NEW e \in events, ProcStarted(e) \/ JobFinished(e) \/ EventLost(e) PROVE Safe'
  BY <1>6, JobFinishedSafe, ReportSafe
<1>7. CASE UNCHANGED vars
  <2>1. UNCHANGED <<job, plan, starts, alloc, made, launch, requeues, events>>
    BY <1>7 DEF vars, records, work, bounds
  <2>2. StageInv' /\ SnapshotInv' /\ RowInv' /\ QueueInv' /\ FirstInv' /\ LaunchInv' /\ HeldInv'
    BY <2>1, NoLaunchStep
  <2>3. EventInv'
    BY <2>1, EventsKept DEF IInv, Safe
  <2> QED BY <2>2, <2>3 DEF Safe
<1> QED BY <1>2, <1>3, <1>4, <1>5, <1>6, <1>7, StepIs

LEMMA Invariant == ASSUME OneAtATime PROVE Spec => []IInv
<1>1. Init => IInv
  BY InitType, InitSafe DEF IInv
<1>2. IInv /\ [Next]_vars => IInv'
  BY StepSafe
<1> QED BY <1>1, <1>2, PTL DEF Spec

(* What is on its way to its nodes or is a process on them holds them.     *)
LEMMA Occupied ==
    ASSUME NEW l \in Launches, Occupies(l)
    PROVE  ~Gone(l) /\ Held(l) = Launch(l).nodes
  BY DEF Occupies, Gone, Held, Coming, Process

(* The head gives no node to a second job before the first one's launch    *)
(* has left it, whatever is lost or dies meanwhile.                        *)
THEOREM ExclusiveNodes == ASSUME OneAtATime PROVE Spec => []NodeExclusive
<1>1. IInv => NodeExclusive
  BY Occupied DEF IInv, Safe, HeldInv, NodeExclusive
<1> QED BY <1>1, Invariant, PTL

(* What the head offers to swm-sched as idle is free.                      *)
THEOREM IdleNodesAreFree == ASSUME OneAtATime PROVE Spec => []IdleMeansFree
<1>1. IInv => IdleMeansFree
  BY Occupied DEF IInv, Safe, HeldInv, IdleMeansFree
<1> QED BY <1>1, Invariant, PTL

(* A job is one wm_proc at a time.                                         *)
THEOREM OneProcessPerJob == ASSUME OneAtATime PROVE Spec => []OneProcess
<1>1. IInv => OneProcess
  <2> SUFFICES ASSUME IInv, NEW l \in Launches, NEW m \in Launches,
                      l[1] = m[1], Occupies(l), Occupies(m)
               PROVE  l = m
    BY DEF OneProcess
  <2>1. l[2] = made[l[1]] /\ m[2] = made[m[1]]
    BY Occupied, LastLaunch
  <2> QED BY <2>1, LaunchPair
<1> QED BY <1>1, Invariant, PTL

-----------------------------------------------------------------------------
(***************************************************************************)
(* A WAITING job, that no pass looks at again, is not forgotten.           *)
(***************************************************************************)

(* A step that neither makes a job WAITING nor takes a row, the timer or   *)
(* the event of its start or its unfinished launch from it.                *)
LEMMA WaitKept ==
    ASSUME WaitingIsPlanned,
           \A j \in JobIds : job'[j].state = "W" =>
              /\ job[j].state = "W"
              /\ \A k \in Numbers : launch'[j][k].st \in {"unused", "done"} =>
                                      launch[j][k].st \in {"unused", "done"},
           timers + starts > 0 => timers' + starts' > 0,
           timetable' = timetable
    PROVE  WaitingIsPlanned'
  BY DEF WaitingIsPlanned

(* Of two launches after one was moved, none is unused or done unless it   *)
(* was before or the move made it so.                                      *)
LEMMA MovedIs ==
    ASSUME TypeOK, NEW l \in Launches, NEW s \in LaunchState, SetLaunch(l, s)
    PROVE  \A j \in JobIds, k \in Numbers :
             launch'[j][k].st \in {"unused", "done"} =>
               \/ launch[j][k].st \in {"unused", "done"}
               \/ s \in {"unused", "done"} /\ j = l[1] /\ k = l[2]
<1>1. l[1] \in JobIds /\ l[2] \in Numbers /\ SetLaunch(<<l[1], l[2]>>, s)
  BY LaunchPair
<1>2. launch \in [JobIds -> [Numbers -> LaunchRecord]]
  BY RecordTypes
<1>3. /\ launch'[l[1]][l[2]] = [launch[l[1]][l[2]] EXCEPT !.st = s]
      /\ \A i \in JobIds, m \in Numbers :
           i # l[1] \/ m # l[2] => launch'[i][m] = launch[i][m]
      /\ launch[l[1]][l[2]] \in LaunchRecord
  BY <1>1, <1>2, SetLaunchIs
<1>4. launch'[l[1]][l[2]].st = s
  BY <1>3 DEF LaunchRecord
<1> QED BY <1>3, <1>4

LEMMA SumPositive == ASSUME NEW m \in Nat, NEW n \in Nat, n > 0 PROVE m + n > 0
  OBVIOUS

LEMMA PlanningWaits ==
    ASSUME IInv, WaitingIsPlanned, Schedule \/ NewTimetable \/ StartTime \/ StartJobs
    PROVE  WaitingIsPlanned'
<1>1. timers \in Nat /\ starts \in Nat
  BY DEF IInv, TypeOK
<1>2. CASE Schedule
  BY <1>2, WaitKept DEF Schedule, records, work
<1>3. CASE NewTimetable
  <2>1. /\ Len(asked) > 0
        /\ \A j \in JobIds : IF \E r \in timetable' : r.job = j /\ r.now
                             THEN job'[j].state = "W" ELSE job'[j] = job[j]
        /\ timetable' # {} => timers' = timers + 1
    BY <1>3, NewTimetableIs DEF IInv
  <2>2. timers + starts = 0
    BY <1>1, <2>1 DEF IInv, Safe, StageInv, TypeOK
  <2>3. starts' = starts /\ launch' = launch
    BY <1>3 DEF NewTimetable, work
  <2>4. ASSUME NEW j \in JobIds, job'[j].state = "W",
               ~ \E r \in timetable' : r.job = j /\ r.now
        PROVE  \E k \in Numbers : launch'[j][k].st \notin {"unused", "done"}
    <3>1. job[j].state = "W" /\ ~(timers + starts > 0)
      BY <2>1, <2>2, <2>4
    <3> QED BY <2>3, <3>1 DEF WaitingIsPlanned
  <2>5. ASSUME NEW j \in JobIds, \E r \in timetable' : r.job = j /\ r.now
        PROVE  timers' + starts' > 0
    BY <1>1, <2>1, <2>3, <2>5
  <2> QED BY <2>4, <2>5 DEF WaitingIsPlanned
<1>4. CASE StartTime
  <2>1. timers' \in Nat /\ starts' \in Nat /\ starts' > 0
    <3>1. starts' = starts + 1 /\ timers > 0 /\ (timers' = timers \/ timers' = timers - 1)
      BY <1>4 DEF StartTime
    <3> QED BY <1>1, <3>1
  <2>2. timers' + starts' > 0
    BY <2>1, SumPositive
  <2> QED BY <1>4, <2>2, WaitKept DEF StartTime, records, work
<1>5. CASE StartJobs
  <2>1. timetable' = timetable
    BY <1>5 DEF StartJobs, plan
  <2> SUFFICES ASSUME NEW j \in JobIds, job'[j].state = "W"
               PROVE  \E k \in Numbers : launch'[j][k].st \notin {"unused", "done"}
    BY DEF WaitingIsPlanned
  <2>2. CASE Starts(j)
    <3>1. made[j] < MaxStarts /\ \A k \in Numbers : k = made[j] + 1 =>
                                   launch'[j][k] = NewLaunch(RowOf(j))
      BY <1>5, <2>2, StartJobsIs DEF IInv
    <3>2. made[j] + 1 \in Numbers
      BY <3>1, BoundsAssumption DEF IInv, TypeOK, Numbers
    <3>3. NewLaunch(RowOf(j)).st \in {"sleeping", "transfer"}
      BY DEF NewLaunch
    <3> QED BY <3>1, <3>2, <3>3
  <2>3. CASE ~Starts(j)
    <3>1. job'[j] = job[j] /\ \A k \in Numbers : launch'[j][k] = launch[j][k]
      BY <1>5, <2>3, StartJobsIs DEF IInv
    <3>2. ~ \E r \in timetable : r.job = j /\ r.now
      BY <2>3 DEF Starts, Now
    <3> QED BY <3>1, <3>2 DEF WaitingIsPlanned
  <2> QED BY <2>2, <2>3
<1> QED BY <1>2, <1>3, <1>4, <1>5

LEMMA LaunchWaits ==
    ASSUME IInv, WaitingIsPlanned, NEW l \in Launches,
           \/ CommitDone(l) \/ CommitFailed(l) \/ JobArrived(l) \/ Execute(l)
           \/ ProcessDies(l)
           \/ \E s \in {"E", "F"} : Complete(l, s)
    PROVE  WaitingIsPlanned'
<1>1. TypeOK
  BY DEF IInv
<1>2. CASE \/ CommitDone(l) \/ CommitFailed(l) \/ JobArrived(l) \/ Execute(l)
           \/ ProcessDies(l)
  <2>1. PICK s \in LaunchState : SetLaunch(l, s) /\ s \notin {"unused", "done", "reported"}
    BY <1>1, <1>2, LaunchActions
  <2>2. UNCHANGED <<records, plan, starts>>
    BY <1>1, <1>2, LaunchActions
  <2>3. \A j \in JobIds, k \in Numbers : launch'[j][k].st \in {"unused", "done"} =>
                                           launch[j][k].st \in {"unused", "done"}
    BY <1>1, <2>1, MovedIs
  <2> QED BY <2>2, <2>3, WaitKept DEF records, plan
<1>3. CASE \E s \in {"E", "F"} : Complete(l, s)
  <2>1. PICK s \in {"E", "F"} : Complete(l, s)
    BY <1>3
  <2>2. /\ SetLaunch(l, "reported") /\ UNCHANGED <<plan, starts>>
        /\ Local(l) => SetState(l[1], s)
        /\ ~Local(l) => UNCHANGED records
    BY <1>1, <2>1, CompleteIs DEF Ended
  <2>3. \A j \in JobIds, k \in Numbers : launch'[j][k].st \in {"unused", "done"} =>
                                           launch[j][k].st \in {"unused", "done"}
    BY <1>1, <2>2, MovedIs DEF LaunchState
  <2>4. \A j \in JobIds : job'[j].state = "W" => job[j].state = "W"
    <3>1. CASE Local(l)
      <4>1. /\ job'[l[1]].state = s
            /\ \A j \in JobIds : j # l[1] => job'[j] = job[j]
        BY <1>1, <2>2, <3>1, SetStateIs, RecordTypes, LaunchPair DEF JobState, Ended
      <4> QED BY <4>1
    <3>2. CASE ~Local(l)
      BY <2>2, <3>2 DEF records
    <3> QED BY <3>1, <3>2
  <2> QED BY <2>2, <2>3, <2>4, WaitKept DEF plan
<1> QED BY <1>2, <1>3

(* The end of a launch that the head handles is also the end of its job's  *)
(* record, so no other job loses what it waits for.                        *)
LEMMA ReportWaits ==
    ASSUME IInv, WaitingIsPlanned, NEW e \in events,
           ProcStarted(e) \/ JobFinished(e) \/ EventLost(e)
    PROVE  WaitingIsPlanned'
<1>1. /\ TypeOK /\ job \in [JobIds -> JobRecord]
      /\ e.job \in JobIds /\ e.num \in Numbers /\ e.state \in JobState
      /\ <<e.job, e.num>> \in Launches
  BY EventPair, RecordTypes DEF IInv
<1>2. CASE ProcStarted(e)
  <2>1. SetState(e.job, "R") /\ UNCHANGED <<plan, starts, launch>>
    BY <1>2 DEF ProcStarted, work
  <2>2. job'[e.job].state = "R" /\ \A j \in JobIds : j # e.job => job'[j] = job[j]
    BY <1>1, <2>1, SetStateIs DEF JobState
  <2> QED BY <2>1, <2>2, WaitKept DEF plan
<1>3. CASE JobFinished(e)
  <2>1. /\ SetState(e.job, e.state) /\ UNCHANGED <<plan, starts>>
        /\ SetLaunch(<<e.job, e.num>>, "done") /\ e.state \in Ended
    BY <1>3 DEF JobFinished, IInv, Safe, EventInv
  <2>2. job'[e.job].state = e.state /\ \A j \in JobIds : j # e.job => job'[j] = job[j]
    BY <1>1, <2>1, SetStateIs
  <2>3. \A j \in JobIds, k \in Numbers :
          launch'[j][k].st \in {"unused", "done"} =>
            launch[j][k].st \in {"unused", "done"} \/ j = e.job
    BY <1>1, <2>1, MovedIs DEF LaunchState
  <2>4. \A j \in JobIds : job'[j].state = "W" => job[j].state = "W" /\ j # e.job
    BY <2>1, <2>2 DEF Ended
  <2> QED BY <2>1, <2>3, <2>4, WaitKept DEF plan
<1>4. CASE EventLost(e)
  <2>1. /\ UNCHANGED <<records, plan, starts>>
        /\ SetLaunch(<<e.job, e.num>>, "lost") \/ UNCHANGED launch
    BY <1>4 DEF EventLost
  <2>2. \A j \in JobIds, k \in Numbers : launch'[j][k].st \in {"unused", "done"} =>
                                           launch[j][k].st \in {"unused", "done"}
    BY <1>1, <2>1, MovedIs DEF LaunchState, Broken
  <2> QED BY <2>1, <2>2, WaitKept DEF records, plan
<1> QED BY <1>2, <1>3, <1>4

LEMMA StepWaits == IInv /\ WaitingIsPlanned /\ [Next]_vars => WaitingIsPlanned'
<1> SUFFICES ASSUME IInv, WaitingIsPlanned, [Next]_vars PROVE WaitingIsPlanned'
  OBVIOUS
<1>1. ASSUME NEW j \in JobIds, Submit(j) \/ Requeue(j) PROVE WaitingIsPlanned'
  <2>1. SetState(j, "Q") /\ UNCHANGED <<plan, starts, work>>
    BY <1>1 DEF Submit, Requeue
  <2>2. job'[j].state = "Q" /\ \A i \in JobIds : i # j => job'[i] = job[i]
    BY <2>1, SetStateIs, RecordTypes DEF IInv, JobState
  <2> QED BY <2>1, <2>2, WaitKept DEF plan, work
<1>2. CASE UNCHANGED vars
  BY <1>2, WaitKept DEF vars, records, plan, work
<1> QED BY <1>1, <1>2, PlanningWaits, LaunchWaits, ReportWaits, StepIs

(* The head forgets no WAITING job: its start is still planned, or it has  *)
(* a launch that has not come to its end.                                  *)
THEOREM WaitingJobsArePlanned == ASSUME OneAtATime PROVE Spec => []WaitingIsPlanned
<1>1. Init => WaitingIsPlanned
  BY DEF Init, WaitingIsPlanned
<1>2. IInv /\ WaitingIsPlanned /\ [Next]_vars => WaitingIsPlanned'
  BY StepWaits
<1> QED BY <1>1, <1>2, Invariant, PTL DEF Spec
=============================================================================
