----------------------------- MODULE PmixProofs -----------------------------
(***************************************************************************)
(* The types of Pmix, for any number of nodes, tasks, fences and faults,   *)
(* and lemmas about the maps and sequences it is made of.  The fences are  *)
(* in FenceProofs.                                                         *)
(***************************************************************************)
EXTENDS Pmix, FiniteSetTheorems, SequenceTheorems, TLAPS

(***************************************************************************)
(* Maps and sequences.                                                     *)
(***************************************************************************)
Partial(S, T) == UNION {[D -> T] : D \in SUBSET S}

LEMMA PartialFunction ==
    ASSUME NEW S, NEW T, NEW f \in Partial(S, T)
    PROVE  /\ f = [x \in DOMAIN f |-> f[x]]
           /\ DOMAIN f \subseteq S
           /\ \A x \in DOMAIN f : f[x] \in T
BY DEF Partial

LEMMA EmptyPartial == ASSUME NEW S, NEW T PROVE <<>> \in Partial(S, T) /\ DOMAIN <<>> = {}
<1>1. DOMAIN <<>> = {} /\ <<>> \in [{} -> T]
  OBVIOUS
<1> QED BY <1>1 DEF Partial

LEMMA PutPartial ==
    ASSUME NEW S, NEW T, NEW f \in Partial(S, T), NEW x \in S, NEW y \in T
    PROVE  Put(f, x, y) \in Partial(S, T)
<1>1. DOMAIN f \subseteq S /\ \A z \in DOMAIN f : f[z] \in T
  BY PartialFunction
<1>2. Put(f, x, y) \in [{x} \cup DOMAIN f -> T]
  BY <1>1 DEF Put
<1> QED BY <1>1, <1>2 DEF Partial

LEMMA PutFacts ==
    ASSUME NEW f, NEW x, NEW y
    PROVE  /\ DOMAIN Put(f, x, y) = {x} \cup DOMAIN f
           /\ Put(f, x, y)[x] = y
           /\ \A z \in DOMAIN f : z # x => Put(f, x, y)[z] = f[z]
BY DEF Put

LEMMA RemovePartial ==
    ASSUME NEW S, NEW T, NEW f \in Partial(S, T), NEW x
    PROVE  Remove(f, x) \in Partial(S, T)
<1>1. DOMAIN f \subseteq S /\ \A z \in DOMAIN f : f[z] \in T
  BY PartialFunction
<1>2. Remove(f, x) \in [DOMAIN f \ {x} -> T]
  BY <1>1 DEF Remove
<1> QED BY <1>1, <1>2 DEF Partial

(* The pipes: a line more at the end, some lines more, one line less.      *)
LEMMA AppendLines ==
    ASSUME NEW S, NEW s \in Seq(S), NEW x \in S
    PROVE  /\ Append(s, x) \in Seq(S)
           /\ Len(Append(s, x)) = Len(s) + 1
           /\ DOMAIN Append(s, x) = DOMAIN s \cup {Len(s) + 1}
           /\ \A i \in DOMAIN s : Append(s, x)[i] = s[i]
           /\ Append(s, x)[Len(s) + 1] = x
OBVIOUS

LEMMA ConcatLines ==
    ASSUME NEW S, NEW s \in Seq(S), NEW u \in Seq(S)
    PROVE  /\ s \o u \in Seq(S)
           /\ Len(s \o u) = Len(s) + Len(u)
           /\ DOMAIN s \subseteq DOMAIN (s \o u)
           /\ \A i \in DOMAIN s : (s \o u)[i] = s[i]
           /\ \A i \in DOMAIN (s \o u) :
                 i \in DOMAIN s \/ (i - Len(s) \in DOMAIN u /\ (s \o u)[i] = u[i - Len(s)])
OBVIOUS

LEMMA TailLines ==
    ASSUME NEW S, NEW s \in Seq(S), s # <<>>
    PROVE  /\ Head(s) \in S /\ Tail(s) \in Seq(S)
           /\ Len(Tail(s)) = Len(s) - 1
           /\ \A i \in DOMAIN Tail(s) : i + 1 \in DOMAIN s /\ Tail(s)[i] = s[i + 1]
           /\ \A i \in DOMAIN s : i = 1 \/ i - 1 \in DOMAIN Tail(s)
           /\ 1 \in DOMAIN s /\ Head(s) = s[1]
OBVIOUS

-----------------------------------------------------------------------------
(***************************************************************************)
(* The types of the variables, stated for the groups of variables that     *)
(* steps leave unchanged together.                                         *)
(***************************************************************************)
MainState == [at : Wait \cup {"off", "read", "drain", "gone"}, rank : Rank]
RankState == [task : Task \cup {0}, st : {"off", "up", "ready", "fence", "over", "failed"},
              k : 0..MaxFences]
TaskState == [st : {"none", "running", "ended"}, done : Nat, code : {0, 1, 143}]
CallsOf(n) == [task : Task, round : Round, rank : {n}]
Calls == [task : Task, round : Round, rank : Rank]
Blobs == Partial(Rank, Calls)
PlainLine == [cmd : {"REGISTER", "CONTRIB_ID", "STOP"}, rank : Rank]
OutLine == [cmd : {"FENCE_OUT"}, id : Nat, blob : Blobs]
InLine == [id : Nat, key : Rank, call : Calls]
StartMsg == [type : {"start"}, to : Rank \ {0}, task : Task]
ContribMsg == [type : {"contrib"}, to : {0}, key : Rank, call : Calls]
ResultMsg == [type : {"result"}, to : Rank \ {0}, blob : Blobs]
DoneMsg == [type : {"done"}, to : {0}, task : Task, from : Rank \ {0}, code : {0, 1}]

ProcessTypes ==
    /\ main \in [Rank -> MainState]
    /\ registered \in [Rank -> BOOLEAN]
    /\ contrib \in [Rank -> Rank]
    /\ seq \in [Rank -> Nat]
    /\ pending = [n \in Rank |-> pending[n]]
    /\ \A n \in Rank : pending[n] \in Partial(Nat, CallsOf(n))
    /\ storing \in [Rank -> Seq([id : Nat, call : Calls])]
    /\ \A n \in Rank : Len(storing[n]) <= 1
    /\ ops \in [Rank -> Seq([op : Wait, rank : Rank])]
    /\ clients \in [Rank -> SUBSET Rank]
PipeTypes ==
    /\ stdin \in [Rank -> Seq(PlainLine \cup OutLine)]
    /\ stdout \in [Rank -> Seq(InLine)]
SessionTypes ==
    /\ helper \in [Rank -> BOOLEAN]
    /\ follows \in [Rank -> BOOLEAN]
    /\ expected \in [Rank -> {0, N}]
    /\ peers \in BOOLEAN
RoundTypes ==
    /\ arrived \in Blobs
    /\ localIds \in [Rank -> Seq(Nat)]
BookTypes ==
    /\ tasks \in [Task -> TaskState]
    /\ contTask \in [Rank -> Task \cup {0}]
    /\ replyTo \in [Rank -> SUBSET Task]
NetTypes == net \subseteq StartMsg \cup ContribMsg \cup ResultMsg \cup DoneMsg
RankTypes ==
    /\ rank \in [Rank -> RankState]
    /\ \A r \in Rank : rank[r].st # "off" => rank[r].task \in Task
HistoryTypes ==
    /\ entered \in [Task -> [Rank -> 0..MaxFences]]
    /\ answer \in [Task -> [Rank -> [Round -> {"none", "data", "error", "mixed"}]]]
FaultTypes == faults \in Seq(FaultKind)

(* What the library has not answered: the operation the main thread waits  *)
(* for, and one for each wait that was given up.                           *)
OpsBound == \A n \in Rank : Len(ops[n]) <= Len(faults) + (IF Waits(n) THEN 1 ELSE 0)

Types == /\ ProcessTypes /\ PipeTypes /\ SessionTypes /\ RoundTypes /\ BookTypes
         /\ NetTypes /\ RankTypes /\ HistoryTypes /\ FaultTypes /\ OpsBound

LEMMA Constants == 0 \in Rank /\ N \in Nat /\ N > 0 /\ MaxTasks \in Nat /\ MaxFences \in Nat
                   /\ Allowed \subseteq FaultKind /\ N \in {0, N}
BY PmixAssumption DEF Rank

LEMMA SpendFaults ==
    ASSUME FaultTypes, NEW k, Spend(k)
    PROVE  /\ FaultTypes'
           /\ Len(faults') \in Nat /\ Len(faults) \in Nat /\ Len(faults') >= Len(faults)
           /\ k # "none" => Len(faults') = Len(faults) + 1 /\ faults' # <<>> /\ k \in Allowed
           /\ k = "none" => faults' = faults
           /\ faults' = <<>> => faults = <<>>
<1>1. CASE UNCHANGED faults /\ k = "none"
  BY <1>1 DEF FaultTypes
<1>2. CASE k \in Allowed /\ faults' = Append(faults, k)
  <2>1. k \in FaultKind /\ k # "none"
    BY <1>2, Constants DEF FaultKind
  <2>2. Append(faults, k) \in Seq(FaultKind) /\ Len(Append(faults, k)) = Len(faults) + 1
    BY <2>1, AppendLines DEF FaultTypes
  <2> QED BY <1>2, <2>1, <2>2 DEF FaultTypes
<1> QED BY <1>1, <1>2 DEF Spend

LEMMA SameFaults == FaultTypes /\ UNCHANGED faults => FaultTypes' /\ Len(faults') \in Nat /\ Len(faults') = Len(faults)
BY DEF FaultTypes

LEMMA InitTypes == Init => Types
<1> SUFFICES ASSUME Init PROVE Types
  OBVIOUS
<1> USE Constants DEF Init
<1>1. <<>> \in Blobs /\ \A n \in Rank : <<>> \in Partial(Nat, CallsOf(n))
  BY EmptyPartial DEF Blobs
<1>2. ProcessTypes
  BY <1>1 DEF ProcessTypes, MainState, Free
<1>3. PipeTypes /\ SessionTypes /\ FaultTypes /\ NetTypes
  <2>1. PipeTypes
    BY DEF PipeTypes
  <2>2. SessionTypes
    BY DEF SessionTypes
  <2>3. FaultTypes /\ NetTypes
    BY DEF FaultTypes, NetTypes
  <2> QED BY <2>1, <2>2, <2>3
<1>7. BookTypes
  BY DEF BookTypes, TaskState
<1>4. RoundTypes
  BY <1>1 DEF RoundTypes
<1>5. RankTypes /\ HistoryTypes
  BY DEF RankTypes, HistoryTypes, RankState, Idle
<1>6. OpsBound
  BY DEF OpsBound, Free, Waits, Wait
<1> QED BY <1>2, <1>3, <1>4, <1>5, <1>6, <1>7 DEF Types

(* What a step leaves alone.                                               *)
LEMMA SameTypes ==
    ASSUME Types
    PROVE  /\ UNCHANGED process => ProcessTypes'
           /\ UNCHANGED pipes => PipeTypes'
           /\ UNCHANGED session => SessionTypes'
           /\ UNCHANGED round => RoundTypes'
           /\ UNCHANGED book => BookTypes'
           /\ UNCHANGED net => NetTypes'
           /\ UNCHANGED rank => RankTypes'
           /\ UNCHANGED history => HistoryTypes'
           /\ UNCHANGED faults => FaultTypes'
<1>1. UNCHANGED process => ProcessTypes'
  BY DEF Types, ProcessTypes, process
<1>2. UNCHANGED pipes => PipeTypes'
  BY DEF Types, PipeTypes, pipes
<1>3. UNCHANGED session => SessionTypes'
  BY DEF Types, SessionTypes, session
<1>4. UNCHANGED round => RoundTypes'
  BY DEF Types, RoundTypes, round
<1>5. UNCHANGED book => BookTypes'
  BY DEF Types, BookTypes, book
<1>6. (UNCHANGED net => NetTypes') /\ (UNCHANGED rank => RankTypes')
  BY DEF Types, NetTypes, RankTypes
<1>7. (UNCHANGED history => HistoryTypes') /\ (UNCHANGED faults => FaultTypes')
  BY DEF Types, HistoryTypes, history, FaultTypes
<1> QED BY <1>1, <1>2, <1>3, <1>4, <1>5, <1>6, <1>7

LEMMA SameOps ==
    ASSUME Types, main' = main, ops' = ops, FaultTypes', Len(faults') >= Len(faults)
    PROVE  OpsBound'
<1>1. \A n \in Rank : Len(ops[n]) \in Nat
  BY DEF Types, ProcessTypes
<1>2. Len(faults) \in Nat /\ Len(faults') \in Nat
  BY DEF Types, FaultTypes
<1> DEFINE a == Len(faults)  b == Len(faults')
<1>3. a \in Nat /\ b \in Nat /\ b >= a
  BY <1>2
<1>4. \A n \in Rank : Len(ops[n]) <= a + (IF Waits(n) THEN 1 ELSE 0)
  BY DEF Types, OpsBound
<1> HIDE DEF a, b
<1>5. \A n \in Rank : Len(ops[n]) <= b + (IF Waits(n) THEN 1 ELSE 0)
  BY <1>1, <1>3, <1>4
<1>6. \A n \in Rank : Len(ops'[n]) <= b + (IF Waits(n)' THEN 1 ELSE 0)
  BY <1>5 DEF Waits
<1> QED BY <1>6 DEF OpsBound, b

(* One node's main thread, or its queue of operations, changes.            *)
LEMMA OneOps ==
    ASSUME Types, NEW n \in Rank, FaultTypes', Len(faults') >= Len(faults),
           \A p \in Rank \ {n} : main'[p] = main[p] /\ ops'[p] = ops[p],
           Len(ops'[n]) <= Len(faults') + (IF Waits(n)' THEN 1 ELSE 0)
    PROVE  OpsBound'
<1>1. \A p \in Rank : Len(ops[p]) \in Nat
  BY DEF Types, ProcessTypes
<1>2. Len(faults) \in Nat /\ Len(faults') \in Nat
  BY DEF Types, FaultTypes
<1> DEFINE a == Len(faults)  b == Len(faults')
<1>3. a \in Nat /\ b \in Nat /\ b >= a
  BY <1>2
<1>4. \A p \in Rank : Len(ops[p]) <= a + (IF Waits(p) THEN 1 ELSE 0)
  BY DEF Types, OpsBound
<1>5. Len(ops'[n]) <= b + (IF Waits(n)' THEN 1 ELSE 0)
  OBVIOUS
<1> HIDE DEF a, b
<1>6. \A p \in Rank \ {n} : Len(ops[p]) <= b + (IF Waits(p) THEN 1 ELSE 0)
  BY <1>1, <1>3, <1>4
<1>7. \A p \in Rank \ {n} : Len(ops'[p]) <= b + (IF Waits(p)' THEN 1 ELSE 0)
  BY <1>6 DEF Waits
<1> QED BY <1>5, <1>7 DEF OpsBound, b

LEMMA StartRankLocalTypes ==
    ASSUME Types, NEW n \in Rank, NEW t \in Task, NEW lines \in Seq(PlainLine), NEW fault,
           StartRankLocal(n, t, lines, fault), FaultTypes', Len(faults') >= Len(faults)
    PROVE  /\ ProcessTypes' /\ stdin' \in [Rank -> Seq(PlainLine \cup OutLine)]
           /\ stdout' \in [Rank -> Seq(InLine)]
           /\ helper' \in [Rank -> BOOLEAN] /\ RankTypes'
           /\ contTask' \in [Rank -> Task \cup {0}] /\ OpsBound'
<1> USE Constants DEF StartRankLocal
<1>1. ProcessTypes' /\ stdout' \in [Rank -> Seq(InLine)] /\ helper' \in [Rank -> BOOLEAN] /\ OpsBound'
  <2>1. CASE helper[n] \/ fault = "helper"
    <3>1. UNCHANGED <<process, stdout, helper>>
      BY <2>1
    <3>2. ProcessTypes'
      BY <3>1, SameTypes
    <3>3. OpsBound'
      BY <3>1, SameOps DEF process
    <3> QED BY <3>1, <3>2, <3>3 DEF Types, PipeTypes, SessionTypes
  <2>2. CASE ~(helper[n] \/ fault = "helper")
    <3>1. /\ main' = [main EXCEPT ![n] = [at |-> "read", rank |-> 0]]
          /\ registered' = [registered EXCEPT ![n] = TRUE]
          /\ contrib' = [contrib EXCEPT ![n] = 0]
          /\ seq' = [seq EXCEPT ![n] = 1]
          /\ pending' = [pending EXCEPT ![n] = <<>>]
          /\ storing' = [storing EXCEPT ![n] = <<>>]
          /\ ops' = [ops EXCEPT ![n] = <<>>]
          /\ clients' = [clients EXCEPT ![n] = {0}]
          /\ stdout' = [stdout EXCEPT ![n] = <<>>]
          /\ helper' = [helper EXCEPT ![n] = TRUE]
      BY <2>2
    <3>2. main' \in [Rank -> MainState]
      BY <3>1 DEF Types, ProcessTypes, MainState
    <3>3. /\ registered' \in [Rank -> BOOLEAN] /\ contrib' \in [Rank -> Rank]
          /\ seq' \in [Rank -> Nat] /\ clients' \in [Rank -> SUBSET Rank]
      BY <3>1 DEF Types, ProcessTypes
    <3>4. /\ pending' = [p \in Rank |-> pending'[p]]
          /\ \A p \in Rank : pending'[p] \in Partial(Nat, CallsOf(p))
      BY <3>1, EmptyPartial DEF Types, ProcessTypes
    <3>5. /\ storing' \in [Rank -> Seq([id : Nat, call : Calls])]
          /\ \A p \in Rank : Len(storing'[p]) <= 1
          /\ ops' \in [Rank -> Seq([op : Wait, rank : Rank])]
      <4>1. \A S : <<>> \in Seq(S) /\ Len(<<>>) = 0
        OBVIOUS
      <4>2. /\ storing \in [Rank -> Seq([id : Nat, call : Calls])]
            /\ ops \in [Rank -> Seq([op : Wait, rank : Rank])]
            /\ \A p \in Rank : Len(storing[p]) <= 1
        BY DEF Types, ProcessTypes
      <4>3. storing' \in [Rank -> Seq([id : Nat, call : Calls])]
        BY <3>1, <4>1, <4>2
      <4>4. ops' \in [Rank -> Seq([op : Wait, rank : Rank])]
        BY <3>1, <4>1, <4>2
      <4>5. \A p \in Rank : storing'[p] = <<>> \/ storing'[p] = storing[p]
        BY <3>1, <4>2
      <4>6. \A p \in Rank : Len(storing'[p]) <= 1
        BY <4>1, <4>2, <4>5
      <4> QED BY <4>3, <4>4, <4>6
    <3>6. stdout' \in [Rank -> Seq(InLine)] /\ helper' \in [Rank -> BOOLEAN]
      BY <3>1 DEF Types, PipeTypes, SessionTypes
    <3>7. /\ \A p \in Rank \ {n} : main'[p] = main[p] /\ ops'[p] = ops[p]
          /\ ops'[n] = <<>>
      BY <3>1 DEF Types, ProcessTypes
    <3>8. Len(faults') \in Nat
      BY DEF FaultTypes
    <3>10. Len(ops'[n]) <= Len(faults') + (IF Waits(n)' THEN 1 ELSE 0)
      BY <3>7, <3>8
    <3> HIDE DEF StartRankLocal
    <3>9. OpsBound'
      BY <3>7, <3>10, OneOps
    <3> QED BY <3>2, <3>3, <3>4, <3>5, <3>6, <3>9 DEF ProcessTypes
  <2> QED BY <2>1, <2>2
<1>2. stdin' \in [Rank -> Seq(PlainLine \cup OutLine)]
  <2>1. lines \in Seq(PlainLine \cup OutLine) /\ stdin[n] \in Seq(PlainLine \cup OutLine)
    BY DEF Types, PipeTypes
  <2>2. stdin[n] \o lines \in Seq(PlainLine \cup OutLine) /\ <<>> \in Seq(PlainLine \cup OutLine)
    BY <2>1, ConcatLines
  <2> HIDE DEF StartRankLocal
  <2>3. stdin' = [stdin EXCEPT ![n] = IF fault = "helper" THEN <<>>
                                     ELSE IF helper[n] THEN stdin[n] \o lines ELSE lines]
    BY DEF StartRankLocal
  <2> QED BY <2>1, <2>2, <2>3 DEF Types, PipeTypes
<1>3. RankTypes' /\ contTask' \in [Rank -> Task \cup {0}]
  <2>1. CASE fault = "container"
    BY <2>1, SameTypes DEF Types, BookTypes
  <2>2. CASE fault # "container"
    <3>1. /\ rank' = [rank EXCEPT ![n] = IF rank[n].st # "off" THEN rank[n]
                                         ELSE [task |-> t, st |-> "up", k |-> 0]]
          /\ contTask' = [contTask EXCEPT ![n] = t]
      BY <2>2
    <3>2. contTask' \in [Rank -> Task \cup {0}]
      BY <3>1 DEF Types, BookTypes
    <3>3. rank' \in [Rank -> RankState]
      BY <3>1 DEF Types, RankTypes, RankState
    <3>4. \A r \in Rank : rank'[r].st # "off" => rank'[r].task \in Task
      BY <3>1 DEF Types, RankTypes
    <3> QED BY <3>2, <3>3, <3>4 DEF RankTypes
  <2> QED BY <2>1, <2>2
<1> QED BY <1>1, <1>2, <1>3

LEMMA Registering ==
    ASSUME NEW n \in Rank
    PROVE  /\ RegisterLines(n) \in Seq(PlainLine)
           /\ <<Line("REGISTER", n)>> \o RegisterLines(n) \in Seq(PlainLine)
<1>1. <<Line("REGISTER", n)>> \in Seq(PlainLine) /\ RegisterLines(n) \in Seq(PlainLine)
  BY DEF RegisterLines, Line, PlainLine
<1> QED BY <1>1, ConcatLines

LEMMA FinishedTask ==
    ASSUME NEW tt \in [Task -> TaskState], NEW t, NEW c \in {0, 1}
    PROVE  finish(tt, t, c) \in [Task -> TaskState]
<1> DEFINE x == [tt[t] EXCEPT !.st = "ended", !.code = c]
<1>1. finish(tt, t, c) = [tt EXCEPT ![t] = x]
  BY DEF finish
<1>2. t \in Task => x \in TaskState
  <2> DEFINE s == tt[t]
  <2>1. c \in {0, 1, 143}
    OBVIOUS
  <2>2. x = [s EXCEPT !.st = "ended", !.code = c]
    OBVIOUS
  <2>3. t \in Task => s \in TaskState
    OBVIOUS
  <2> HIDE DEF x, s
  <2>4. s \in TaskState => [s EXCEPT !.st = "ended", !.code = c] \in TaskState
    BY <2>1 DEF TaskState
  <2> QED BY <2>2, <2>3, <2>4
<1> HIDE DEF x
<1> QED BY <1>1, <1>2

LEMMA SpawnTaskTypes ==
    ASSUME Types, NEW t \in Task, SpawnTask(t)
    PROVE  Types'
<1> USE Constants
<1>1. PICK fault \in {"none", "helper", "container"} :
          /\ Spend(fault)
          /\ StartRankLocal(0, t, <<Line("REGISTER", 0)>> \o RegisterLines(0), fault)
          /\ tasks' = LET tt == [tasks EXCEPT ![t].st = "running"]
                      IN IF fault = "container" THEN finish(tt, t, 1) ELSE tt
  BY DEF SpawnTask
<1>2. /\ expected' = [expected EXCEPT ![0] = N]
      /\ peers' = TRUE
      /\ net' = net \cup {[type |-> "start", to |-> n, task |-> t] : n \in Rank \ {0}}
      /\ UNCHANGED <<follows, round, replyTo, history>>
  BY DEF SpawnTask
<1>3. FaultTypes' /\ Len(faults') >= Len(faults)
  BY <1>1, SpendFaults DEF Types
<1>4. /\ ProcessTypes' /\ stdin' \in [Rank -> Seq(PlainLine \cup OutLine)]
      /\ stdout' \in [Rank -> Seq(InLine)]
      /\ helper' \in [Rank -> BOOLEAN] /\ RankTypes'
      /\ contTask' \in [Rank -> Task \cup {0}] /\ OpsBound'
  BY <1>1, <1>3, Registering, StartRankLocalTypes
<1>5. [tasks EXCEPT ![t].st = "running"] \in [Task -> TaskState]
  BY DEF Types, BookTypes, TaskState
<1>6. BookTypes'
  BY <1>1, <1>2, <1>4, <1>5, FinishedTask DEF Types, BookTypes
<1>7. SessionTypes'
  BY <1>2, <1>4 DEF Types, SessionTypes
<1>8. NetTypes'
  BY <1>2 DEF Types, NetTypes, StartMsg
<1> QED BY <1>2, <1>3, <1>4, <1>6, <1>7, <1>8, SameTypes DEF Types, PipeTypes

LEMMA StartRankTypes ==
    ASSUME Types, NEW m \in net, StartRank(m)
    PROVE  Types'
<1> USE Constants
<1>1. PICK fault \in {"none", "helper", "container"} :
          /\ Spend(fault)
          /\ StartRankLocal(m.to, m.task, RegisterLines(m.to), fault)
          /\ expected' = [expected EXCEPT ![m.to] = IF fault = "helper" THEN @ ELSE N]
  BY DEF StartRank
<1>2. m.to \in Rank /\ m.task \in Task
  BY DEF StartRank, Types, NetTypes, StartMsg, ContribMsg, ResultMsg, DoneMsg
<1>3. FaultTypes' /\ Len(faults') >= Len(faults)
  BY <1>1, SpendFaults DEF Types
<1>4. /\ ProcessTypes' /\ stdin' \in [Rank -> Seq(PlainLine \cup OutLine)]
      /\ stdout' \in [Rank -> Seq(InLine)]
      /\ helper' \in [Rank -> BOOLEAN] /\ RankTypes'
      /\ contTask' \in [Rank -> Task \cup {0}] /\ OpsBound'
  BY <1>1, <1>2, <1>3, Registering, StartRankLocalTypes
<1>5. BookTypes' /\ NetTypes'
  BY <1>2, <1>4 DEF StartRank, Types, BookTypes, NetTypes
<1>6. SessionTypes'
  BY <1>1, <1>2, <1>4 DEF StartRank, Types, SessionTypes
<1> QED BY <1>3, <1>4, <1>5, <1>6, SameTypes DEF StartRank, Types, PipeTypes

(* The main thread.                                                        *)
LEMMA StepsOfOps ==
    ASSUME Types, NEW n \in Rank, NEW s \in Seq([op : Wait, rank : Rank]), NEW x \in MainState,
           main' = [main EXCEPT ![n] = x], ops' = [ops EXCEPT ![n] = s],
           FaultTypes', Len(faults') >= Len(faults),
           Len(s) <= Len(faults') + (IF x.at \in Wait THEN 1 ELSE 0)
    PROVE  /\ main' \in [Rank -> MainState]
           /\ ops' \in [Rank -> Seq([op : Wait, rank : Rank])]
           /\ OpsBound'
<1>1. main' \in [Rank -> MainState] /\ ops' \in [Rank -> Seq([op : Wait, rank : Rank])]
  BY DEF Types, ProcessTypes
<1>2. main'[n] = x /\ ops'[n] = s /\ \A p \in Rank \ {n} : main'[p] = main[p] /\ ops'[p] = ops[p]
  BY DEF Types, ProcessTypes
<1>3. Waits(n)' = (x.at \in Wait)
  BY <1>2 DEF Waits
<1>4. Len(ops'[n]) <= Len(faults') + (IF Waits(n)' THEN 1 ELSE 0)
  BY <1>2, <1>3
<1>5. OpsBound'
  BY <1>2, <1>4, OneOps
<1> QED BY <1>1, <1>5

LEMMA ReadingTypes ==
    ASSUME Types, NEW n \in Rank, NEW c, Reading(n, c)
    PROVE  /\ stdin' \in [Rank -> Seq(PlainLine \cup OutLine)]
           /\ Head(stdin[n]) \in PlainLine \cup OutLine /\ Head(stdin[n]).cmd = c
           /\ c # "FENCE_OUT" => Head(stdin[n]) \in PlainLine
           /\ c = "FENCE_OUT" => Head(stdin[n]) \in OutLine
<1>1. /\ stdin[n] \in Seq(PlainLine \cup OutLine) /\ stdin[n] # <<>>
      /\ Head(stdin[n]).cmd = c /\ stdin' = [stdin EXCEPT ![n] = Tail(stdin[n])]
  BY DEF Reading, Types, PipeTypes
<1>2. Head(stdin[n]) \in PlainLine \cup OutLine /\ Tail(stdin[n]) \in Seq(PlainLine \cup OutLine)
  BY <1>1, TailLines
<1>3. \A l \in PlainLine : l.cmd # "FENCE_OUT"
  BY DEF PlainLine
<1>4. \A l \in OutLine : l.cmd = "FENCE_OUT"
  BY DEF OutLine
<1> QED BY <1>1, <1>2, <1>3, <1>4 DEF Types, PipeTypes

LEMMA ReadRegisterTypes ==
    ASSUME Types, NEW n \in Rank, ReadRegister(n)
    PROVE  Types'
<1> DEFINE at == IF registered[n] THEN "dereg" ELSE "nspace"
           r == Head(stdin[n]).rank
           s == Append(ops[n], [op |-> at, rank |-> r])
<1>1. r \in Rank /\ stdin' \in [Rank -> Seq(PlainLine \cup OutLine)]
  BY ReadingTypes DEF ReadRegister, PlainLine
<1>2. [op |-> at, rank |-> r] \in [op : Wait, rank : Rank]
  BY <1>1 DEF Wait
<1>3. ops[n] \in Seq([op : Wait, rank : Rank])
  BY DEF Types, ProcessTypes
<1>4. s \in Seq([op : Wait, rank : Rank]) /\ Len(s) = Len(ops[n]) + 1
  BY <1>2, <1>3, AppendLines
<1>5. [at |-> at, rank |-> r] \in MainState /\ at \in Wait
  BY <1>1 DEF MainState, Wait
<1>6. main' = [main EXCEPT ![n] = [at |-> at, rank |-> r]] /\ ops' = [ops EXCEPT ![n] = s]
  BY DEF ReadRegister, Ask
<1>7. UNCHANGED faults
  BY DEF ReadRegister
<1>8. FaultTypes' /\ Len(faults') \in Nat /\ Len(faults') = Len(faults)
  BY <1>7, SameFaults DEF Types
<1>9. ~Waits(n)
  BY DEF ReadRegister, Reading, Waits, Wait
<1>10. Len(ops[n]) <= Len(faults) + 0
  BY <1>9 DEF Types, OpsBound
<1> HIDE DEF s, at, r
<1>11. Len(s) <= Len(faults') + 1
  <2> DEFINE a == Len(faults)  b == Len(ops[n])
  <2>1. a \in Nat /\ b \in Nat /\ b <= a /\ Len(faults') = a /\ Len(s) = b + 1
    BY <1>3, <1>4, <1>8, <1>10
  <2> HIDE DEF a, b
  <2> QED BY <2>1
<1>12. Len(faults') >= Len(faults)
  BY <1>8
<1>13. Len(s) <= Len(faults') + (IF [at |-> at, rank |-> r].at \in Wait THEN 1 ELSE 0)
  BY <1>5, <1>11
<1>14. main' \in [Rank -> MainState] /\ ops' \in [Rank -> Seq([op : Wait, rank : Rank])] /\ OpsBound'
  BY <1>4, <1>5, <1>6, <1>8, <1>12, <1>13, StepsOfOps
<1>15. ProcessTypes'
  BY <1>14 DEF ReadRegister, Types, ProcessTypes
<1> QED BY <1>1, <1>8, <1>14, <1>15, SameTypes DEF ReadRegister, Types, PipeTypes, history, book

LEMMA ProceedTypes ==
    ASSUME Types, NEW n \in Rank, Waits(n), NEW ok \in BOOLEAN,
           NEW rest \in Seq([op : Wait, rank : Rank]), Len(rest) <= Len(faults'),
           FaultTypes', Len(faults') >= Len(faults), Proceed(n, ok, rest)
    PROVE  /\ main' \in [Rank -> MainState]
           /\ ops' \in [Rank -> Seq([op : Wait, rank : Rank])]
           /\ registered' \in [Rank -> BOOLEAN]
           /\ OpsBound'
<1> DEFINE at == main[n].at
           r == main[n].rank
           next == CASE at = "dereg" -> "nspace"
                     [] at = "nspace" -> IF ok THEN "app" ELSE "read"
                     [] at = "app" -> "client"
                     [] at = "client" -> "read"
           s == IF next = "read" THEN rest ELSE Append(rest, [op |-> next, rank |-> r])
           x == [at |-> next, rank |-> r]
<1>1. at \in Wait /\ r \in Rank
  BY DEF Waits, Types, ProcessTypes, MainState
<1>2. next \in Wait \cup {"read"}
  BY <1>1 DEF Wait
<1>3. main' = [main EXCEPT ![n] = x] /\ ops' = [ops EXCEPT ![n] = s]
  BY DEF Proceed
<1>4. registered' \in [Rank -> BOOLEAN]
  BY DEF Proceed, Types, ProcessTypes
<1> HIDE DEF next, at, r
<1>5. x \in MainState /\ x.at = next
  BY <1>1, <1>2 DEF MainState
<1> DEFINE a == Len(faults')
<1>6. a \in Nat /\ Len(rest) \in Nat /\ Len(rest) <= a
  BY DEF FaultTypes
<1>7. CASE next = "read"
  <2>1. s = rest /\ x.at \notin Wait
    BY <1>5, <1>7 DEF Wait
  <2> HIDE DEF s, x, a
  <2>2. Len(s) <= a + (IF x.at \in Wait THEN 1 ELSE 0)
    BY <1>6, <2>1
  <2>3. Len(s) <= Len(faults') + (IF x.at \in Wait THEN 1 ELSE 0)
    BY <2>2 DEF a
  <2> QED BY <1>3, <1>4, <1>5, <2>1, <2>3, StepsOfOps
<1>8. CASE next # "read"
  <2>1. s = Append(rest, [op |-> next, rank |-> r]) /\ x.at \in Wait
    BY <1>2, <1>5, <1>8
  <2> DEFINE o == [op |-> next, rank |-> r]
  <2>2. o \in [op : Wait, rank : Rank] /\ s = Append(rest, o)
    BY <1>1, <1>2, <1>8, <2>1
  <2> HIDE DEF x, o, s
  <2>3. s \in Seq([op : Wait, rank : Rank]) /\ Len(s) = Len(rest) + 1
    BY <2>2, AppendLines
  <2> HIDE DEF a
  <2>4. Len(s) <= a + (IF x.at \in Wait THEN 1 ELSE 0)
    BY <1>6, <2>1, <2>3
  <2>5. Len(s) <= Len(faults') + (IF x.at \in Wait THEN 1 ELSE 0)
    BY <2>4 DEF a
  <2> QED BY <1>3, <1>4, <1>5, <2>3, <2>5, StepsOfOps
<1> QED BY <1>7, <1>8

LEMMA LibraryAnswersTypes ==
    ASSUME Types, NEW n \in Rank, LibraryAnswers(n)
    PROVE  Types'
<1>1. /\ ops[n] \in Seq([op : Wait, rank : Rank]) /\ ops[n] # <<>>
      /\ main[n] \in MainState
  BY DEF LibraryAnswers, Types, ProcessTypes
<1>2. /\ Tail(ops[n]) \in Seq([op : Wait, rank : Rank]) /\ Len(Tail(ops[n])) = Len(ops[n]) - 1
      /\ Head(ops[n]) \in [op : Wait, rank : Rank]
  BY <1>1, TailLines
<1>3. FaultTypes' /\ Len(faults') \in Nat /\ Len(faults') = Len(faults)
  BY SameFaults DEF LibraryAnswers, Types
<1>4. Len(Tail(ops[n])) <= Len(faults') /\ Len(ops[n]) <= Len(faults) + (IF Waits(n) THEN 1 ELSE 0)
  <2>1. Len(ops[n]) <= Len(faults) + (IF Waits(n) THEN 1 ELSE 0)
    BY DEF Types, OpsBound
  <2> DEFINE a == Len(faults)  b == Len(ops[n])
  <2>2. a \in Nat /\ b \in Nat /\ b <= a + 1 /\ Len(faults') = a /\ Len(Tail(ops[n])) = b - 1
    BY <1>1, <1>2, <1>3, <2>1
  <2> HIDE DEF a, b
  <2>3. Len(Tail(ops[n])) <= Len(faults')
    BY <2>2
  <2> QED BY <2>1, <2>3
<1>5. Len(faults') >= Len(faults)
  BY <1>3
<1>6. clients' \in [Rank -> SUBSET Rank]
  BY <1>2 DEF LibraryAnswers, Known, Types, ProcessTypes
<1>7. /\ main' \in [Rank -> MainState]
      /\ ops' \in [Rank -> Seq([op : Wait, rank : Rank])]
      /\ registered' \in [Rank -> BOOLEAN]
      /\ OpsBound'
  <2>1. CASE Awaited(n) /\ Proceed(n, TRUE, <<>>)
    <3>1. <<>> \in Seq([op : Wait, rank : Rank]) /\ Len(<<>>) <= Len(faults')
      BY <1>3
    <3> QED BY <1>3, <1>5, <2>1, <3>1, ProceedTypes DEF Awaited
  <2>2. CASE Waits(n) /\ Proceed(n, TRUE, Tail(ops[n]))
    BY <1>2, <1>3, <1>4, <1>5, <2>2, ProceedTypes
  <2>3. CASE ~Awaited(n) /\ ops' = [ops EXCEPT ![n] = Tail(ops[n])] /\ UNCHANGED <<main, registered>>
    <3> DEFINE x == main[n]
               s == Tail(ops[n])
    <3>1. main' = [main EXCEPT ![n] = x] /\ x \in MainState
      BY <1>1, <2>3 DEF Types, ProcessTypes
    <3>2. Len(s) <= Len(faults') + (IF x.at \in Wait THEN 1 ELSE 0)
      <4> DEFINE a == Len(faults')  b == Len(s)
      <4>1. a \in Nat /\ b \in Nat /\ b <= a
        BY <1>2, <1>3, <1>4
      <4> HIDE DEF a, b
      <4>2. b <= a + (IF x.at \in Wait THEN 1 ELSE 0)
        BY <4>1
      <4> QED BY <4>2 DEF a, b
    <3>3. registered' \in [Rank -> BOOLEAN]
      BY <2>3 DEF Types, ProcessTypes
    <3>4. ops' = [ops EXCEPT ![n] = s] /\ s \in Seq([op : Wait, rank : Rank])
      BY <1>2, <2>3
    <3> HIDE DEF x, s
    <3> QED BY <1>3, <1>5, <3>1, <3>2, <3>3, <3>4, StepsOfOps
  <2> QED BY <2>1, <2>2, <2>3 DEF LibraryAnswers
<1>8. ProcessTypes'
  BY <1>6, <1>7 DEF LibraryAnswers, Types, ProcessTypes
<1> QED BY <1>3, <1>7, <1>8, SameTypes DEF LibraryAnswers, Types

LEMMA GiveUpTypes ==
    ASSUME Types, NEW n \in Rank, GiveUp(n)
    PROVE  Types'
<1>1. FaultTypes' /\ Len(faults') >= Len(faults) /\ Len(faults) \in Nat /\ Len(faults') = Len(faults) + 1
  BY SpendFaults DEF GiveUp, Types
<1>2. ops[n] \in Seq([op : Wait, rank : Rank])
  BY DEF Types, ProcessTypes
<1>3. Len(ops[n]) <= Len(faults')
  BY <1>1 DEF Types, OpsBound, GiveUp
<1>4. /\ main' \in [Rank -> MainState]
      /\ ops' \in [Rank -> Seq([op : Wait, rank : Rank])]
      /\ registered' \in [Rank -> BOOLEAN]
      /\ OpsBound'
  BY <1>1, <1>2, <1>3, ProceedTypes DEF GiveUp
<1>5. ProcessTypes'
  BY <1>4 DEF GiveUp, Types, ProcessTypes
<1> QED BY <1>1, <1>4, <1>5, SameTypes DEF GiveUp, Types

LEMMA ReadContribIdTypes ==
    ASSUME Types, NEW n \in Rank, ReadContribId(n)
    PROVE  Types'
<1>1. Head(stdin[n]).rank \in Rank /\ stdin' \in [Rank -> Seq(PlainLine \cup OutLine)]
  BY ReadingTypes DEF ReadContribId, PlainLine
<1>2. ProcessTypes'
  BY <1>1 DEF ReadContribId, Types, ProcessTypes
<1>3. FaultTypes' /\ Len(faults') >= Len(faults)
  BY SameFaults DEF ReadContribId, Types
<1>4. OpsBound'
  BY <1>3, SameOps DEF ReadContribId
<1> QED BY <1>1, <1>2, <1>3, <1>4, SameTypes DEF ReadContribId, Types, PipeTypes

(* Fences.                                                                 *)
LEMMA StoringTypes ==
    ASSUME Types, NEW n \in Rank, NEW s \in Seq([id : Nat, call : Calls]), Len(s) <= 1,
           storing' = [storing EXCEPT ![n] = s]
    PROVE  /\ storing' \in [Rank -> Seq([id : Nat, call : Calls])]
           /\ \A p \in Rank : Len(storing'[p]) <= 1
<1>1. storing \in [Rank -> Seq([id : Nat, call : Calls])] /\ \A p \in Rank : Len(storing[p]) <= 1
  BY DEF Types, ProcessTypes
<1>2. \A p \in Rank : storing'[p] = IF p = n THEN s ELSE storing[p]
  BY <1>1
<1>3. ASSUME NEW p \in Rank PROVE Len(storing'[p]) <= 1
  <2>1. CASE p = n
    BY <1>2, <2>1
  <2>2. CASE p # n
    BY <1>1, <1>2, <2>2
  <2> QED BY <2>1, <2>2
<1> QED BY <1>1, <1>3

LEMMA OneElement ==
    ASSUME NEW S, NEW s \in Seq(S), s # <<>>, Len(s) <= 1
    PROVE  s[1] \in S /\ s = <<s[1]>> /\ Len(s) = 1
<1>1. Len(s) \in Nat /\ Len(s) # 0
  BY EmptySeq
<1>2. Len(s) = 1
  BY <1>1
<1>3. s[1] \in S
  BY <1>2
<1>4. <<s[1]>> \in Seq(S) /\ Len(<<s[1]>>) = 1 /\ <<s[1]>>[1] = s[1]
  BY <1>3
<1>5. s = <<s[1]>>
  BY <1>2, <1>4, SeqEqual
<1> QED BY <1>2, <1>3, <1>5

LEMMA FenceStoredTypes ==
    ASSUME Types, NEW n \in Rank, FenceStored(n)
    PROVE  Types'
<1> DEFINE c == Call(rank[n].task, rank[n].k + 1, n)
           x == [id |-> seq[n], call |-> c]
<1>1. rank[n] \in RankState /\ rank[n].task \in Task /\ rank[n].k < MaxFences
  BY DEF FenceStored, Types, RankTypes
<1>2. /\ c.task = rank[n].task /\ c.round = rank[n].k + 1 /\ c.rank = n
      /\ c.round \in Round /\ c.round \in 0..MaxFences
      /\ c \in CallsOf(n) /\ c \in Calls
  BY <1>1, Constants DEF Call, CallsOf, Calls, RankState, Round
<1>3. /\ pending' = [pending EXCEPT ![n] = Put(pending[n], seq[n], c)]
      /\ storing' = [storing EXCEPT ![n] = <<x>>]
      /\ entered' = [entered EXCEPT ![c.task][n] = c.round]
      /\ rank' = [rank EXCEPT ![n].st = "fence", ![n].k = c.round]
      /\ seq' = [seq EXCEPT ![n] = seq[n] + 1]
  BY DEF FenceStored
<1> HIDE DEF c
<1>4. seq[n] \in Nat /\ seq' \in [Rank -> Nat]
  BY <1>3 DEF Types, ProcessTypes
<1>5. x \in [id : Nat, call : Calls]
  BY <1>2, <1>4
<1>6. Put(pending[n], seq[n], c) \in Partial(Nat, CallsOf(n))
  BY <1>2, <1>4, PutPartial DEF Types, ProcessTypes
<1>7. /\ pending' = [p \in Rank |-> pending'[p]]
      /\ \A p \in Rank : pending'[p] \in Partial(Nat, CallsOf(p))
  BY <1>3, <1>6 DEF Types, ProcessTypes
<1> HIDE DEF x
<1>8. /\ storing' \in [Rank -> Seq([id : Nat, call : Calls])]
      /\ \A p \in Rank : Len(storing'[p]) <= 1
  <2>1. <<x>> \in Seq([id : Nat, call : Calls]) /\ Len(<<x>>) <= 1
    BY <1>5
  <2> QED BY <1>3, <2>1, StoringTypes
<1>9. ProcessTypes'
  BY <1>4, <1>7, <1>8 DEF FenceStored, Types, ProcessTypes
<1>10. RankTypes'
  <2>1. rank' \in [Rank -> RankState]
    BY <1>2, <1>3 DEF Types, RankTypes, RankState
  <2>2. \A r \in Rank : rank'[r].st # "off" => rank'[r].task \in Task
    BY <1>1, <1>3 DEF Types, RankTypes, RankState
  <2> QED BY <2>1, <2>2 DEF RankTypes
<1>11. HistoryTypes'
  <2>1. entered[c.task] \in [Rank -> 0..MaxFences] /\ c.task \in Task
    BY <1>1, <1>2 DEF Types, HistoryTypes
  <2>2. [entered[c.task] EXCEPT ![n] = c.round] \in [Rank -> 0..MaxFences]
    BY <1>2, <2>1
  <2>3. entered' \in [Task -> [Rank -> 0..MaxFences]]
    BY <1>3, <2>1, <2>2 DEF Types, HistoryTypes
  <2> QED BY <2>3 DEF FenceStored, Types, HistoryTypes
<1>12. FaultTypes' /\ Len(faults') >= Len(faults)
  BY SameFaults DEF FenceStored, Types
<1>13. OpsBound'
  BY <1>12, SameOps DEF FenceStored
<1> QED BY <1>9, <1>10, <1>11, <1>12, <1>13, SameTypes DEF FenceStored, Types

LEMMA FenceInType ==
    ASSUME Types, NEW n \in Rank, storing[n] # <<>>
    PROVE  FenceIn(n) \in InLine /\ storing[n] = <<storing[n][1]>>
<1>1. storing[n] \in Seq([id : Nat, call : Calls]) /\ contrib[n] \in Rank /\ Len(storing[n]) <= 1
  BY DEF Types, ProcessTypes
<1>2. storing[n][1] \in [id : Nat, call : Calls]
  BY <1>1, OneElement
<1>3. storing[n] = <<storing[n][1]>>
  BY <1>1, OneElement
<1> QED BY <1>1, <1>2, <1>3 DEF FenceIn, InLine

LEMMA FenceWrittenTypes ==
    ASSUME Types, NEW n \in Rank, FenceWritten(n)
    PROVE  Types'
<1>1. FenceIn(n) \in InLine
  BY FenceInType DEF FenceWritten
<1>2. stdout[n] \in Seq(InLine) /\ Append(stdout[n], FenceIn(n)) \in Seq(InLine)
  BY <1>1, AppendLines DEF Types, PipeTypes
<1>3. stdout' = [stdout EXCEPT ![n] = IF helper[n] THEN Append(stdout[n], FenceIn(n)) ELSE stdout[n]]
  BY DEF FenceWritten
<1>4. PipeTypes'
  BY <1>2, <1>3 DEF FenceWritten, Types, PipeTypes
<1>5. /\ storing' \in [Rank -> Seq([id : Nat, call : Calls])]
      /\ \A p \in Rank : Len(storing'[p]) <= 1
  <2>1. <<>> \in Seq([id : Nat, call : Calls]) /\ Len(<<>>) <= 1
    OBVIOUS
  <2>2. storing' = [storing EXCEPT ![n] = <<>>]
    BY DEF FenceWritten
  <2> QED BY <2>1, <2>2, StoringTypes
<1>6. ProcessTypes'
  BY <1>5 DEF FenceWritten, Types, ProcessTypes
<1>7. FaultTypes' /\ Len(faults') >= Len(faults)
  BY SameFaults DEF FenceWritten, Types
<1>8. OpsBound'
  BY <1>7, SameOps DEF FenceWritten
<1> QED BY <1>4, <1>6, <1>7, <1>8, SameTypes DEF FenceWritten, Types

LEMMA CallBackTypes ==
    ASSUME Types, NEW C, NEW b, CallBack(C, b)
    PROVE  RankTypes' /\ HistoryTypes'
<1>1. HistoryTypes'
  BY DEF CallBack, Types, HistoryTypes, Outcome
<1>2. \A r \in Rank : rank'[r] \in {rank[r], [rank[r] EXCEPT !.st = "ready"]}
  BY DEF CallBack
<1>3. rank' = [r \in Rank |-> rank'[r]]
  BY DEF CallBack
<1>4. \A r \in Rank : [rank[r] EXCEPT !.st = "ready"] \in RankState
  BY DEF Types, RankTypes, RankState
<1>5. rank' \in [Rank -> RankState]
  BY <1>2, <1>3, <1>4 DEF Types, RankTypes
<1>6. \A r \in Rank : rank'[r].st # "off" => rank'[r].task \in Task
  <2> SUFFICES ASSUME NEW r \in Rank, rank'[r].st # "off" PROVE rank'[r].task \in Task
    OBVIOUS
  <2>1. CASE rank'[r] = rank[r]
    BY <2>1 DEF Types, RankTypes
  <2>2. CASE \E c \in C : c.rank = r /\ Waiting(c)
    <3>1. PICK c \in C : c.rank = r /\ Waiting(c)
      BY <2>2
    <3>2. rank[r].st = "fence"
      BY <3>1 DEF Waiting
    <3>3. rank'[r] = [rank[r] EXCEPT !.st = "ready"]
      BY <2>2 DEF CallBack
    <3>4. rank'[r].task = rank[r].task
      BY <3>3 DEF Types, RankTypes, RankState
    <3> QED BY <3>2, <3>4 DEF Types, RankTypes
  <2> QED BY <2>1, <2>2 DEF CallBack
<1> QED BY <1>1, <1>5, <1>6 DEF RankTypes

LEMMA ReadFenceOutTypes ==
    ASSUME Types, NEW n \in Rank, ReadFenceOut(n)
    PROVE  Types'
<1>1. stdin' \in [Rank -> Seq(PlainLine \cup OutLine)]
  BY ReadingTypes DEF ReadFenceOut
<1>2. RankTypes' /\ HistoryTypes'
  BY CallBackTypes DEF ReadFenceOut
<1>3. pending' = [pending EXCEPT ![n] = Remove(pending[n], Head(stdin[n]).id)]
  BY DEF ReadFenceOut
<1>4. Remove(pending[n], Head(stdin[n]).id) \in Partial(Nat, CallsOf(n))
  BY RemovePartial DEF Types, ProcessTypes
<1>5. ProcessTypes'
  BY <1>3, <1>4 DEF ReadFenceOut, Types, ProcessTypes
<1>6. FaultTypes' /\ Len(faults') >= Len(faults)
  BY SameFaults DEF ReadFenceOut, Types
<1>7. OpsBound'
  BY <1>6, SameOps DEF ReadFenceOut
<1> QED BY <1>1, <1>2, <1>5, <1>6, <1>7, SameTypes DEF ReadFenceOut, Types, PipeTypes

(* The round of the leader.                                                *)
LEMMA OutLinesType ==
    ASSUME NEW ids \in Seq(Nat), NEW blob \in Blobs
    PROVE  /\ OutLines(ids, blob) \in Seq(PlainLine \cup OutLine)
           /\ Len(OutLines(ids, blob)) = Len(ids)
           /\ \A i \in DOMAIN ids : OutLines(ids, blob)[i] = FenceOut(ids[i], blob)
<1>1. \A i \in DOMAIN ids : FenceOut(ids[i], blob) \in PlainLine \cup OutLine
  BY DEF FenceOut, OutLine
<1>2. DOMAIN ids = 1..Len(ids) /\ Len(ids) \in Nat
  OBVIOUS
<1>3. OutLines(ids, blob) = [i \in 1..Len(ids) |-> FenceOut(ids[i], blob)]
  BY <1>2 DEF OutLines
<1>4. \A i \in 1..Len(ids) : FenceOut(ids[i], blob) \in PlainLine \cup OutLine
  BY <1>1, <1>2
<1> QED BY <1>2, <1>3, <1>4, IsASeq

LEMMA ApplyResultTypes ==
    ASSUME Types, NEW n \in Rank, NEW ids \in Seq(Nat), NEW blob \in Blobs,
           NEW in \in [Rank -> Seq(Nat)], ApplyResult(n, ids, blob, in)
    PROVE  /\ stdin' \in [Rank -> Seq(PlainLine \cup OutLine)]
           /\ localIds' \in [Rank -> Seq(Nat)]
<1>1. stdin[n] \in Seq(PlainLine \cup OutLine) /\ OutLines(ids, blob) \in Seq(PlainLine \cup OutLine)
  BY OutLinesType DEF Types, PipeTypes
<1>2. stdin[n] \o OutLines(ids, blob) \in Seq(PlainLine \cup OutLine)
  BY <1>1, ConcatLines
<1>3. stdin' = [stdin EXCEPT ![n] = IF helper[n] THEN stdin[n] \o OutLines(ids, blob) ELSE stdin[n]]
  BY DEF ApplyResult
<1>4. stdin' \in [Rank -> Seq(PlainLine \cup OutLine)]
  BY <1>2, <1>3 DEF Types, PipeTypes
<1>5. localIds' \in [Rank -> Seq(Nat)]
  BY DEF ApplyResult
<1> QED BY <1>4, <1>5

LEMMA ContributeTypes ==
    ASSUME Types, NEW key \in Rank, NEW call \in Calls, NEW ids \in Seq(Nat),
           NEW others \in SUBSET (StartMsg \cup ContribMsg \cup ResultMsg \cup DoneMsg),
           Contribute(key, call, ids, others)
    PROVE  /\ stdin' \in [Rank -> Seq(PlainLine \cup OutLine)]
           /\ RoundTypes' /\ NetTypes'
<1> DEFINE A == Put(arrived, key, call)
           in == [localIds EXCEPT ![0] = localIds[0] \o ids]
<1>1. A \in Blobs
  BY PutPartial DEF Types, RoundTypes, Blobs
<1>2. in \in [Rank -> Seq(Nat)]
  BY Constants, ConcatLines DEF Types, RoundTypes
<1>3. CASE Enough(A)
  <2>1. /\ ApplyResult(0, in[0], A, in)
        /\ arrived' = <<>>
        /\ net' = others \cup (IF peers THEN {[type |-> "result", to |-> n, blob |-> A] :
                                              n \in Rank \ {0}} ELSE {})
    BY <1>3 DEF Contribute
  <2> HIDE DEF A, in
  <2>2. in[0] \in Seq(Nat) /\ 0 \in Rank
    BY <1>2, Constants
  <2>3. stdin' \in [Rank -> Seq(PlainLine \cup OutLine)] /\ localIds' \in [Rank -> Seq(Nat)]
    BY <1>1, <1>2, <2>1, <2>2, ApplyResultTypes
  <2>4. NetTypes'
    BY <1>1, <2>1 DEF NetTypes, ResultMsg
  <2>5. arrived' \in Blobs
    BY <2>1, EmptyPartial DEF Blobs
  <2> QED BY <2>3, <2>4, <2>5 DEF RoundTypes
<1>4. CASE ~Enough(A)
  <2>1. arrived' = A /\ localIds' = in /\ net' = others /\ UNCHANGED stdin
    BY <1>4 DEF Contribute
  <2> HIDE DEF A, in
  <2> QED BY <1>1, <1>2, <2>1 DEF RoundTypes, NetTypes, Types, PipeTypes
<1> QED BY <1>3, <1>4

LEMMA FaultlessStep ==
    ASSUME Types, main' = main, ops' = ops, UNCHANGED faults
    PROVE  FaultTypes' /\ OpsBound'
BY SameFaults, SameOps DEF Types

LEMMA LocalFenceInTypes ==
    ASSUME Types, NEW n \in Rank, LocalFenceIn(n)
    PROVE  Types'
<1> DEFINE l == Head(stdout[n])
<1>1. l \in InLine /\ Tail(stdout[n]) \in Seq(InLine)
  BY TailLines DEF LocalFenceIn, Types, PipeTypes
<1>2. l.id \in Nat /\ l.key \in Rank /\ l.call \in Calls
  BY <1>1 DEF InLine
<1>3. stdout' = [stdout EXCEPT ![n] = Tail(stdout[n])]
  BY DEF LocalFenceIn
<1>4. stdout' \in [Rank -> Seq(InLine)]
  BY <1>1, <1>3 DEF Types, PipeTypes
<1>5. stdin' \in [Rank -> Seq(PlainLine \cup OutLine)] /\ RoundTypes' /\ NetTypes'
  <2>1. CASE follows[n]
    <3>1. /\ localIds' = [localIds EXCEPT ![n] = Append(localIds[n], l.id)]
          /\ net' = net \cup {[type |-> "contrib", to |-> 0, key |-> l.key, call |-> l.call]}
          /\ UNCHANGED <<stdin, arrived>>
      BY <2>1 DEF LocalFenceIn
    <3> HIDE DEF l
    <3>2. Append(localIds[n], l.id) \in Seq(Nat)
      BY <1>2, AppendLines DEF Types, RoundTypes
    <3>3. RoundTypes'
      BY <3>1, <3>2 DEF Types, RoundTypes
    <3>4. NetTypes'
      BY <1>2, <3>1 DEF Types, NetTypes, ContribMsg
    <3> QED BY <3>1, <3>3, <3>4 DEF Types, PipeTypes
  <2>2. CASE ~follows[n]
    <3>1. Contribute(l.key, l.call, <<l.id>>, net)
      BY <2>2 DEF LocalFenceIn
    <3> HIDE DEF l
    <3>2. <<l.id>> \in Seq(Nat)
      BY <1>2
    <3> QED BY <1>2, <3>1, <3>2, ContributeTypes DEF Types, NetTypes
  <2> QED BY <2>1, <2>2
<1>6. FaultTypes' /\ OpsBound'
  BY FaultlessStep DEF LocalFenceIn, process
<1> QED BY <1>4, <1>5, <1>6, SameTypes DEF LocalFenceIn, Types, PipeTypes

LEMMA FenceContribTypes ==
    ASSUME Types, NEW m \in net, FenceContrib(m)
    PROVE  Types'
<1>1. m \in ContribMsg
  BY DEF FenceContrib, Types, NetTypes, StartMsg, ResultMsg, DoneMsg
<1>2. m.key \in Rank /\ m.call \in Calls /\ <<>> \in Seq(Nat)
  BY <1>1 DEF ContribMsg
<1> DEFINE others == net \ {m}
<1>5. /\ others \in SUBSET (StartMsg \cup ContribMsg \cup ResultMsg \cup DoneMsg)
      /\ Contribute(m.key, m.call, <<>>, others)
  BY DEF FenceContrib, Types, NetTypes
<1> HIDE DEF others
<1>3. stdin' \in [Rank -> Seq(PlainLine \cup OutLine)] /\ RoundTypes' /\ NetTypes'
  BY <1>2, <1>5, ContributeTypes
<1>4. FaultTypes' /\ OpsBound'
  BY FaultlessStep DEF FenceContrib, process
<1> QED BY <1>3, <1>4, SameTypes DEF FenceContrib, Types, PipeTypes

LEMMA FenceResultTypes ==
    ASSUME Types, NEW m \in net, FenceResult(m)
    PROVE  Types'
<1>1. m \in ResultMsg
  BY DEF FenceResult, Types, NetTypes, StartMsg, ContribMsg, DoneMsg
<1>2. m.to \in Rank /\ m.blob \in Blobs /\ localIds[m.to] \in Seq(Nat) /\ localIds \in [Rank -> Seq(Nat)]
  BY <1>1 DEF ResultMsg, Types, RoundTypes
<1>3. stdin' \in [Rank -> Seq(PlainLine \cup OutLine)] /\ localIds' \in [Rank -> Seq(Nat)]
  BY <1>2, ApplyResultTypes DEF FenceResult
<1>4. NetTypes' /\ RoundTypes'
  BY <1>3 DEF FenceResult, Types, NetTypes, RoundTypes
<1>5. FaultTypes' /\ OpsBound'
  BY FaultlessStep DEF FenceResult, process
<1> QED BY <1>3, <1>4, <1>5, SameTypes DEF FenceResult, Types, PipeTypes

(* Ranks.                                                                  *)
LEMMA IdleType == Idle \in RankState /\ Idle.st = "off"
BY Constants DEF Idle, RankState

LEMMA IdleRankTypes ==
    ASSUME Types, NEW r \in Rank, rank' = [rank EXCEPT ![r] = Idle]
    PROVE  RankTypes'
<1>1. rank' \in [Rank -> RankState]
  BY IdleType DEF Types, RankTypes
<1>2. \A p \in Rank : rank'[p] = Idle \/ rank'[p] = rank[p]
  BY DEF Types, RankTypes
<1>3. \A p \in Rank : rank'[p].st # "off" => rank'[p].task \in Task
  <2> SUFFICES ASSUME NEW p \in Rank, rank'[p].st # "off" PROVE rank'[p].task \in Task
    OBVIOUS
  <2>1. rank'[p] = rank[p]
    BY <1>2, IdleType
  <2> QED BY <2>1 DEF Types, RankTypes
<1> QED BY <1>1, <1>3 DEF RankTypes

LEMMA RankStateTypes ==
    ASSUME Types, NEW r \in Rank, rank[r].st # "off",
           NEW s \in {"ready", "over", "failed"}, rank' = [rank EXCEPT ![r].st = s]
    PROVE  RankTypes'
<1>1. rank' \in [Rank -> RankState]
  BY DEF Types, RankTypes, RankState
<1>2. \A p \in Rank : rank'[p].st # "off" => rank'[p].task \in Task
  BY DEF Types, RankTypes, RankState
<1> QED BY <1>1, <1>2 DEF RankTypes

LEMMA RankStepTypes ==
    ASSUME Types, NEW r \in Rank, Connect(r) \/ RankEnds(r) \/ RankDies(r)
    PROVE  Types'
<1>1. RankTypes'
  <2>1. CASE Connect(r)
    <3>1. rank[r].st # "off"
      BY <2>1 DEF Connect
    <3> DEFINE s == IF Alive(r) /\ r \in clients[r] THEN "ready" ELSE "failed"
    <3>2. s \in {"ready", "over", "failed"} /\ rank' = [rank EXCEPT ![r].st = s]
      BY <2>1 DEF Connect
    <3> HIDE DEF s
    <3> QED BY <3>1, <3>2, RankStateTypes
  <2>2. CASE RankEnds(r)
    <3>1. rank[r].st # "off"
      BY <2>2 DEF RankEnds
    <3>2. rank' = [rank EXCEPT ![r].st = "over"] \/ rank' = [rank EXCEPT ![r].st = "failed"]
      BY <2>2 DEF RankEnds
    <3> QED BY <3>1, <3>2, RankStateTypes
  <2>3. CASE RankDies(r)
    <3>1. rank[r].st # "off" /\ rank' = [rank EXCEPT ![r].st = "failed"]
      BY <2>3 DEF RankDies
    <3> QED BY <3>1, RankStateTypes
  <2> QED BY <2>1, <2>2, <2>3
<1>2. UNCHANGED <<process, pipes, session, round, book, net, history>>
  BY DEF Connect, RankEnds, RankDies
<1>3. FaultTypes' /\ Len(faults') >= Len(faults)
  BY SpendFaults, SameFaults DEF Connect, RankEnds, RankDies, Types
<1>4. OpsBound'
  BY <1>2, <1>3, SameOps DEF process
<1> QED BY <1>1, <1>2, <1>3, <1>4, SameTypes DEF Types

LEMMA RankFinishedTypes ==
    ASSUME Types, NEW t, NEW c \in {0, 1}, RankFinished(t, c)
    PROVE  tasks' \in [Task -> TaskState]
<1>1. tasks \in [Task -> TaskState]
  BY DEF Types, BookTypes
<1>2. [tasks EXCEPT ![t].done = tasks[t].done + 1] \in [Task -> TaskState]
  <2> DEFINE s == tasks[t]
             x == [s EXCEPT !.done = s.done + 1]
  <2>1. [tasks EXCEPT ![t].done = tasks[t].done + 1] = [tasks EXCEPT ![t] = x]
    OBVIOUS
  <2>2. t \in Task => s \in TaskState
    BY <1>1
  <2> HIDE DEF s
  <2>3. s \in TaskState => x \in TaskState
    BY DEF TaskState
  <2> HIDE DEF x
  <2> QED BY <1>1, <2>1, <2>2, <2>3
<1>3. CASE tasks[t].done + 1 >= N
  BY <1>2, <1>3, FinishedTask DEF RankFinished
<1>4. CASE ~(tasks[t].done + 1 >= N)
  <2> DEFINE s == tasks[t]
             k == IF s.done = 0 \/ c # 0 THEN c ELSE s.code
             x == [s EXCEPT !.done = s.done + 1, !.code = k]
  <2>1. tasks' = [tasks EXCEPT ![t].done = tasks[t].done + 1,
                              ![t].code = IF tasks[t].done = 0 \/ c # 0 THEN c ELSE tasks[t].code]
    BY <1>4 DEF RankFinished
  <2>2. tasks' = [tasks EXCEPT ![t] = x]
    BY <2>1
  <2>3. t \in Task => s \in TaskState
    BY <1>1
  <2>4. c \in {0, 1, 143}
    OBVIOUS
  <2> HIDE DEF s
  <2>5. s \in TaskState => x \in TaskState
    <3>1. s \in TaskState => k \in {0, 1, 143}
      BY <2>4 DEF TaskState
    <3>2. s \in TaskState => s.done + 1 \in Nat
      BY DEF TaskState
    <3> DEFINE d == s.done + 1
    <3> HIDE DEF k, d
    <3>3. s \in TaskState => [s EXCEPT !.done = d, !.code = k] \in TaskState
      BY <3>1, <3>2 DEF TaskState, d
    <3> QED BY <3>3 DEF d
  <2> HIDE DEF x
  <2> QED BY <1>1, <2>2, <2>3, <2>5
<1> QED BY <1>3, <1>4

LEMMA OnRankProcessTypes ==
    ASSUME Types, NEW r \in Rank, OnRankProcess(r)
    PROVE  Types'
<1> DEFINE c == IF rank[r].st = "failed" THEN 1 ELSE 0
           t == contTask[r]
           newest == CHOOSE u \in Task : /\ tasks[u].st # "none"
                                         /\ \A w \in u+1..MaxTasks : tasks[w].st = "none"
<1>1. c \in {0, 1} /\ t \in Task \cup {0}
  BY DEF Types, BookTypes
<1>2. RankTypes'
  BY IdleRankTypes DEF OnRankProcess
<1>3. BookTypes' /\ NetTypes'
  <2>1. CASE r = 0
    <3>1. RankFinished(newest, c) /\ UNCHANGED <<net, replyTo, contTask>>
      BY <2>1 DEF OnRankProcess
    <3> HIDE DEF newest, c
    <3>2. tasks' \in [Task -> TaskState]
      BY <1>1, <3>1, RankFinishedTypes
    <3> QED BY <3>1, <3>2 DEF Types, BookTypes, NetTypes
  <2>2. CASE r # 0
    <3>1. /\ net' = IF t \in replyTo[r]
                    THEN net \cup {[type |-> "done", to |-> 0, task |-> t, from |-> r, code |-> c]}
                    ELSE net
          /\ replyTo' = [replyTo EXCEPT ![r] = replyTo[r] \ {t}]
          /\ UNCHANGED <<tasks, contTask>>
      BY <2>2 DEF OnRankProcess
    <3> HIDE DEF t, c
    <3>2. BookTypes'
      BY <3>1 DEF Types, BookTypes
    <3>3. t \in replyTo[r] => t \in Task
      BY DEF Types, BookTypes
    <3>4. NetTypes'
      BY <1>1, <2>2, <3>1, <3>3 DEF Types, NetTypes, DoneMsg
    <3> QED BY <3>2, <3>4
  <2> QED BY <2>1, <2>2
<1>4. FaultTypes' /\ OpsBound'
  BY FaultlessStep DEF OnRankProcess, process
<1> QED BY <1>2, <1>3, <1>4, SameTypes DEF OnRankProcess, Types

LEMMA RankDoneTypes ==
    ASSUME Types, NEW m \in net, RankDone(m)
    PROVE  Types'
<1>1. m \in DoneMsg
  BY DEF RankDone, Types, NetTypes, StartMsg, ContribMsg, ResultMsg
<1>2. tasks' \in [Task -> TaskState]
  BY <1>1, RankFinishedTypes DEF RankDone, DoneMsg
<1>3. BookTypes' /\ NetTypes'
  BY <1>2 DEF RankDone, Types, BookTypes, NetTypes
<1>4. FaultTypes' /\ OpsBound'
  BY FaultlessStep DEF RankDone, process
<1> QED BY <1>3, <1>4, SameTypes DEF RankDone, Types

(* The end of a helper.                                                    *)
LEMMA DrainTypes ==
    ASSUME Types, NEW n \in Rank, Drain(n)
    PROVE  Types'
<1>1. stdin' \in [Rank -> Seq(PlainLine \cup OutLine)]
  BY ReadingTypes DEF Drain
<1>2. RankTypes' /\ HistoryTypes'
  BY CallBackTypes DEF Drain
<1>3. FaultTypes' /\ Len(faults') >= Len(faults) /\ Len(faults') = Len(faults)
  BY SameFaults DEF Drain, Types
<1> DEFINE y == main[n]
           x == [y EXCEPT !.at = "drain"]
<1>12. y \in MainState
  BY DEF Types, ProcessTypes
<1>4. x \in MainState /\ x.at = "drain"
  <2> HIDE DEF y
  <2> QED BY <1>12 DEF MainState
<1>5. ~Waits(n)
  BY DEF Drain, Reading, Waits, Wait
<1>6. main' = [main EXCEPT ![n] = x] /\ ops' = [ops EXCEPT ![n] = ops[n]]
  BY DEF Drain, Types, ProcessTypes
<1> HIDE DEF x
<1>7. ops[n] \in Seq([op : Wait, rank : Rank]) /\ x.at \notin Wait
  BY <1>4 DEF Types, ProcessTypes, Wait
<1>8. Len(ops[n]) <= Len(faults') + (IF x.at \in Wait THEN 1 ELSE 0)
  BY <1>3, <1>5, <1>7 DEF Types, OpsBound
<1>9. main' \in [Rank -> MainState] /\ ops' \in [Rank -> Seq([op : Wait, rank : Rank])] /\ OpsBound'
  BY <1>3, <1>4, <1>6, <1>7, <1>8, StepsOfOps
<1>10. pending' = [pending EXCEPT ![n] = <<>>] /\ \A p \in Rank : <<>> \in Partial(Nat, CallsOf(p))
  BY EmptyPartial DEF Drain
<1>13. /\ pending' = [p \in Rank |-> pending'[p]]
       /\ \A p \in Rank : pending'[p] \in Partial(Nat, CallsOf(p))
  BY <1>10 DEF Types, ProcessTypes
<1>14. UNCHANGED <<registered, contrib, seq, storing, clients>>
  BY DEF Drain
<1>11. ProcessTypes'
  BY <1>9, <1>13, <1>14 DEF Types, ProcessTypes
<1> QED BY <1>1, <1>2, <1>3, <1>9, <1>11, SameTypes DEF Drain, Types, PipeTypes

LEMMA GoneTypes ==
    ASSUME Types, NEW n \in Rank, Gone(n), FaultTypes', Len(faults') >= Len(faults)
    PROVE  Types'
<1> DEFINE x == [at |-> "gone", rank |-> 0]
<1>1. x \in MainState /\ x.at \notin Wait
  BY Constants DEF MainState, Wait
<1>2. main' = [main EXCEPT ![n] = x] /\ ops' = [ops EXCEPT ![n] = <<>>]
  BY DEF Gone
<1> HIDE DEF x
<1>3. <<>> \in Seq([op : Wait, rank : Rank]) /\ Len(<<>>) <= Len(faults') + (IF x.at \in Wait THEN 1 ELSE 0)
  BY <1>1 DEF FaultTypes
<1>4. main' \in [Rank -> MainState] /\ ops' \in [Rank -> Seq([op : Wait, rank : Rank])] /\ OpsBound'
  BY <1>1, <1>2, <1>3, StepsOfOps
<1>5. /\ storing' \in [Rank -> Seq([id : Nat, call : Calls])]
      /\ \A p \in Rank : Len(storing'[p]) <= 1
  <2>1. <<>> \in Seq([id : Nat, call : Calls]) /\ Len(<<>>) <= 1
    OBVIOUS
  <2>2. storing' = [storing EXCEPT ![n] = <<>>]
    BY DEF Gone
  <2> QED BY <2>1, <2>2, StoringTypes
<1>6. pending' = [pending EXCEPT ![n] = <<>>] /\ \A p \in Rank : <<>> \in Partial(Nat, CallsOf(p))
  BY EmptyPartial DEF Gone
<1>7. /\ pending' = [p \in Rank |-> pending'[p]]
      /\ \A p \in Rank : pending'[p] \in Partial(Nat, CallsOf(p))
  BY <1>6 DEF Types, ProcessTypes
<1>8. clients' \in [Rank -> SUBSET Rank]
  BY DEF Gone, Types, ProcessTypes
<1>9. ProcessTypes'
  BY <1>4, <1>5, <1>7, <1>8 DEF Gone, Types, ProcessTypes
<1>10. PipeTypes'
  <2>1. <<>> \in Seq(PlainLine \cup OutLine)
    OBVIOUS
  <2> QED BY <2>1 DEF Gone, Types, PipeTypes
<1> QED BY <1>4, <1>9, <1>10, SameTypes DEF Gone, Types

LEMMA ForgetTypes ==
    ASSUME Types, NEW n \in Rank, Forget(n)
    PROVE  SessionTypes' /\ RoundTypes'
<1>1. SessionTypes'
  BY DEF Forget, Types, SessionTypes
<1>2. localIds' \in [Rank -> Seq(Nat)]
  <2>1. <<>> \in Seq(Nat)
    OBVIOUS
  <2> QED BY <2>1 DEF Forget, Types, RoundTypes
<1>3. arrived' \in Blobs
  BY EmptyPartial DEF Forget, Types, RoundTypes, Blobs
<1> QED BY <1>1, <1>2, <1>3 DEF RoundTypes

LEMMA CancelJobTypes ==
    ASSUME Types, CancelJob
    PROVE  Types'
<1>1. FaultTypes' /\ Len(faults') >= Len(faults)
  BY SpendFaults DEF CancelJob, Types
<1>2. SessionTypes' /\ RoundTypes'
  BY ForgetTypes, Constants DEF CancelJob
<1>3. BookTypes'
  <2>1. \A t \in Task : [tasks[t] EXCEPT !.st = "ended", !.code = 143] \in TaskState
    <3> SUFFICES ASSUME NEW t \in Task
                 PROVE  [tasks[t] EXCEPT !.st = "ended", !.code = 143] \in TaskState
      OBVIOUS
    <3> DEFINE s == tasks[t]
    <3>1. s \in TaskState
      BY DEF Types, BookTypes
    <3> HIDE DEF s
    <3>2. [s EXCEPT !.st = "ended", !.code = 143] \in TaskState
      BY <3>1 DEF TaskState
    <3> QED BY <3>2 DEF s
  <2>2. tasks' = [t \in Task |-> IF tasks[t].st = "none" THEN tasks[t]
                                ELSE [tasks[t] EXCEPT !.st = "ended", !.code = 143]]
    BY DEF CancelJob
  <2>3. tasks' \in [Task -> TaskState]
    BY <2>1, <2>2 DEF Types, BookTypes
  <2> QED BY <2>3 DEF CancelJob, Types, BookTypes
<1>4. RankTypes'
  BY IdleRankTypes, Constants DEF CancelJob
<1>5. PipeTypes'
  <2>1. Stop \in PlainLine
    BY Constants DEF Stop, Line, PlainLine
  <2>2. Append(stdin[0], Stop) \in Seq(PlainLine \cup OutLine)
    BY <2>1, Constants, AppendLines DEF Types, PipeTypes
  <2>3. <<>> \in Seq(InLine)
    OBVIOUS
  <2>4. /\ stdin' = [stdin EXCEPT ![0] = IF helper[0] THEN Append(stdin[0], Stop) ELSE stdin[0]]
        /\ stdout' = [stdout EXCEPT ![0] = <<>>]
    BY DEF CancelJob
  <2> QED BY <2>2, <2>3, <2>4, Constants DEF Types, PipeTypes
<1>6. OpsBound'
  BY <1>1, SameOps DEF CancelJob, process
<1> QED BY <1>1, <1>2, <1>3, <1>4, <1>5, <1>6, SameTypes DEF CancelJob, Types

LEMMA StepTypes == Types /\ [Next]_vars => Types'
<1> SUFFICES ASSUME Types, [Next]_vars PROVE Types'
  OBVIOUS
<1>1. CASE UNCHANGED vars
  <2>1. FaultTypes' /\ OpsBound'
    BY <1>1, FaultlessStep DEF vars, process
  <2> QED BY <1>1, <2>1, SameTypes DEF vars, Types
<1>2. ASSUME NEW t \in Task, SpawnTask(t) PROVE Types'
  BY <1>2, SpawnTaskTypes
<1>3. ASSUME NEW m \in net, Receive(m) PROVE Types'
  BY <1>3, StartRankTypes, FenceContribTypes, FenceResultTypes, RankDoneTypes DEF Receive
<1>4. ASSUME NEW n \in Rank, HelperStep(n) PROVE Types'
  <2>1. CASE Finalize(n)
    BY <2>1, SameFaults, GoneTypes DEF Finalize, Types
  <2> QED BY <1>4, <2>1, ReadRegisterTypes, LibraryAnswersTypes, ReadContribIdTypes,
             ReadFenceOutTypes, FenceWrittenTypes, DrainTypes DEF HelperStep
<1>5. ASSUME NEW n \in Rank, ServiceStep(n) PROVE Types'
  <2>1. CASE PortExit(n)
    <3>1. FaultTypes' /\ OpsBound'
      BY <2>1, FaultlessStep DEF PortExit, process
    <3>2. SessionTypes' /\ RoundTypes'
      BY <2>1, ForgetTypes DEF PortExit
    <3> QED BY <2>1, <3>1, <3>2, SameTypes DEF PortExit, Types
  <2> QED BY <1>5, <2>1, LocalFenceInTypes, OnRankProcessTypes DEF ServiceStep
<1>6. ASSUME NEW r \in Rank, RankStep(r) PROVE Types'
  BY <1>6, RankStepTypes, FenceStoredTypes DEF RankStep
<1>7. CASE CancelJob
  BY <1>7, CancelJobTypes
<1>8. ASSUME NEW m \in net, Lose(m) PROVE Types'
  <2>1. FaultTypes' /\ Len(faults') >= Len(faults)
    BY <1>8, SpendFaults DEF Lose, Types
  <2>2. OpsBound'
    BY <1>8, <2>1, SameOps DEF Lose, process
  <2>3. NetTypes'
    BY <1>8 DEF Lose, Types, NetTypes
  <2> QED BY <1>8, <2>1, <2>2, <2>3, SameTypes DEF Lose, Types
<1>9. ASSUME NEW n \in Rank, GiveUp(n) \/ RankDies(n) \/ HelperCrashes(n) PROVE Types'
  <2>1. CASE HelperCrashes(n)
    BY <2>1, SpendFaults, GoneTypes DEF HelperCrashes, Types
  <2> QED BY <1>9, <2>1, GiveUpTypes, RankStepTypes
<1> QED BY <1>1, <1>2, <1>3, <1>4, <1>5, <1>6, <1>7, <1>8, <1>9 DEF Next, Regular, Fault

LEMMA TypesInvariant == Spec => []Types
BY InitTypes, StepTypes, PTL DEF Spec

(* Every helper, pipe, message and table is one the two programs can hold, *)
(* also when the script goes on after a failure; what the PMIx library has *)
(* not answered is bounded by the waits that were given up.                *)
THEOREM TypeCorrect == Spec => []TypeOK
<1>1. Types => TypeOK
  <2> SUFFICES ASSUME Types PROVE TypeOK
    OBVIOUS
  <2> USE DEF Types
  <2>1. ASSUME NEW n \in Rank
        PROVE  /\ main[n].at \in Wait \cup {"off", "read", "drain", "gone"} /\ main[n].rank \in Rank
               /\ contrib[n] \in Rank /\ seq[n] \in Nat /\ clients[n] \subseteq Rank
               /\ Len(storing[n]) <= 1
    BY DEF ProcessTypes, MainState
  <2>2. ASSUME NEW n \in Rank PROVE Len(ops[n]) <= Len(faults) + 1
    <3> DEFINE a == Len(ops[n])  b == Len(faults)
    <3>1. a \in Nat /\ b \in Nat /\ a <= b + (IF Waits(n) THEN 1 ELSE 0)
      BY DEF ProcessTypes, FaultTypes, OpsBound
    <3> HIDE DEF a, b
    <3>2. a <= b + 1
      BY <3>1
    <3> QED BY <3>2 DEF a, b
  <2>3. ASSUME NEW n \in Rank, NEW i \in DOMAIN pending[n]
        PROVE  pending[n][i] \in [task : Task, round : Round, rank : {n}]
    <3>1. pending[n] \in Partial(Nat, CallsOf(n))
      BY DEF ProcessTypes
    <3>2. pending[n][i] \in CallsOf(n)
      BY <3>1, PartialFunction
    <3> QED BY <3>2 DEF CallsOf
  <2>4. ASSUME NEW n \in Rank, NEW i \in DOMAIN stdout[n] PROVE stdout[n][i].key \in Rank
    <3>1. stdout[n] \in Seq(InLine)
      BY DEF PipeTypes
    <3>2. stdout[n][i] \in InLine
      BY <3>1, ElementOfSeq
    <3> QED BY <3>2 DEF InLine
  <2>5. ASSUME NEW n \in Rank
        PROVE  /\ rank[n].st \in {"off", "up", "ready", "fence", "over", "failed"}
               /\ rank[n].task \in Task \cup {0} /\ rank[n].k \in 0..MaxFences
    BY DEF RankTypes, RankState
  <2>6. /\ helper \in [Rank -> BOOLEAN] /\ follows \in [Rank -> BOOLEAN]
        /\ registered \in [Rank -> BOOLEAN] /\ expected \in [Rank -> {0, N}]
    BY DEF SessionTypes, ProcessTypes
  <2>7. /\ tasks \in [Task -> [st : {"none", "running", "ended"}, done : Nat, code : {0, 1, 143}]]
        /\ faults \in Seq(FaultKind)
    BY DEF BookTypes, TaskState, FaultTypes
  <2> QED BY <2>1, <2>2, <2>3, <2>4, <2>5, <2>6, <2>7 DEF TypeOK
<1> QED BY <1>1, TypesInvariant, PTL
=============================================================================
