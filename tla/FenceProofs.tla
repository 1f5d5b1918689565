---------------------------- MODULE FenceProofs -----------------------------
(***************************************************************************)
(* Proofs about the fences of Pmix, for any number of nodes, tasks, fences *)
(* and faults, when the job script stops at the first failure: the rounds  *)
(* do not mix, no helper is told of a fence it does not know, and what the *)
(* ranks get is what Fence promises.                                       *)
(*                                                                         *)
(* No message carries the number of its round.  The invariant is what      *)
(* takes its place: a rank has at most one call under way, it is the one   *)
(* the rank waits for, it is in one place, and once the data of a round    *)
(* are on their way back no call of that round is under way any more.      *)
(***************************************************************************)
EXTENDS PmixProofs

Started(t) == tasks[t].st # "none"
Current(t) == t \in Task /\ Started(t) /\ \A u \in Task : u > t => ~Started(u)

(* The data of round k of task t.                                          *)
Data(t, k) == [r \in Rank |-> Call(t, k, r)]

IsOut(n, i) == stdin[n][i].cmd = "FENCE_OUT"
NoOut(n) == \A i \in DOMAIN stdin[n] : ~IsOut(n, i)
Reads(n) == Alive(n) /\ main[n].at # "drain"

(* Where the contribution of call c may be on its way to the leader.       *)
InStore(n, c) == storing[n] # <<>> /\ storing[n][1].call = c
InPipe(n, c) == stdout[n] # <<>> /\ stdout[n][1].call = c
InCast(c) == \E m \in net : m.type = "contrib" /\ m.call = c
InRound(c) == \E i \in DOMAIN arrived : arrived[i] = c
Live(c) == (\E n \in Rank : InStore(n, c) \/ InPipe(n, c)) \/ InCast(c) \/ InRound(c)

(* The data of round k of task t are complete.                             *)
InResult(t, k) == \E m \in net : m.type = "result" /\ m.blob = Data(t, k)
InOut(n, t, k) == Alive(n) /\ \E i \in DOMAIN stdin[n] : IsOut(n, i) /\ stdin[n][i].blob = Data(t, k)
Answered(t, k) == \E n \in Rank : answer[t][n][k] = "data"
Complete(t, k) == Answered(t, k) \/ InResult(t, k) \/ \E n \in Rank : InOut(n, t, k)

(* Tasks are started in their order, and nothing happens before the first. *)
Pristine == /\ faults = <<>> /\ net = {}
            /\ \A n \in Rank : rank[n].st = "off" /\ main[n].at = "off" /\ ~helper[n]
TaskInv ==
    /\ \A u, w \in Task : w < u /\ Started(u) => Started(w)
    /\ \A t \in Task : ~Started(t) => tasks[t].done = 0 /\ \A r \in Rank : entered[t][r] = 0
    /\ (\A t \in Task : ~Started(t)) => Pristine
    /\ \A n \in Rank : contTask[n] # 0 => Started(contTask[n])
    /\ \A m \in net : m.type = "done" => Started(m.task)

(* What wm_pmix keeps of the session, and the lines it has written.        *)
LineOk(n, l) ==
    /\ l.cmd \in {"REGISTER", "CONTRIB_ID"} => l.rank = n
    /\ l.cmd = "FENCE_OUT" => \E t \in Task, k \in Round : l.blob = Data(t, k)
Stopped == rank[0].st = "off" /\ ~helper[0] /\ faults # <<>>
SessionInv ==
    /\ \A n \in Rank : ~helper[n] => localIds[n] = <<>>
    /\ ~follows[0] /\ \A n \in Rank \ {0} : helper[n] => follows[n]
    /\ expected[0] = 0 => ~helper[0] /\ ~peers
    /\ \A n \in Rank : contrib[n] \in {0, n}
    /\ \A n \in Rank : \A i \in DOMAIN stdin[n] :
          LineOk(n, stdin[n][i]) /\ (stdin[n][i].cmd = "STOP" => n = 0 /\ Stopped)
    /\ \A n \in Rank : main[n].at = "drain" => n = 0 /\ Stopped

(* The rank of node n, its calls and their answers.                        *)
AtRank(n) ==
    LET p == rank[n] IN
    /\ p.st # "off" => Current(p.task) /\ p.k = entered[p.task][n]
    /\ p.st = "up" => p.k = 0
    /\ p.st = "fence" => p.k \in Round /\ answer[p.task][n][p.k] = "none"
    /\ p.st = "ready" /\ p.k > 0 => answer[p.task][n][p.k] = "data"
AtStart(n) == \A m \in net : m.type = "start" /\ m.to = n =>
                 rank[n].st = "off" /\ Current(m.task) /\ entered[m.task][n] = 0
Answers(n) == \A t \in Task, k \in Round :
                 /\ answer[t][n][k] \in {"none", "data"}
                 /\ k < entered[t][n] => answer[t][n][k] = "data"
                 /\ k > entered[t][n] => answer[t][n][k] = "none"
RankInv == \A n \in Rank : AtRank(n) /\ AtStart(n) /\ Answers(n)

(* The call of rank n is in one place.                                     *)
OffNode(n) == /\ \A m \in net : m.type = "contrib" => m.call.rank # n
              /\ \A i \in DOMAIN arrived : arrived[i].rank # n
OneCall(n) ==
    /\ storing[n] # <<>> => stdout[n] = <<>> /\ storing[n][1].call.rank = n /\ OffNode(n)
    /\ Len(stdout[n]) <= 1
    /\ stdout[n] # <<>> => /\ stdout[n][1].call.rank = n /\ stdout[n][1].key \in {0, n}
                           /\ OffNode(n)
    /\ \A m \in net : m.type = "contrib" /\ m.call.rank = n =>
          /\ m.key \in {0, n}
          /\ \A x \in net : x.type = "contrib" /\ x.call.rank = n => x = m
          /\ \A i \in DOMAIN arrived : arrived[i].rank # n
    /\ \A i, j \in DOMAIN arrived : arrived[i].rank = n /\ arrived[j].rank = n => i = j
CallInv ==
    /\ \A n \in Rank : OneCall(n)
    /\ \A i \in DOMAIN arrived : i \in {0, arrived[i].rank}
    /\ \A c \in Calls : Live(c) => Current(c.task) /\ c.round = entered[c.task][c.rank]

(* A round that is complete is over.                                       *)
RoundInv ==
    \A t \in Task, k \in Round : Complete(t, k) =>
        \A n \in Rank : entered[t][n] >= k /\ ~Live(Call(t, k, n))

(* The result of a round finds its node waiting.                           *)
ResultOk(m) ==
    /\ \E t \in Task, k \in Round :
          Current(t) /\ m.blob = Data(t, k) /\ answer[t][m.to][k] = "none"
    /\ Alive(m.to) => NoOut(m.to)
ResultInv == \A m \in net : m.type = "result" => ResultOk(m)

(* The id of the call of node n, in the helper and in wm_pmix.             *)
Known1(n, id, c) == id \in DOMAIN pending[n] /\ pending[n][id] = c
PendingOk(n) ==
    /\ \A i, j \in DOMAIN pending[n] : i = j
    /\ \A i \in DOMAIN pending[n] :
          LET c == pending[n][i] IN
          /\ Current(c.task) /\ c.round = entered[c.task][n] /\ answer[c.task][n][c.round] = "none"
IdOk(n) ==
    /\ PendingOk(n)
    /\ storing[n] # <<>> => /\ Known1(n, storing[n][1].id, storing[n][1].call)
                            /\ localIds[n] = <<>> /\ NoOut(n)
    /\ stdout[n] # <<>> => /\ Known1(n, stdout[n][1].id, stdout[n][1].call)
                           /\ localIds[n] = <<>> /\ NoOut(n)
    /\ localIds[n] # <<>> => /\ Len(localIds[n]) = 1 /\ localIds[n][1] \in DOMAIN pending[n]
                             /\ NoOut(n)
    /\ \A i \in DOMAIN stdin[n] : IsOut(n, i) =>
          /\ stdin[n][i].id \in DOMAIN pending[n]
          /\ stdin[n][i].blob = Gathered(pending[n][stdin[n][i].id])
    /\ \A i, j \in DOMAIN stdin[n] : IsOut(n, i) /\ IsOut(n, j) => i = j
IdInv == \A n \in Rank : Reads(n) => IdOk(n)

(* Without a fault every rank registers, and ends after its last fence.    *)
Registers(n) ==
    /\ rank[n].st # "off" => helper[n]
    /\ rank[n].st # "failed"
    /\ ~helper[n] => main[n].at = "off"
    /\ helper[n] => main[n].at \in Wait \cup {"read"}
    /\ main[n].at = "read" => /\ ops[n] = <<>>
                              /\ \/ n \in clients[n]
                                 \/ \E i \in DOMAIN stdin[n] : stdin[n][i].cmd = "REGISTER"
    /\ main[n].at \in Wait => ops[n] = <<[op |-> main[n].at, rank |-> n]>> /\ main[n].rank = n
    /\ n # 0 /\ rank[n].st # "off" => contTask[n] = rank[n].task /\ contTask[n] \in replyTo[n]

(* Without a fault a task ends when all of its ranks have been reported.   *)
Owes(r) ==
    \/ rank[r].st # "off"
    \/ \E m \in net : m.type = "start" /\ m.to = r
    \/ \E m \in net : m.type = "done" /\ m.from = r
Reported == {r \in Rank : ~Owes(r)}
ReportsOk ==
    /\ \A m \in net : m.type = "done" =>
          /\ Current(m.task) /\ rank[m.from].st = "off"
          /\ \A x \in net : x.type = "done" /\ x.from = m.from => x = m
          /\ \A x \in net : x.type = "start" => x.to # m.from
    /\ \A t \in Task : Current(t) => tasks[t].done = Cardinality(Reported)
    /\ \A t \in Task : Current(t) /\ tasks[t].st = "ended" => Reported = Rank
CalmOk ==
    /\ \A c \in Calls : Live(c) => rank[c.rank].st = "fence"
    /\ \A n \in Rank : Alive(n) /\ DOMAIN pending[n] # {} => rank[n].st = "fence"
    /\ \A m \in net : m.type = "result" => rank[m.to].st = "fence"
QuietInv == faults = <<>> => (\A n \in Rank : Registers(n)) /\ ReportsOk /\ CalmOk

FenceInv == /\ TaskInv /\ SessionInv /\ RankInv /\ CallInv /\ RoundInv
            /\ ResultInv /\ IdInv /\ QuietInv
-----------------------------------------------------------------------------
(***************************************************************************)
(* Calls, data and messages.                                               *)
(***************************************************************************)
LEMMA CallIs ==
    ASSUME NEW c \in Calls
    PROVE  /\ c.task \in Task /\ c.round \in Round /\ c.rank \in Rank
           /\ c = Call(c.task, c.round, c.rank)
BY DEF Calls, Call

LEMMA CallFields ==
    ASSUME NEW t \in Task, NEW k \in Round, NEW r \in Rank
    PROVE  /\ Call(t, k, r) \in Calls /\ Call(t, k, r).task = t
           /\ Call(t, k, r).round = k /\ Call(t, k, r).rank = r
BY DEF Calls, Call

LEMMA DataOne ==
    ASSUME NEW t, NEW k, NEW u, NEW j, Data(t, k) = Data(u, j)
    PROVE  t = u /\ k = j
<1>1. Data(t, k)[0] = Call(t, k, 0) /\ Data(u, j)[0] = Call(u, j, 0)
  BY Constants DEF Data
<1> QED BY <1>1 DEF Call

LEMMA GatheredIs == ASSUME NEW c PROVE Gathered(c) = Data(c.task, c.round)
BY DEF Gathered, Data

LEMMA CurrentOne == ASSUME NEW t, NEW u, Current(t), Current(u) PROVE t = u
<1>1. t \in Int /\ u \in Int
  BY Constants DEF Current, Task
<1> QED BY <1>1 DEF Current

LEMMA Messages ==
    ASSUME Types, NEW m \in net
    PROVE  /\ m.type = "start" => m \in StartMsg
           /\ m.type = "contrib" => m \in ContribMsg
           /\ m.type = "result" => m \in ResultMsg
           /\ m.type = "done" => m \in DoneMsg
           /\ m.type \in {"start", "contrib", "result", "done"}
BY DEF Types, NetTypes, StartMsg, ContribMsg, ResultMsg, DoneMsg

-----------------------------------------------------------------------------
(***************************************************************************)
(* What a step does to the parts of the invariant whose variables it       *)
(* leaves alone, or only takes from.                                       *)
(***************************************************************************)
Kept == \A t \in Task : Started(t)' = Started(t)
Less(k) == \A m \in net' : m.type = k => m \in net
Begun == \E t \in Task : Started(t)

LEMMA SameCurrent == ASSUME Kept PROVE \A t : Current(t)' = Current(t)
BY DEF Kept, Current

LEMMA NetLess == net' \subseteq net => \A k : Less(k)
BY DEF Less

LEMMA TasksKept == UNCHANGED tasks => Kept
BY DEF Kept, Started

LEMMA TaskKept ==
    ASSUME TaskInv, Types', Begun, Kept,
           \A t \in Task : ~Started(t) => /\ tasks'[t].done = tasks[t].done
                                          /\ \A r \in Rank : entered'[t][r] = entered[t][r],
           \A n \in Rank : contTask'[n] = contTask[n] \/ Started(contTask'[n]),
           \A m \in net' : m.type = "done" => m \in net \/ Started(m.task)
    PROVE  TaskInv'
<1>1. \A t \in Task : Started(t)' = Started(t)
  BY DEF Kept
<1>2. \A u, w \in Task : w < u /\ Started(u)' => Started(w)'
  BY <1>1 DEF TaskInv
<1>3. \A t \in Task : ~Started(t)' => tasks'[t].done = 0 /\ \A r \in Rank : entered'[t][r] = 0
  BY <1>1 DEF TaskInv
<1>4. ~\A t \in Task : ~Started(t)'
  BY <1>1 DEF Begun
<1>5. \A n \in Rank : (contTask[n] # 0 => Started(contTask[n]))'
  <2>1. contTask' \in [Rank -> Task \cup {0}]
    BY DEF Types, BookTypes
  <2> QED BY <1>1, <2>1 DEF TaskInv
<1>6. (\A m \in net : m.type = "done" => Started(m.task))'
  <2>1. \A m \in net' : m.type = "done" => m.task \in Task
    BY DEF Types, NetTypes, StartMsg, ContribMsg, ResultMsg, DoneMsg
  <2> QED BY <1>1, <2>1 DEF TaskInv
<1> QED BY <1>2, <1>3, <1>4, <1>5, <1>6 DEF TaskInv

LEMMA RankSame ==
    ASSUME RankInv, Kept, Less("start"), NEW n \in Rank, rank'[n] = rank[n],
           \A t \in Task : entered'[t][n] = entered[t][n] /\ answer'[t][n] = answer[t][n]
    PROVE  AtRank(n)' /\ AtStart(n)' /\ Answers(n)'
<1>1. \A t : Current(t)' = Current(t)
  BY SameCurrent
<1>2. \A t : Current(t) => t \in Task
  BY DEF Current
<1>3. AtRank(n) /\ AtStart(n) /\ Answers(n)
  BY DEF RankInv
<1>4. AtRank(n)'
  BY <1>1, <1>2, <1>3 DEF AtRank
<1>5. AtStart(n)'
  BY <1>1, <1>2, <1>3 DEF AtStart, Less
<1>6. Answers(n)'
  BY <1>3 DEF Answers
<1> QED BY <1>4, <1>5, <1>6

LEMMA RankKept ==
    ASSUME RankInv, Kept, Less("start"), rank' = rank, UNCHANGED history
    PROVE  RankInv'
<1>1. \A n \in Rank : AtRank(n)' /\ AtStart(n)' /\ Answers(n)'
  BY RankSame DEF history
<1> QED BY <1>1 DEF RankInv

(* No call gets any further than it was.                                   *)
CallsLess ==
    /\ \A n \in Rank : /\ storing'[n] = storing[n] \/ storing'[n] = <<>>
                       /\ stdout'[n] = stdout[n] \/ stdout'[n] = <<>>
    /\ Less("contrib")
    /\ arrived' = arrived \/ arrived' = <<>>

LEMMA CallLess ==
    ASSUME CallInv, Kept, CallsLess, UNCHANGED entered
    PROVE  /\ CallInv'
           /\ \A c \in Calls : Live(c)' => Live(c)
<1>1. \A c : Live(c)' => Live(c)
  BY DEF CallsLess, Live, InStore, InPipe, InCast, InRound, Less
<1>2. ASSUME NEW n \in Rank PROVE OneCall(n)'
  <2>1. OneCall(n)
    BY DEF CallInv
  <2>2. Less("contrib") /\ (arrived' = arrived \/ arrived' = <<>>)
    BY DEF CallsLess
  <2>3. OffNode(n) => OffNode(n)'
    BY <2>2 DEF OffNode, Less
  <2>4. Len(<<>>) = 0
    OBVIOUS
  <2>5. Len(stdout'[n]) <= 1
    BY <2>1, <2>4 DEF CallsLess, OneCall
  <2>6. storing'[n] # <<>> => stdout'[n] = <<>> /\ storing'[n][1].call.rank = n /\ OffNode(n)'
    BY <2>1, <2>3 DEF CallsLess, OneCall
  <2>7. stdout'[n] # <<>> => /\ stdout'[n][1].call.rank = n /\ stdout'[n][1].key \in {0, n}
                             /\ OffNode(n)'
    BY <2>1, <2>3 DEF CallsLess, OneCall
  <2>8. \A i, j \in DOMAIN arrived' : arrived'[i].rank = n /\ arrived'[j].rank = n => i = j
    BY <2>1, <2>2 DEF OneCall
  <2>9. \A m \in net' : m.type = "contrib" /\ m.call.rank = n =>
          /\ m.key \in {0, n}
          /\ \A x \in net' : x.type = "contrib" /\ x.call.rank = n => x = m
          /\ \A i \in DOMAIN arrived' : arrived'[i].rank # n
    BY <2>1, <2>2 DEF OneCall, Less
  <2> QED BY <2>5, <2>6, <2>7, <2>8, <2>9 DEF OneCall
<1>3. \A i \in DOMAIN arrived' : i \in {0, arrived'[i].rank}
  BY DEF CallsLess, CallInv
<1>4. \A c \in Calls : Live(c)' => Current(c.task)' /\ c.round = entered'[c.task][c.rank]
  BY <1>1, SameCurrent DEF CallInv
<1> QED BY <1>1, <1>2, <1>3, <1>4 DEF CallInv

(* Of the pipe to the helper of node n at most the first line is gone, and *)
(* no FENCE_OUT has come.                                                  *)
Fewer(n) == \E d \in {0, 1} : \A i \in DOMAIN stdin'[n] :
    IsOut(n, i)' => i + d \in DOMAIN stdin[n] /\ stdin[n][i + d] = stdin'[n][i]
OutsLess(n) == Alive(n)' => NoOut(n)' \/ (Alive(n) /\ Fewer(n))

LEMMA FewerOut ==
    ASSUME NEW n, Fewer(n)
    PROVE  \A i \in DOMAIN stdin'[n] : IsOut(n, i)' =>
               \E j \in DOMAIN stdin[n] : IsOut(n, j) /\ stdin[n][j] = stdin'[n][i]
BY DEF Fewer, IsOut

LEMMA RoundLess ==
    ASSUME RoundInv, UNCHANGED history, \A c \in Calls : Live(c)' => Live(c),
           Less("result"), \A n \in Rank : OutsLess(n)
    PROVE  RoundInv'
<1> SUFFICES ASSUME NEW t \in Task, NEW k \in Round, Complete(t, k)', NEW n \in Rank
             PROVE  entered'[t][n] >= k /\ ~Live(Call(t, k, n))'
  BY DEF RoundInv
<1>1. Complete(t, k)
  <2>1. Answered(t, k)' => Answered(t, k)
    BY DEF Answered, history
  <2>2. InResult(t, k)' => InResult(t, k)
    BY DEF InResult, Less, Data
  <2>3. ASSUME NEW p \in Rank, InOut(p, t, k)' PROVE InOut(p, t, k)
    <3>1. PICK i \in DOMAIN stdin'[p] : IsOut(p, i)' /\ stdin'[p][i].blob = Data(t, k)
      BY <2>3 DEF InOut, Data
    <3>2. Alive(p)' /\ ~NoOut(p)'
      BY <2>3, <3>1 DEF InOut, NoOut
    <3>3. Alive(p) /\ Fewer(p)
      BY <3>2 DEF OutsLess
    <3> QED BY <3>1, <3>3, FewerOut DEF InOut
  <2> QED BY <2>1, <2>2, <2>3 DEF Complete
<1>2. Call(t, k, n) \in Calls
  BY CallFields
<1> QED BY <1>1, <1>2 DEF RoundInv, history

LEMMA NoOutLess == ASSUME NEW n, NoOut(n), OutsLess(n), Alive(n)' PROVE NoOut(n)'
BY FewerOut DEF OutsLess, NoOut

LEMMA ResultLess ==
    ASSUME Types, ResultInv, Kept, UNCHANGED answer, Less("result"), \A n \in Rank : OutsLess(n)
    PROVE  ResultInv'
<1> SUFFICES ASSUME NEW m \in net', m.type = "result" PROVE ResultOk(m)'
  BY DEF ResultInv
<1>1. m \in net /\ m.to \in Rank
  BY Messages DEF Less, ResultMsg
<1>2. ResultOk(m)
  BY <1>1 DEF ResultInv
<1>3. \A t : Current(t)' = Current(t)
  BY SameCurrent
<1>4. Alive(m.to)' => NoOut(m.to)'
  <2>1. Alive(m.to)' => Alive(m.to) \/ NoOut(m.to)'
    BY <1>1 DEF OutsLess
  <2> QED BY <1>1, <1>2, <2>1, NoOutLess DEF ResultOk
<1>5. \E t \in Task, k \in Round :
          Current(t)' /\ m.blob = Data(t, k) /\ answer'[t][m.to][k] = "none"
  BY <1>2, <1>3 DEF ResultOk
<1> QED BY <1>4, <1>5 DEF ResultOk, Data

(* The ids of node n.                                                      *)
IdsLess(n) ==
    /\ pending'[n] = pending[n]
    /\ storing'[n] = storing[n] \/ storing'[n] = <<>>
    /\ stdout'[n] = stdout[n] \/ stdout'[n] = <<>>
    /\ localIds'[n] = localIds[n] \/ localIds'[n] = <<>>
    /\ Reads(n)' => Reads(n)
    /\ NoOut(n)' \/ Fewer(n)
SameRounds(n) == \A t \in Task : entered'[t][n] = entered[t][n] /\ answer'[t][n] = answer[t][n]

LEMMA PendingKept ==
    ASSUME Kept, NEW n \in Rank, PendingOk(n), pending'[n] = pending[n], SameRounds(n)
    PROVE  PendingOk(n)'
<1>1. \A t : Current(t)' = Current(t)
  BY SameCurrent
<1>2. \A t : Current(t) => t \in Task
  BY DEF Current
<1> QED BY <1>1, <1>2 DEF PendingOk, SameRounds

LEMMA IdLess ==
    ASSUME Types, Types', Kept, NEW n \in Rank, Reads(n) => IdOk(n), IdsLess(n), SameRounds(n), Reads(n)'
    PROVE  IdOk(n)'
<1>1. IdOk(n)
  BY DEF IdsLess
<1>2. PendingOk(n)'
  BY <1>1, PendingKept DEF IdOk, IdsLess
<1>3. NoOut(n) => NoOut(n)'
  BY FewerOut DEF IdsLess, NoOut
<1>4. \A i : (\E c : Known1(n, i, c)) => \A c : Known1(n, i, c)' = Known1(n, i, c)
  BY DEF Known1, IdsLess
<1>5. storing'[n] # <<>> => /\ Known1(n, storing[n][1].id, storing[n][1].call)'
                            /\ localIds'[n] = <<>> /\ NoOut(n)'
  BY <1>1, <1>3 DEF IdOk, IdsLess, Known1
<1>6. stdout'[n] # <<>> => /\ Known1(n, stdout[n][1].id, stdout[n][1].call)'
                           /\ localIds'[n] = <<>> /\ NoOut(n)'
  BY <1>1, <1>3 DEF IdOk, IdsLess, Known1
<1>7. localIds'[n] # <<>> => /\ Len(localIds'[n]) = 1 /\ localIds'[n][1] \in DOMAIN pending'[n]
                             /\ NoOut(n)'
  <2> SUFFICES ASSUME localIds'[n] # <<>>
               PROVE  /\ Len(localIds'[n]) = 1 /\ localIds'[n][1] \in DOMAIN pending'[n]
                      /\ NoOut(n)'
    OBVIOUS
  <2>1. localIds'[n] = localIds[n]
    BY DEF IdsLess
  <2>2. Len(localIds[n]) = 1 /\ localIds[n][1] \in DOMAIN pending[n] /\ NoOut(n)
    BY <1>1, <2>1 DEF IdOk
  <2> QED BY <1>3, <2>1, <2>2 DEF IdsLess
<1>8. \A i \in DOMAIN stdin'[n] : IsOut(n, i)' =>
          /\ stdin'[n][i].id \in DOMAIN pending'[n]
          /\ stdin'[n][i].blob = Gathered(pending'[n][stdin'[n][i].id])
  <2> SUFFICES ASSUME NEW i \in DOMAIN stdin'[n], IsOut(n, i)'
               PROVE  /\ stdin'[n][i].id \in DOMAIN pending'[n]
                      /\ stdin'[n][i].blob = Gathered(pending'[n][stdin'[n][i].id])
    OBVIOUS
  <2>1. Fewer(n)
    BY DEF IdsLess, NoOut
  <2>2. PICK j \in DOMAIN stdin[n] : IsOut(n, j) /\ stdin[n][j] = stdin'[n][i]
    BY <2>1, FewerOut
  <2>3. /\ stdin[n][j].id \in DOMAIN pending[n]
        /\ stdin[n][j].blob = Gathered(pending[n][stdin[n][j].id])
    BY <1>1, <2>2 DEF IdOk
  <2> QED BY <2>2, <2>3 DEF IdsLess
<1>9. \A i, j \in DOMAIN stdin'[n] : IsOut(n, i)' /\ IsOut(n, j)' => i = j
  <2> SUFFICES ASSUME NEW i \in DOMAIN stdin'[n], NEW j \in DOMAIN stdin'[n],
                      IsOut(n, i)', IsOut(n, j)'
               PROVE  i = j
    OBVIOUS
  <2>1. PICK d \in {0, 1} : \A k \in DOMAIN stdin'[n] :
            IsOut(n, k)' => k + d \in DOMAIN stdin[n] /\ stdin[n][k + d] = stdin'[n][k]
    BY DEF IdsLess, NoOut, Fewer
  <2>2. IsOut(n, i + d) /\ IsOut(n, j + d) /\ i + d \in DOMAIN stdin[n] /\ j + d \in DOMAIN stdin[n]
    BY <2>1 DEF IsOut
  <2>3. i + d = j + d
    BY <1>1, <2>2 DEF IdOk
  <2>4. i \in Int /\ j \in Int
    BY DEF Types, PipeTypes
  <2> QED BY <2>1, <2>3, <2>4
<1> QED BY <1>2, <1>5, <1>6, <1>7, <1>8, <1>9 DEF IdOk, Gathered

LEMMA IdKept ==
    ASSUME Types, Types', Kept, IdInv, UNCHANGED history, \A n \in Rank : Reads(n)' => IdsLess(n)
    PROVE  IdInv'
<1> SUFFICES ASSUME NEW n \in Rank, Reads(n)' PROVE IdOk(n)'
  BY DEF IdInv
<1>1. IdsLess(n) /\ SameRounds(n) /\ (Reads(n) => IdOk(n))
  BY DEF history, SameRounds, IdInv
<1> QED BY <1>1, IdLess

(* How the pipe to a helper changes.                                       *)
LEMMA PipeSame ==
    ASSUME Types, NEW n \in Rank, stdin'[n] = stdin[n]
    PROVE  /\ Fewer(n) /\ (NoOut(n)' <=> NoOut(n))
           /\ (Alive(n)' => Alive(n)) => OutsLess(n)
<1>1. \A i \in DOMAIN stdin[n] : i + 0 = i
  BY DEF Types, PipeTypes
<1> QED BY <1>1 DEF Fewer, IsOut, NoOut, OutsLess

LEMMA PipeRead ==
    ASSUME Types, NEW n \in Rank, NEW c, Reading(n, c), NEW p \in Rank
    PROVE  /\ Fewer(p)
           /\ (Alive(p)' => Alive(p)) => OutsLess(p)
<1>1. CASE p # n
  <2>1. stdin'[p] = stdin[p]
    BY <1>1 DEF Reading
  <2> QED BY <2>1, PipeSame
<1>2. CASE p = n
  <2>1. stdin[n] \in Seq(PlainLine \cup OutLine) /\ stdin[n] # <<>> /\ stdin'[n] = Tail(stdin[n])
    BY DEF Reading, Types, PipeTypes
  <2>2. \A i \in DOMAIN Tail(stdin[n]) : i + 1 \in DOMAIN stdin[n] /\ Tail(stdin[n])[i] = stdin[n][i + 1]
    BY <2>1, TailLines
  <2> QED BY <1>2, <2>1, <2>2 DEF Fewer, OutsLess
<1> QED BY <1>1, <1>2

LEMMA PipePlain ==
    ASSUME Types, NEW n \in Rank, NEW u \in Seq(PlainLine), stdin'[n] = stdin[n] \o u
    PROVE  /\ Fewer(n)
           /\ (Alive(n)' => Alive(n)) => OutsLess(n)
           /\ \A i \in DOMAIN stdin[n] : i \in DOMAIN stdin'[n] /\ stdin'[n][i] = stdin[n][i]
           /\ \A i \in DOMAIN stdin'[n] : i \in DOMAIN stdin[n] \/ \E j \in DOMAIN u : stdin'[n][i] = u[j]
<1>1. stdin[n] \in Seq(PlainLine \cup OutLine) /\ u \in Seq(PlainLine \cup OutLine)
  <2>1. Seq(PlainLine) \subseteq Seq(PlainLine \cup OutLine)
    OBVIOUS
  <2> QED BY <2>1 DEF Types, PipeTypes
<1>2. /\ \A i \in DOMAIN stdin[n] : i \in DOMAIN stdin'[n] /\ stdin'[n][i] = stdin[n][i]
      /\ \A i \in DOMAIN stdin'[n] :
            i \in DOMAIN stdin[n] \/ \E j \in DOMAIN u : stdin'[n][i] = u[j]
  BY <1>1, ConcatLines
<1>3. \A j \in DOMAIN u : u[j] \in PlainLine
  BY ElementOfSeq
<1>4. \A i \in DOMAIN stdin'[n] : IsOut(n, i)' => i \in DOMAIN stdin[n] /\ stdin[n][i] = stdin'[n][i]
  BY <1>2, <1>3 DEF IsOut, PlainLine
<1>5. \A i \in DOMAIN stdin[n] : i + 0 = i
  BY <1>1
<1>6. Fewer(n)
  BY <1>4, <1>5 DEF Fewer
<1> QED BY <1>2, <1>6 DEF OutsLess

LEMMA PipeNew ==
    ASSUME NEW n \in Rank, NEW u \in Seq(PlainLine), stdin'[n] = u
    PROVE  NoOut(n)' /\ OutsLess(n)
<1>1. \A j \in DOMAIN u : u[j] \in PlainLine
  BY ElementOfSeq
<1>2. NoOut(n)'
  BY <1>1 DEF NoOut, IsOut, PlainLine
<1> QED BY <1>2 DEF OutsLess

-----------------------------------------------------------------------------
(***************************************************************************)
(* Every step but the start of the first task finds a task started.        *)
(***************************************************************************)
LEMMA Awake ==
    ASSUME Types, FenceInv
    PROVE  /\ \A m \in net : Receive(m) \/ Lose(m) => Begun
           /\ \A n \in Rank : HelperStep(n) \/ ServiceStep(n) \/ RankStep(n) => Begun
           /\ \A n \in Rank : GiveUp(n) \/ RankDies(n) \/ HelperCrashes(n) => Begun
           /\ CancelJob => Begun
<1> SUFFICES ASSUME ~Begun
             PROVE  /\ \A m \in net : ~Receive(m) /\ ~Lose(m)
                    /\ \A n \in Rank : ~HelperStep(n) /\ ~ServiceStep(n) /\ ~RankStep(n)
                    /\ \A n \in Rank : ~GiveUp(n) /\ ~RankDies(n) /\ ~HelperCrashes(n)
                    /\ ~CancelJob
  OBVIOUS
<1>1. Pristine
  BY DEF FenceInv, TaskInv, Begun
<1>2. \A n \in Rank : /\ rank[n].st = "off" /\ main[n].at = "off" /\ ~helper[n]
                      /\ ~Alive(n) /\ ~Waits(n)
  BY <1>1 DEF Pristine, Alive, Waits, Wait
<1>3. ASSUME NEW n \in Rank PROVE ~HelperStep(n)
  BY <1>2 DEF HelperStep, ReadRegister, LibraryAnswers, ReadContribId, ReadFenceOut, FenceWritten,
              Drain, Finalize, Reading
<1>4. ASSUME NEW n \in Rank PROVE ~ServiceStep(n)
  BY <1>2 DEF ServiceStep, LocalFenceIn, OnRankProcess, PortExit
<1>5. ASSUME NEW n \in Rank PROVE ~RankStep(n)
  BY <1>2 DEF RankStep, Connect, FenceStored, RankEnds
<1>6. ASSUME NEW n \in Rank PROVE ~GiveUp(n) /\ ~RankDies(n) /\ ~HelperCrashes(n)
  BY <1>2 DEF GiveUp, RankDies, HelperCrashes
<1>7. ~CancelJob
  BY DEF CancelJob, Begun, Started
<1> QED BY <1>1, <1>3, <1>4, <1>5, <1>6, <1>7 DEF Pristine

(* The lines in the pipes, and what wm_pmix keeps of the session.          *)
LineInv(n) == \A i \in DOMAIN stdin[n] :
    LineOk(n, stdin[n][i]) /\ (stdin[n][i].cmd = "STOP" => n = 0 /\ Stopped)

LEMMA SessionKept ==
    ASSUME SessionInv, UNCHANGED session, rank[0].st = "off" => rank'[0].st = "off",
           \A n \in Rank : contrib'[n] = contrib[n] \/ contrib'[n] \in {0, n},
           faults # <<>> => faults' # <<>>,
           \A n \in Rank : localIds'[n] = localIds[n] \/ helper[n] \/ localIds'[n] = <<>>,
           \A n \in Rank : main'[n].at = "drain" => main[n].at = "drain",
           \A n \in Rank : \A i \in DOMAIN stdin'[n] :
               \/ \E j \in DOMAIN stdin[n] : stdin[n][j] = stdin'[n][i]
               \/ LineOk(n, stdin'[n][i]) /\ stdin'[n][i].cmd # "STOP"
    PROVE  SessionInv'
<1>1. Stopped => Stopped'
  BY DEF Stopped, session
<1>2. ASSUME NEW n \in Rank PROVE LineInv(n)'
  <2> SUFFICES ASSUME NEW i \in DOMAIN stdin'[n]
               PROVE  /\ LineOk(n, stdin'[n][i])
                      /\ stdin'[n][i].cmd = "STOP" => n = 0 /\ Stopped'
    BY DEF LineInv, LineOk, Data
  <2> QED BY <1>1 DEF SessionInv
<1> QED BY <1>1, <1>2 DEF SessionInv, LineInv, session

NoNewLine(n) == \A i \in DOMAIN stdin'[n] : \E j \in DOMAIN stdin[n] : stdin[n][j] = stdin'[n][i]

LEMMA ReadingLines ==
    ASSUME Types, NEW n \in Rank, NEW c, Reading(n, c)
    PROVE  /\ \A p \in Rank : NoNewLine(p)
           /\ \A p \in Rank \ {n} : stdin'[p] = stdin[p]
           /\ \A i \in DOMAIN stdin[n] :
                 \/ i = 1 /\ stdin[n][i].cmd = c
                 \/ \E j \in DOMAIN stdin'[n] : stdin'[n][j] = stdin[n][i]
<1>1. stdin[n] \in Seq(PlainLine \cup OutLine) /\ stdin[n] # <<>> /\ stdin'[n] = Tail(stdin[n])
  BY DEF Reading, Types, PipeTypes
<1>2. /\ \A i \in DOMAIN Tail(stdin[n]) : i + 1 \in DOMAIN stdin[n] /\ Tail(stdin[n])[i] = stdin[n][i + 1]
      /\ \A i \in DOMAIN stdin[n] : i = 1 \/ i - 1 \in DOMAIN Tail(stdin[n])
      /\ Head(stdin[n]) = stdin[n][1]
  BY <1>1, TailLines
<1>3. \A p \in Rank \ {n} : stdin'[p] = stdin[p]
  BY DEF Reading
<1>4. NoNewLine(n)
  BY <1>1, <1>2 DEF NoNewLine
<1>5. \A i \in DOMAIN stdin[n] : i - 1 \in DOMAIN Tail(stdin[n]) => Tail(stdin[n])[i - 1] = stdin[n][i]
  <2> SUFFICES ASSUME NEW i \in DOMAIN stdin[n], i - 1 \in DOMAIN Tail(stdin[n])
               PROVE  Tail(stdin[n])[i - 1] = stdin[n][i]
    OBVIOUS
  <2>1. i \in Int /\ (i - 1) + 1 = i
    BY <1>1
  <2>2. Tail(stdin[n])[i - 1] = stdin[n][(i - 1) + 1]
    BY <1>2
  <2> QED BY <2>1, <2>2
<1>6. \A p \in Rank : NoNewLine(p)
  BY <1>3, <1>4 DEF NoNewLine
<1>7. stdin[n][1].cmd = c
  BY <1>2 DEF Reading
<1>8. \A i \in DOMAIN stdin[n] :
          \/ i = 1 /\ stdin[n][i].cmd = c
          \/ \E j \in DOMAIN stdin'[n] : stdin'[n][j] = stdin[n][i]
  BY <1>1, <1>2, <1>5, <1>7
<1> QED BY <1>3, <1>6, <1>8

(* No call, result or FENCE_OUT has come.                                  *)
LEMMA Lesser ==
    ASSUME Types, Types', FenceInv, UNCHANGED history, Kept, CallsLess, Less("result"),
           \A n \in Rank : OutsLess(n) /\ (Reads(n)' => IdsLess(n))
    PROVE  /\ CallInv' /\ RoundInv' /\ ResultInv' /\ IdInv'
           /\ \A c \in Calls : Live(c)' => Live(c)
<1>1. CallInv' /\ \A c \in Calls : Live(c)' => Live(c)
  BY CallLess DEF FenceInv, history
<1>2. RoundInv'
  BY <1>1, RoundLess DEF FenceInv
<1>3. ResultInv'
  BY ResultLess DEF FenceInv, history
<1>4. IdInv'
  BY IdKept DEF FenceInv
<1> QED BY <1>1, <1>2, <1>3, <1>4

LEMMA CalmLess ==
    ASSUME Types, Types', CalmOk, \A c \in Calls : Live(c)' => Live(c), Less("result"),
           \A n \in Rank : rank[n].st = "fence" => rank'[n].st = "fence",
           \A n \in Rank : Alive(n)' /\ DOMAIN pending'[n] # {} => Alive(n) /\ DOMAIN pending[n] # {}
    PROVE  CalmOk'
<1>1. \A c \in Calls : c.rank \in Rank
  BY DEF Calls
<1>2. \A m \in net' : m.type = "result" => m.to \in Rank
  BY DEF Types, NetTypes, StartMsg, ContribMsg, ResultMsg, DoneMsg
<1> QED BY <1>1, <1>2 DEF CalmOk, Less

LEMMA ReportsSame ==
    ASSUME Types, Types', ReportsOk, Kept, UNCHANGED tasks, Less("start"), Less("done"),
           \A n \in Rank : rank[n].st = "off" => rank'[n].st = "off",
           \A r \in Rank : Owes(r)' = Owes(r)
    PROVE  ReportsOk'
<1>1. Reported' = Reported
  BY DEF Reported
<1>2. \A t : Current(t)' = Current(t)
  BY SameCurrent
<1>3. \A m \in net' : m.type = "done" => m.from \in Rank
  BY DEF Types, NetTypes, StartMsg, ContribMsg, ResultMsg, DoneMsg
<1>4. \A m \in net' : m.type = "done" =>
          /\ Current(m.task)' /\ rank'[m.from].st = "off"
          /\ \A x \in net' : x.type = "done" /\ x.from = m.from => x = m
          /\ \A x \in net' : x.type = "start" => x.to # m.from
  BY <1>2, <1>3 DEF ReportsOk, Less
<1>5. \A t \in Task : Current(t)' => /\ tasks'[t].done = Cardinality(Reported')
                                     /\ tasks'[t].st = "ended" => Reported' = Rank
  BY <1>1, <1>2 DEF ReportsOk
<1> QED BY <1>4, <1>5 DEF ReportsOk

LEMMA OwesSame ==
    ASSUME \A n \in Rank : rank'[n].st = "off" <=> rank[n].st = "off",
           \A m \in net' \cup net : m.type \in {"start", "done"} => m \in net /\ m \in net'
    PROVE  \A r \in Rank : Owes(r)' = Owes(r)
BY DEF Owes

LEMMA RegistersSame ==
    ASSUME NEW n \in Rank, Registers(n), rank'[n] = rank[n], helper'[n] = helper[n],
           main'[n] = main[n], ops'[n] = ops[n], clients'[n] = clients[n],
           UNCHANGED <<contTask, replyTo>>,
           \A i \in DOMAIN stdin[n] :
               stdin[n][i].cmd # "REGISTER" \/ \E j \in DOMAIN stdin'[n] : stdin'[n][j] = stdin[n][i]
    PROVE  Registers(n)'
BY DEF Registers

-----------------------------------------------------------------------------
(***************************************************************************)
(* The main thread of the helper.                                          *)
(***************************************************************************)
LEMMA MainStep ==
    ASSUME Types, Types', FenceInv, Begun,
           UNCHANGED <<pending, storing, stdout, session, round, book, net, rank, history>>,
           \A p \in Rank : /\ Alive(p)' = Alive(p)
                           /\ (main'[p].at = "drain") = (main[p].at = "drain")
                           /\ contrib'[p] = contrib[p] \/ contrib'[p] \in {0, p}
                           /\ Fewer(p) /\ NoNewLine(p),
           faults # <<>> => faults' # <<>>,
           faults' = <<>> => \A p \in Rank : Registers(p)'
    PROVE  FenceInv'
<1>1. Kept /\ \A k : Less(k)
  BY TasksKept DEF Less, book
<1>2. TaskInv'
  BY <1>1, TaskKept DEF FenceInv, book, history
<1>3. SessionInv'
  BY SessionKept DEF FenceInv, round, NoNewLine
<1>4. RankInv'
  BY <1>1, RankKept DEF FenceInv
<1>5. CallsLess /\ \A p \in Rank : OutsLess(p) /\ IdsLess(p)
  BY <1>1 DEF CallsLess, round, OutsLess, IdsLess, Reads
<1>6. CallInv' /\ RoundInv' /\ ResultInv' /\ IdInv' /\ \A c \in Calls : Live(c)' => Live(c)
  BY <1>1, <1>5, Lesser
<1>7. ASSUME faults' = <<>> PROVE ReportsOk' /\ CalmOk'
  <2>1. ReportsOk /\ CalmOk
    BY <1>7 DEF FenceInv, QuietInv
  <2>2. \A r \in Rank : Owes(r)' = Owes(r)
    BY OwesSame
  <2>3. ReportsOk'
    BY <1>1, <2>1, <2>2, ReportsSame DEF book
  <2> QED BY <1>1, <1>6, <2>1, <2>3, CalmLess
<1> QED BY <1>2, <1>3, <1>4, <1>6, <1>7 DEF FenceInv, QuietInv

LEMMA HeadLine ==
    ASSUME Types, SessionInv, NEW n \in Rank, NEW c, Reading(n, c)
    PROVE  /\ LineOk(n, Head(stdin[n])) /\ (c = "STOP" => n = 0 /\ Stopped)
           /\ Head(stdin[n]) = stdin[n][1] /\ 1 \in DOMAIN stdin[n] /\ stdin[n][1].cmd = c
<1>1. stdin[n] \in Seq(PlainLine \cup OutLine) /\ stdin[n] # <<>> /\ Head(stdin[n]).cmd = c
  BY DEF Reading, Types, PipeTypes
<1>2. 1 \in DOMAIN stdin[n] /\ Head(stdin[n]) = stdin[n][1]
  BY <1>1, TailLines
<1> QED BY <1>1, <1>2 DEF SessionInv

(* Of the others nothing changes when node n takes a line.                 *)
LEMMA OthersRegister ==
    ASSUME Types, FenceInv, faults = <<>>, NEW n \in Rank, NEW c, Reading(n, c),
           UNCHANGED <<helper, rank, contTask, replyTo>>,
           \A p \in Rank \ {n} : main'[p] = main[p] /\ ops'[p] = ops[p] /\ clients'[p] = clients[p]
    PROVE  \A p \in Rank \ {n} : Registers(p)'
<1>1. \A p \in Rank \ {n} : stdin'[p] = stdin[p]
  BY ReadingLines
<1>2. \A p \in Rank : Registers(p)
  BY DEF FenceInv, QuietInv
<1> QED BY <1>1, <1>2, RegistersSame

LEMMA ReadRegisterFence ==
    ASSUME Types, Types', FenceInv, Begun, NEW n \in Rank, ReadRegister(n)
    PROVE  FenceInv'
<1> DEFINE at == IF registered[n] THEN "dereg" ELSE "nspace"
<1>1. Reading(n, "REGISTER")
  BY DEF ReadRegister
<1>2. Head(stdin[n]).rank = n
  BY <1>1, HeadLine DEF FenceInv, LineOk, Reading
<1>3. /\ main' = [main EXCEPT ![n] = [at |-> at, rank |-> n]]
      /\ ops' = [ops EXCEPT ![n] = Append(ops[n], [op |-> at, rank |-> n])]
  BY <1>2 DEF ReadRegister, Ask
<1>4. /\ main'[n] = [at |-> at, rank |-> n] /\ ops'[n] = Append(ops[n], [op |-> at, rank |-> n])
      /\ \A p \in Rank \ {n} : main'[p] = main[p] /\ ops'[p] = ops[p]
  BY <1>3 DEF Types, ProcessTypes
<1>5. main[n].at = "read" /\ at \in Wait
  BY <1>1 DEF Reading, Wait
<1>6. \A p \in Rank : /\ Alive(p)' = Alive(p)
                      /\ (main'[p].at = "drain") = (main[p].at = "drain")
                      /\ Fewer(p) /\ NoNewLine(p)
  BY <1>1, <1>4, <1>5, PipeRead, ReadingLines DEF Alive, Wait
<1>7. ASSUME faults' = <<>> PROVE \A p \in Rank : Registers(p)'
  <2>1. faults = <<>>
    BY <1>7 DEF ReadRegister
  <2>2. \A p \in Rank \ {n} : Registers(p)'
    BY <1>1, <1>4, <2>1, OthersRegister DEF ReadRegister, session, book
  <2>3. Registers(n)
    BY <2>1 DEF FenceInv, QuietInv
  <2>4. ops[n] = <<>> /\ helper[n]
    BY <1>5, <2>3 DEF Registers
  <2>5. main'[n].at \in Wait /\ main'[n].rank = n /\ main'[n].at = at
    BY <1>4, <1>5
  <2>6. ops'[n] = <<[op |-> main'[n].at, rank |-> n]>>
    BY <1>4, <2>4, <2>5
  <2>7. UNCHANGED <<helper, rank, contTask, replyTo>>
    BY DEF ReadRegister, session, book
  <2>8. main'[n].at # "read" /\ main'[n].at \in Wait \cup {"read"}
    BY <2>5 DEF Wait
  <2>9. Registers(n)'
    BY <2>3, <2>4, <2>5, <2>6, <2>7, <2>8 DEF Registers
  <2> QED BY <2>2, <2>9
<1>8. /\ UNCHANGED <<pending, storing, stdout, session, round, book, net, rank, history>>
      /\ contrib' = contrib /\ faults' = faults
  BY DEF ReadRegister
<1> QED BY <1>6, <1>7, <1>8, MainStep

LEMMA ReadContribIdFence ==
    ASSUME Types, Types', FenceInv, Begun, NEW n \in Rank, ReadContribId(n)
    PROVE  FenceInv'
<1>1. Reading(n, "CONTRIB_ID")
  BY DEF ReadContribId
<1>2. Head(stdin[n]).rank = n
  BY <1>1, HeadLine DEF FenceInv, LineOk, Reading
<1>3. \A p \in Rank : contrib'[p] = contrib[p] \/ contrib'[p] \in {0, p}
  BY <1>2 DEF ReadContribId, Types, ProcessTypes
<1>4. \A p \in Rank : Fewer(p) /\ NoNewLine(p)
  BY <1>1, PipeRead, ReadingLines
<1>5. ASSUME faults' = <<>> PROVE \A p \in Rank : Registers(p)'
  <2>1. faults = <<>>
    BY <1>5 DEF ReadContribId
  <2>2. \A p \in Rank \ {n} : Registers(p)'
    BY <1>1, <2>1, OthersRegister DEF ReadContribId, session, book
  <2>3. Registers(n)
    BY <2>1 DEF FenceInv, QuietInv
  <2>4. \A i \in DOMAIN stdin[n] :
            stdin[n][i].cmd # "REGISTER" \/ \E j \in DOMAIN stdin'[n] : stdin'[n][j] = stdin[n][i]
    BY <1>1, ReadingLines
  <2>5. Registers(n)'
    BY <2>3, <2>4, RegistersSame DEF ReadContribId, session, book
  <2> QED BY <2>2, <2>5
<1>6. /\ UNCHANGED <<pending, storing, stdout, session, round, book, net, rank, history>>
      /\ main' = main /\ faults' = faults
  BY DEF ReadContribId
<1>7. \A p \in Rank : Alive(p)' = Alive(p) /\ (main'[p].at = "drain") = (main[p].at = "drain")
  BY <1>6 DEF Alive
<1> QED BY <1>3, <1>4, <1>5, <1>6, <1>7, MainStep

LEMMA ProceedMain ==
    ASSUME Types, NEW n \in Rank, NEW ok, NEW rest, Waits(n), Proceed(n, ok, rest)
    PROVE  \A p \in Rank : Alive(p)' = Alive(p) /\ (main'[p].at = "drain") = (main[p].at = "drain")
<1>1. \A p \in Rank \ {n} : main'[p] = main[p]
  BY DEF Proceed
<1>2. main[n].at \in Wait
  BY DEF Waits
<1>3. main'[n].at \in Wait \cup {"read"}
  BY <1>2 DEF Proceed, Types, ProcessTypes, Wait
<1> QED BY <1>1, <1>2, <1>3 DEF Alive, Wait

LEMMA SamePipes ==
    ASSUME Types, stdin' = stdin
    PROVE  \A p \in Rank : Fewer(p) /\ NoNewLine(p)
BY PipeSame DEF NoNewLine

(* Without a fault the library answers what the main thread waits for.     *)
LEMMA LibraryAnswersFence ==
    ASSUME Types, Types', FenceInv, Begun, NEW n \in Rank, LibraryAnswers(n)
    PROVE  FenceInv'
<1>1. \A p \in Rank : Alive(p)' = Alive(p) /\ (main'[p].at = "drain") = (main[p].at = "drain")
  <2>1. CASE main' = main
    BY <2>1 DEF Alive
  <2>2. CASE Waits(n) /\ \E rest : Proceed(n, TRUE, rest)
    BY <2>2, ProceedMain
  <2> QED BY <2>1, <2>2 DEF LibraryAnswers, Awaited
<1>2. \A p \in Rank : Fewer(p) /\ NoNewLine(p)
  BY SamePipes DEF LibraryAnswers, pipes
<1>3. /\ UNCHANGED <<pending, storing, stdin, stdout, session, round, book, net, rank, history>>
      /\ contrib' = contrib /\ faults' = faults
  BY DEF LibraryAnswers, pipes
<1>4. ASSUME faults' = <<>> PROVE \A p \in Rank : Registers(p)'
  <2>1. \A p \in Rank : Registers(p)
    BY <1>3, <1>4 DEF FenceInv, QuietInv
  <2>2. main[n].at \in Wait \cup {"read"} /\ ops[n] # <<>>
    BY <2>1 DEF LibraryAnswers, Alive, Registers
  <2>3. main[n].at \in Wait /\ helper[n]
    BY <2>1, <2>2 DEF Registers, LibraryAnswers, Alive
  <2> DEFINE at == main[n].at
  <2>4. ops[n] = <<[op |-> at, rank |-> n]>> /\ main[n].rank = n
    BY <2>1, <2>3 DEF Registers
  <2>5. Len(ops[n]) = 1 /\ Head(ops[n]) = [op |-> at, rank |-> n]
    BY <2>4
  <2>6. Awaited(n) /\ Proceed(n, TRUE, <<>>)
    BY <2>3, <2>5 DEF Awaited, Waits, LibraryAnswers
  <2>7. clients'[n] = Known(clients[n], [op |-> at, rank |-> n])
    BY <2>5 DEF LibraryAnswers, Types, ProcessTypes
  <2> DEFINE next == CASE at = "dereg" -> "nspace" [] at = "nspace" -> "app"
                       [] at = "app" -> "client" [] at = "client" -> "read"
  <2>8. /\ main' = [main EXCEPT ![n] = [at |-> next, rank |-> n]]
        /\ ops' = [ops EXCEPT ![n] = IF next = "read" THEN <<>>
                                     ELSE Append(<<>>, [op |-> next, rank |-> n])]
    BY <2>4, <2>6 DEF Proceed
  <2>9. /\ main'[n] = [at |-> next, rank |-> n]
        /\ ops'[n] = IF next = "read" THEN <<>> ELSE <<[op |-> next, rank |-> n]>>
        /\ \A p \in Rank \ {n} : main'[p] = main[p] /\ ops'[p] = ops[p] /\ clients'[p] = clients[p]
    <3>1. Append(<<>>, [op |-> next, rank |-> n]) = <<[op |-> next, rank |-> n]>>
      OBVIOUS
    <3>2. main'[n] = [at |-> next, rank |-> n] /\ \A p \in Rank \ {n} : main'[p] = main[p]
      BY <2>8 DEF Types, ProcessTypes
    <3> HIDE DEF next
    <3>3. /\ ops'[n] = IF next = "read" THEN <<>> ELSE <<[op |-> next, rank |-> n]>>
          /\ \A p \in Rank \ {n} : ops'[p] = ops[p]
      BY <2>8, <3>1 DEF Types, ProcessTypes
    <3>4. \A p \in Rank \ {n} : clients'[p] = clients[p]
      BY DEF LibraryAnswers, Types, ProcessTypes
    <3> QED BY <3>2, <3>3, <3>4
  <2>10. UNCHANGED <<stdin, helper, rank, contTask, replyTo>>
    BY <1>3 DEF session, book
  <2>13. \A p \in Rank \ {n} : Registers(p)'
    BY <2>1, <2>9, <2>10, RegistersSame
  <2>11. CASE at = "client"
    <3>1. main'[n].at = "read" /\ ops'[n] = <<>> /\ n \in clients'[n]
      BY <2>7, <2>9, <2>11 DEF Known
    <3>2. "read" \notin Wait
      BY DEF Wait
    <3>3. Registers(n)'
      BY <2>1, <2>3, <2>10, <3>1, <3>2 DEF Registers
    <3> QED BY <2>13, <3>3
  <2>12. CASE at # "client"
    <3>1. main'[n].at \in Wait /\ main'[n].rank = n /\ ops'[n] = <<[op |-> main'[n].at, rank |-> n]>>
      BY <2>3, <2>9, <2>12 DEF Wait
    <3>2. main'[n].at # "read"
      BY <3>1 DEF Wait
    <3>3. Registers(n)'
      BY <2>1, <2>3, <2>10, <3>1, <3>2 DEF Registers
    <3> QED BY <2>13, <3>3
  <2> QED BY <2>11, <2>12
<1> QED BY <1>1, <1>2, <1>3, <1>4, MainStep

LEMMA GiveUpFence ==
    ASSUME Types, Types', FenceInv, Begun, NEW n \in Rank, GiveUp(n)
    PROVE  FenceInv'
<1>1. \A p \in Rank : Alive(p)' = Alive(p) /\ (main'[p].at = "drain") = (main[p].at = "drain")
  BY ProceedMain DEF GiveUp
<1>2. \A p \in Rank : Fewer(p) /\ NoNewLine(p)
  BY SamePipes DEF GiveUp, pipes
<1>3. /\ UNCHANGED <<pending, storing, stdin, stdout, session, round, book, net, rank, history>>
      /\ contrib' = contrib
  BY DEF GiveUp, pipes
<1>4. faults' # <<>>
  BY SpendFaults DEF GiveUp, Types
<1> QED BY <1>1, <1>2, <1>3, <1>4, MainStep

-----------------------------------------------------------------------------
(***************************************************************************)
(* The ranks.                                                              *)
(***************************************************************************)
LEMMA SameIds ==
    ASSUME Types, UNCHANGED <<process, pipes, localIds>>
    PROVE  \A p \in Rank : OutsLess(p) /\ IdsLess(p) /\ NoNewLine(p) /\ Alive(p)' = Alive(p)
<1>1. \A p \in Rank : Fewer(p) /\ NoNewLine(p)
  BY SamePipes DEF pipes
<1>2. \A p \in Rank : Alive(p)' = Alive(p) /\ Reads(p)' = Reads(p)
  BY DEF process, Alive, Reads
<1> QED BY <1>1, <1>2 DEF OutsLess, IdsLess, process, pipes

LEMMA RankAtNode ==
    ASSUME Types, FenceInv, NEW r \in Rank, rank[r].st # "off",
           NEW s \in {"ready", "over", "failed"}, rank' = [rank EXCEPT ![r].st = s],
           s = "ready" => rank[r].st = "up", UNCHANGED <<tasks, net, history>>
    PROVE  RankInv'
<1>1. Kept /\ Less("start")
  BY TasksKept DEF Less
<1>2. \A p \in Rank \ {r} : AtRank(p)' /\ AtStart(p)' /\ Answers(p)'
  <2>1. \A p \in Rank \ {r} : rank'[p] = rank[p]
    BY DEF Types, RankTypes
  <2> QED BY <1>1, <2>1, RankSame DEF FenceInv, history
<1>3. /\ rank'[r].st = s /\ rank'[r].k = rank[r].k /\ rank'[r].task = rank[r].task
  BY DEF Types, RankTypes, RankState
<1>4. AtRank(r) /\ AtStart(r) /\ Answers(r)
  BY DEF FenceInv, RankInv
<1>5. AtRank(r)'
  <2>1. (Current(rank[r].task) /\ rank[r].k = entered[rank[r].task][r])'
    BY <1>1, <1>3, <1>4, SameCurrent DEF AtRank, history
  <2>2. s = "ready" => rank'[r].k = 0
    BY <1>3, <1>4 DEF AtRank
  <2> QED BY <1>3, <2>1, <2>2 DEF AtRank
<1>6. AtStart(r)' /\ Answers(r)'
  BY <1>4 DEF AtStart, Answers, history
<1> QED BY <1>2, <1>5, <1>6 DEF RankInv

LEMMA RankOnly ==
    ASSUME Types, Types', FenceInv, Begun, NEW r \in Rank, rank[r].st # "off",
           NEW s \in {"ready", "over", "failed"}, rank' = [rank EXCEPT ![r].st = s],
           s = "ready" => rank[r].st = "up",
           UNCHANGED <<process, pipes, session, round, book, net, history>>,
           faults # <<>> => faults' # <<>>,
           faults' = <<>> => s # "failed" /\ rank[r].st # "fence"
    PROVE  FenceInv'
<1>1. Kept /\ \A k : Less(k)
  BY TasksKept DEF Less, book
<1>2. /\ \A p \in Rank \ {r} : rank'[p] = rank[p]
      /\ rank'[r].st = s /\ rank'[r].k = rank[r].k /\ rank'[r].task = rank[r].task
  BY DEF Types, RankTypes, RankState
<1>3. TaskInv'
  BY <1>1, TaskKept DEF FenceInv, book, history
<1>4. \A p \in Rank : OutsLess(p) /\ IdsLess(p) /\ NoNewLine(p) /\ Alive(p)' = Alive(p)
  BY SameIds DEF round
<1>5. SessionInv'
  <2>1. rank[0].st = "off" => rank'[0].st = "off"
    BY <1>2, Constants
  <2> QED BY <1>4, <2>1, SessionKept DEF FenceInv, round, process, NoNewLine
<1>6. RankInv'
  BY RankAtNode DEF book
<1>7. CallsLess
  BY <1>1 DEF CallsLess, process, pipes, round
<1>8. CallInv' /\ RoundInv' /\ ResultInv' /\ IdInv' /\ \A c \in Calls : Live(c)' => Live(c)
  BY <1>1, <1>4, <1>7, Lesser
<1>9. ASSUME faults' = <<>> PROVE (\A n \in Rank : Registers(n)') /\ ReportsOk' /\ CalmOk'
  <2>1. faults = <<>>
    BY <1>9
  <2>2. \A n \in Rank : Registers(n)
    BY <2>1 DEF FenceInv, QuietInv
  <2>3. \A n \in Rank : (rank'[n].st = "off") <=> (rank[n].st = "off")
    BY <1>2
  <2>4. UNCHANGED <<main, ops, clients, stdin, helper, contTask, replyTo>>
    BY DEF process, pipes, session, book
  <2>5. \A n \in Rank : Registers(n)'
    <3>1. \A n \in Rank \ {r} : Registers(n)'
      BY <1>2, <2>2, <2>4, RegistersSame
    <3>2. Registers(r)'
      BY <1>2, <1>9, <2>2, <2>4 DEF Registers
    <3> QED BY <3>1, <3>2
  <2>6. ReportsOk'
    <3>1. \A p \in Rank : Owes(p)' = Owes(p)
      BY <2>3, OwesSame
    <3> QED BY <1>1, <2>1, <2>3, <3>1, ReportsSame DEF FenceInv, QuietInv, book
  <2>7. CalmOk'
    <3>1. \A n \in Rank : rank[n].st = "fence" => rank'[n].st = "fence"
      BY <1>2, <1>9
    <3>2. CalmOk
      BY <2>1 DEF FenceInv, QuietInv
    <3> QED BY <1>1, <1>4, <1>8, <3>1, <3>2, CalmLess DEF process
  <2> QED BY <2>5, <2>6, <2>7
<1> QED BY <1>3, <1>5, <1>6, <1>8, <1>9 DEF FenceInv, QuietInv

(* Without a fault a rank connects to a helper that has read its REGISTER. *)
LEMMA ConnectFence ==
    ASSUME Types, Types', FenceInv, Begun, NEW r \in Rank, Connect(r)
    PROVE  FenceInv'
<1> DEFINE s == IF Alive(r) /\ r \in clients[r] THEN "ready" ELSE "failed"
<1>1. /\ rank[r].st = "up" /\ rank' = [rank EXCEPT ![r].st = s]
      /\ UNCHANGED <<process, pipes, session, round, book, net, history>>
  BY DEF Connect
<1>2. faults # <<>> => faults' # <<>>
  BY SpendFaults DEF Connect, Types
<1>3. ASSUME faults' = <<>> PROVE s # "failed"
  <2>1. faults = <<>> /\ (Settled(r) \/ ~Alive(r))
    <3>1. CASE Settled(r) \/ ~Alive(r)
      BY <1>2, <1>3, <3>1
    <3>2. CASE ~(Settled(r) \/ ~Alive(r))
      <4>1. Spend("slow")
        BY <3>2 DEF Connect
      <4> QED BY <1>3, <4>1, SpendFaults DEF Types
    <3> QED BY <3>1, <3>2
  <2>2. Registers(r)
    BY <2>1 DEF FenceInv, QuietInv
  <2>3. main[r].at \in Wait \cup {"read"}
    BY <1>1, <2>2 DEF Registers
  <2>4. Alive(r) /\ Settled(r)
    BY <2>1, <2>3 DEF Alive, Wait
  <2>5. r \in clients[r]
    BY <2>2, <2>4 DEF Registers, Settled
  <2> QED BY <2>4, <2>5
<1> HIDE DEF s
<1>4. s \in {"ready", "over", "failed"}
  BY DEF s
<1> QED BY <1>1, <1>2, <1>3, <1>4, RankOnly

LEMMA RankEndsFence ==
    ASSUME Types, Types', FenceInv, Begun, NEW r \in Rank, RankEnds(r) \/ RankDies(r)
    PROVE  FenceInv'
<1> USE DEF RankEnds, RankDies
<1>1. CASE RankEnds(r) /\ rank[r].st = "ready" /\ rank' = [rank EXCEPT ![r].st = "over"]
  <2> DEFINE s == "over"
  <2>1. s \in {"ready", "over", "failed"} /\ s # "ready" /\ s # "failed"
    OBVIOUS
  <2> QED BY <1>1, <2>1, RankOnly
<1> DEFINE s == "failed"
<1>2. s \in {"ready", "over", "failed"} /\ s # "ready"
  OBVIOUS
<1>3. CASE /\ RankEnds(r) /\ ~Alive(r) /\ rank[r].st \in {"ready", "fence"}
           /\ rank' = [rank EXCEPT ![r].st = s]
  <2>1. ASSUME faults = <<>> PROVE FALSE
    <3>1. Registers(r)
      BY <2>1 DEF FenceInv, QuietInv
    <3> QED BY <1>3, <3>1 DEF Registers, Alive, Wait
  <2> QED BY <1>2, <1>3, <2>1, RankOnly
<1>4. CASE RankDies(r)
  <2>1. faults' # <<>>
    BY <1>4, SpendFaults DEF Types
  <2> QED BY <1>2, <1>4, <2>1, RankOnly
<1> QED BY <1>1, <1>3, <1>4

-----------------------------------------------------------------------------
(***************************************************************************)
(* The end of a helper, and what is lost.                                  *)
(***************************************************************************)
LEMMA GoneFence ==
    ASSUME Types, Types', FenceInv, Begun, NEW n \in Rank, Gone(n), faults' # <<>>
    PROVE  FenceInv'
<1>1. Kept /\ \A k : Less(k)
  BY TasksKept DEF Less, Gone, book
<1>2. /\ main'[n].at = "gone" /\ storing'[n] = <<>> /\ stdin'[n] = <<>>
      /\ \A p \in Rank \ {n} : /\ main'[p] = main[p] /\ storing'[p] = storing[p]
                               /\ stdin'[p] = stdin[p] /\ pending'[p] = pending[p]
  BY DEF Gone, Types, ProcessTypes, PipeTypes
<1>3. /\ UNCHANGED <<contrib, stdout, session, round, book, net, rank, history>>
  BY DEF Gone
<1>4. TaskInv'
  BY <1>1, <1>3, TaskKept DEF FenceInv, book, history
<1>5. SessionInv'
  <2>1. \A p \in Rank : NoNewLine(p)
    BY <1>2 DEF NoNewLine
  <2> QED BY <1>2, <1>3, <2>1, SessionKept DEF FenceInv, round, NoNewLine
<1>6. RankInv'
  BY <1>1, <1>3, RankKept DEF FenceInv
<1>7. ~Alive(n)' /\ ~Reads(n)'
  BY <1>2 DEF Alive, Reads
<1>8. ASSUME NEW p \in Rank PROVE OutsLess(p) /\ (Reads(p)' => IdsLess(p))
  <2>1. CASE p = n
    BY <1>7, <2>1 DEF OutsLess
  <2>2. CASE p # n
    <3>1. Fewer(p) /\ main'[p] = main[p]
      BY <1>2, <2>2, PipeSame
    <3> QED BY <1>2, <1>3, <2>2, <3>1 DEF OutsLess, IdsLess, Alive, Reads, round
  <2> QED BY <2>1, <2>2
<1>9. CallsLess
  BY <1>1, <1>2, <1>3 DEF CallsLess, round
<1>10. CallInv' /\ RoundInv' /\ ResultInv' /\ IdInv'
  BY <1>1, <1>3, <1>8, <1>9, Lesser
<1> QED BY <1>4, <1>5, <1>6, <1>10 DEF FenceInv, QuietInv

LEMMA EndFence ==
    ASSUME Types, Types', FenceInv, Begun, NEW n \in Rank, Finalize(n) \/ HelperCrashes(n)
    PROVE  FenceInv'
<1>1. CASE Finalize(n)
  <2>1. faults # <<>> /\ UNCHANGED faults
    BY <1>1 DEF Finalize, FenceInv, SessionInv, Stopped
  <2> QED BY <1>1, <2>1, GoneFence DEF Finalize
<1>2. CASE HelperCrashes(n)
  <2>1. faults' # <<>>
    BY <1>2, SpendFaults DEF HelperCrashes, Types
  <2> QED BY <1>2, <2>1, GoneFence DEF HelperCrashes
<1> QED BY <1>1, <1>2

LEMMA LoseFence ==
    ASSUME Types, Types', FenceInv, Begun, NEW m \in net, Lose(m)
    PROVE  FenceInv'
<1>1. /\ UNCHANGED <<process, pipes, session, round, book, rank, history>>
      /\ net' \subseteq net
  BY DEF Lose
<1>2. Kept /\ \A k : Less(k)
  BY <1>1, TasksKept, NetLess DEF book
<1>3. faults' # <<>>
  <2>1. Spend("loss")
    BY DEF Lose
  <2> QED BY <2>1, SpendFaults DEF Types
<1>4. TaskInv'
  BY <1>1, <1>2, TaskKept DEF FenceInv, book, history
<1>5. \A p \in Rank : OutsLess(p) /\ IdsLess(p) /\ NoNewLine(p) /\ Alive(p)' = Alive(p)
  BY <1>1, SameIds DEF round
<1>6. SessionInv'
  BY <1>1, <1>3, <1>5, SessionKept DEF FenceInv, round, process, NoNewLine
<1>7. RankInv'
  BY <1>1, <1>2, RankKept DEF FenceInv
<1>8. CallsLess
  BY <1>1, <1>2 DEF CallsLess, process, pipes, round
<1>9. CallInv' /\ RoundInv' /\ ResultInv' /\ IdInv'
  BY <1>1, <1>2, <1>5, <1>8, Lesser
<1> QED BY <1>3, <1>4, <1>6, <1>7, <1>9 DEF FenceInv, QuietInv

(* The session of node n is over: there was a fault before.                *)
LEMMA PortExitFence ==
    ASSUME Types, Types', FenceInv, Begun, NEW n \in Rank, PortExit(n)
    PROVE  FenceInv'
<1>1. /\ UNCHANGED <<process, pipes, book, net, rank, history, faults>>
      /\ helper[n] /\ main[n].at = "gone"
  BY DEF PortExit
<1>2. /\ helper' = [helper EXCEPT ![n] = FALSE] /\ follows' = [follows EXCEPT ![n] = FALSE]
      /\ expected' = [expected EXCEPT ![n] = 0] /\ localIds' = [localIds EXCEPT ![n] = <<>>]
      /\ arrived' \in {arrived, <<>>} /\ peers' = (peers /\ n # 0)
  BY DEF PortExit, Forget
<1>3. /\ ~helper'[n] /\ ~follows'[n] /\ expected'[n] = 0 /\ localIds'[n] = <<>>
      /\ \A p \in Rank \ {n} : /\ helper'[p] = helper[p] /\ follows'[p] = follows[p]
                               /\ expected'[p] = expected[p] /\ localIds'[p] = localIds[p]
  BY <1>2 DEF Types, SessionTypes, RoundTypes
<1>4. Kept /\ \A k : Less(k)
  BY <1>1, TasksKept DEF Less, book
<1>5. faults' # <<>>
  <2>1. ASSUME faults = <<>> PROVE FALSE
    <3>1. Registers(n)
      BY <2>1 DEF FenceInv, QuietInv
    <3> QED BY <1>1, <3>1 DEF Registers, Wait
  <2> QED BY <1>1, <2>1
<1>6. TaskInv'
  BY <1>1, <1>4, TaskKept DEF FenceInv, book, history
<1>7. SessionInv'
  <2>1. Stopped => Stopped'
    BY <1>1, <1>3, Constants DEF Stopped
  <2>2. ASSUME NEW p \in Rank PROVE LineInv(p)'
    BY <1>1, <2>1 DEF LineInv, LineOk, FenceInv, SessionInv, pipes, Data
  <2>3. \A p \in Rank : main'[p].at = "drain" => p = 0 /\ Stopped'
    BY <1>1, <2>1 DEF FenceInv, SessionInv, process
  <2>4. expected'[0] = 0 => ~helper'[0] /\ ~peers'
    BY <1>2, <1>3, Constants DEF FenceInv, SessionInv
  <2>5. \A p \in Rank : (~helper'[p] => localIds'[p] = <<>>) /\ contrib'[p] \in {0, p}
    BY <1>1, <1>3 DEF FenceInv, SessionInv, process
  <2>6. ~follows'[0] /\ \A p \in Rank \ {0} : helper'[p] => follows'[p]
    BY <1>3, Constants DEF FenceInv, SessionInv
  <2> QED BY <2>2, <2>3, <2>4, <2>5, <2>6 DEF SessionInv, LineInv
<1>8. RankInv'
  BY <1>1, <1>4, RankKept DEF FenceInv
<1>9. \A p \in Rank : OutsLess(p) /\ IdsLess(p)
  <2>1. \A p \in Rank : Fewer(p)
    BY <1>1, SamePipes DEF pipes
  <2>2. \A p \in Rank : Alive(p)' = Alive(p) /\ Reads(p)' = Reads(p)
    BY <1>1 DEF process, Alive, Reads
  <2> QED BY <1>1, <1>3, <2>1, <2>2 DEF OutsLess, IdsLess, process, pipes
<1>10. CallsLess
  BY <1>1, <1>2, <1>4 DEF CallsLess, process, pipes
<1>11. CallInv' /\ RoundInv' /\ ResultInv' /\ IdInv'
  BY <1>1, <1>4, <1>9, <1>10, Lesser
<1> QED BY <1>5, <1>6, <1>7, <1>8, <1>11 DEF FenceInv, QuietInv

LEMMA StopLine == Stop \in PlainLine /\ <<Stop>> \in Seq(PlainLine) /\ Stop.cmd = "STOP"
BY Constants DEF Stop, Line, PlainLine

LEMMA CancelJobFence ==
    ASSUME Types, Types', FenceInv, Begun, CancelJob
    PROVE  FenceInv'
<1>1. /\ UNCHANGED <<process, contTask, replyTo, net, history>>
      /\ rank' = [rank EXCEPT ![0] = Idle] /\ stdout' = [stdout EXCEPT ![0] = <<>>]
      /\ stdin' = [stdin EXCEPT ![0] = IF helper[0] THEN Append(stdin[0], Stop) ELSE stdin[0]]
      /\ helper' = [helper EXCEPT ![0] = FALSE] /\ follows' = [follows EXCEPT ![0] = FALSE]
      /\ expected' = [expected EXCEPT ![0] = 0] /\ localIds' = [localIds EXCEPT ![0] = <<>>]
      /\ arrived' = <<>> /\ ~peers'
  BY DEF CancelJob, Forget
<1>2. faults' # <<>>
  <2>1. Spend("cancel")
    BY DEF CancelJob
  <2> QED BY <2>1, SpendFaults DEF Types
<1>3. /\ ~helper'[0] /\ ~follows'[0] /\ expected'[0] = 0 /\ localIds'[0] = <<>>
      /\ rank'[0] = Idle /\ stdout'[0] = <<>>
      /\ \A p \in Rank \ {0} : /\ helper'[p] = helper[p] /\ follows'[p] = follows[p]
                               /\ localIds'[p] = localIds[p]
                               /\ rank'[p] = rank[p] /\ stdin'[p] = stdin[p]
                               /\ stdout'[p] = stdout[p]
  BY <1>1, Constants DEF Types, SessionTypes, RoundTypes, RankTypes, PipeTypes
<1>4. stdin'[0] = stdin[0] \/ stdin'[0] = stdin[0] \o <<Stop>>
  <2>1. stdin[0] \in Seq(PlainLine \cup OutLine) /\ Stop \in PlainLine \cup OutLine
    BY Constants, StopLine DEF Types, PipeTypes
  <2>2. Append(stdin[0], Stop) = stdin[0] \o <<Stop>>
    BY <2>1
  <2> QED BY <1>1, <2>2, Constants DEF Types, PipeTypes
<1>5. Kept /\ \A k : Less(k)
  <2>1. tasks' = [t \in Task |-> IF tasks[t].st = "none" THEN tasks[t]
                                 ELSE [tasks[t] EXCEPT !.st = "ended", !.code = 143]]
    BY DEF CancelJob
  <2>2. \A t \in Task : tasks[t] \in TaskState
    BY DEF Types, BookTypes
  <2>3. \A t \in Task : tasks'[t].st = "none" <=> tasks[t].st = "none"
    BY <2>1, <2>2 DEF TaskState
  <2> QED BY <1>1, <2>3 DEF Kept, Started, Less
<1>6. TaskInv'
  <2>1. \A t \in Task : ~Started(t) => tasks'[t] = tasks[t]
    BY DEF CancelJob, Started
  <2> QED BY <1>1, <1>5, <2>1, TaskKept DEF FenceInv, history
<1>7. Stopped'
  BY <1>2, <1>3, IdleType DEF Stopped
<1>8. \A p \in Rank : Fewer(p) /\ \A i \in DOMAIN stdin'[p] :
          \/ \E j \in DOMAIN stdin[p] : stdin[p][j] = stdin'[p][i]
          \/ p = 0 /\ stdin'[p][i] = Stop
  <2>1. ASSUME NEW p \in Rank, stdin'[p] = stdin[p]
        PROVE  Fewer(p) /\ \A i \in DOMAIN stdin'[p] : \E j \in DOMAIN stdin[p] : stdin[p][j] = stdin'[p][i]
    BY <2>1, PipeSame
  <2>2. CASE stdin'[0] = stdin[0] \o <<Stop>>
    <3>1. \A j \in DOMAIN <<Stop>> : <<Stop>>[j] = Stop
      OBVIOUS
    <3>2. Fewer(0) /\ \A i \in DOMAIN stdin'[0] :
              (i \in DOMAIN stdin[0] /\ stdin'[0][i] = stdin[0][i]) \/ stdin'[0][i] = Stop
      BY <2>2, <3>1, StopLine, PipePlain, Constants
    <3> QED BY <1>3, <2>1, <3>2
  <2> QED BY <1>3, <1>4, <2>1, <2>2
<1>9. SessionInv'
  <2>1. ASSUME NEW p \in Rank PROVE LineInv(p)'
    <3> SUFFICES ASSUME NEW i \in DOMAIN stdin'[p]
                 PROVE  /\ LineOk(p, stdin'[p][i])
                        /\ stdin'[p][i].cmd = "STOP" => p = 0 /\ Stopped'
      BY DEF LineInv, LineOk, Data
    <3>1. CASE \E j \in DOMAIN stdin[p] : stdin[p][j] = stdin'[p][i]
      BY <1>7, <3>1 DEF FenceInv, SessionInv
    <3>2. CASE p = 0 /\ stdin'[p][i] = Stop
      BY <1>7, <3>2, StopLine DEF LineOk
    <3> QED BY <1>8, <3>1, <3>2
  <2>2. \A p \in Rank : main'[p].at = "drain" => p = 0 /\ Stopped'
    BY <1>1, <1>7 DEF FenceInv, SessionInv, process
  <2>3. \A p \in Rank : (~helper'[p] => localIds'[p] = <<>>) /\ contrib'[p] \in {0, p}
    BY <1>1, <1>3 DEF FenceInv, SessionInv, process
  <2>4. ~follows'[0] /\ \A p \in Rank \ {0} : helper'[p] => follows'[p]
    BY <1>3, Constants DEF FenceInv, SessionInv
  <2> QED BY <1>1, <1>3, <2>1, <2>2, <2>3, <2>4 DEF SessionInv, LineInv
<1>10. RankInv'
  <2>1. \A p \in Rank \ {0} : AtRank(p)' /\ AtStart(p)' /\ Answers(p)'
    BY <1>1, <1>3, <1>5, RankSame DEF FenceInv, history
  <2>2. rank'[0].st = "off"
    BY <1>3, IdleType
  <2>3. AtRank(0)' /\ AtStart(0)' /\ Answers(0)'
    <3>1. AtRank(0)'
      BY <2>2 DEF AtRank
    <3>2. AtStart(0)'
      BY <1>1, <1>5, <2>2, SameCurrent, Constants DEF FenceInv, RankInv, AtStart, history
    <3>3. Answers(0)'
      BY <1>1, Constants DEF FenceInv, RankInv, Answers, history
    <3> QED BY <3>1, <3>2, <3>3
  <2> QED BY <2>1, <2>3 DEF RankInv
<1>11. \A p \in Rank : OutsLess(p) /\ IdsLess(p)
  <2>1. \A p \in Rank : Alive(p)' = Alive(p) /\ Reads(p)' = Reads(p)
    BY <1>1 DEF process, Alive, Reads
  <2> QED BY <1>1, <1>3, <1>8, <2>1 DEF OutsLess, IdsLess, process
<1>12. CallsLess
  BY <1>1, <1>3, <1>5 DEF CallsLess, process
<1>13. CallInv' /\ RoundInv' /\ ResultInv' /\ IdInv'
  BY <1>1, <1>5, <1>11, <1>12, Lesser
<1> QED BY <1>2, <1>6, <1>9, <1>10, <1>13 DEF FenceInv, QuietInv

LEMMA PendingCall ==
    ASSUME Types, NEW n \in Rank, NEW i \in DOMAIN pending[n]
    PROVE  pending[n][i] \in CallsOf(n) /\ pending[n][i] \in Calls /\ pending[n][i].rank = n
<1>1. pending[n] \in Partial(Nat, CallsOf(n))
  BY DEF Types, ProcessTypes
<1>2. pending[n][i] \in CallsOf(n)
  BY <1>1, PartialFunction
<1> QED BY <1>2 DEF CallsOf, Calls

LEMMA LinesKept ==
    ASSUME SessionInv, Stopped => Stopped', NEW p \in Rank, NoNewLine(p)
    PROVE  LineInv(p)'
<1> SUFFICES ASSUME NEW i \in DOMAIN stdin'[p]
             PROVE  /\ LineOk(p, stdin'[p][i])
                    /\ stdin'[p][i].cmd = "STOP" => p = 0 /\ Stopped'
  BY DEF LineInv, LineOk, Data
<1> QED BY DEF SessionInv, NoNewLine

(* A drain, which follows a cancel, finds nobody who waits.                *)
LEMMA DrainAnswers ==
    ASSUME Types, FenceInv, NEW n \in Rank, Drain(n)
    PROVE  n = 0 /\ Stopped /\ rank' = rank /\ UNCHANGED history
<1>1. n = 0 /\ Stopped
  BY HeadLine DEF Drain, FenceInv
<1> DEFINE C == {pending[n][i] : i \in DOMAIN pending[n]}
<1>2. \A c \in C : c.rank = n
  BY PendingCall
<1>3. \A c \in C : ~Waiting(c)
  BY <1>1, <1>2 DEF Waiting, Stopped
<1> HIDE DEF C
<1>4. CallBack(C, <<>>)
  BY DEF Drain, C
<1>5. rank' = rank
  <2>1. rank' = [r \in Rank |-> rank[r]]
    BY <1>3, <1>4 DEF CallBack
  <2> QED BY <2>1 DEF Types, RankTypes
<1>6. answer' = answer
  <2>1. answer' = [t \in Task |-> [r \in Rank |-> [k \in Round |-> answer[t][r][k]]]]
    BY <1>3, <1>4 DEF CallBack
  <2>2. answer = [t \in Task |-> [r \in Rank |-> [k \in Round |-> answer[t][r][k]]]]
    BY DEF Types, HistoryTypes
  <2> QED BY <2>1, <2>2
<1>7. entered' = entered
  BY <1>4 DEF CallBack
<1> QED BY <1>1, <1>5, <1>6, <1>7 DEF history

LEMMA DrainFence ==
    ASSUME Types, Types', FenceInv, Begun, NEW n \in Rank, Drain(n)
    PROVE  FenceInv'
<1>1. /\ n = 0 /\ Stopped /\ rank' = rank
      /\ UNCHANGED <<contrib, storing, stdout, session, round, book, net, history, faults>>
  BY DrainAnswers DEF Drain
<1>2. /\ Reading(n, "STOP") /\ main' = [main EXCEPT ![n].at = "drain"]
      /\ pending' = [pending EXCEPT ![n] = <<>>]
  BY DEF Drain
<1>3. /\ main'[n].at = "drain"
      /\ \A p \in Rank \ {n} : main'[p] = main[p] /\ pending'[p] = pending[p]
  BY <1>2 DEF Types, ProcessTypes, MainState
<1>4. \A p \in Rank : Fewer(p) /\ NoNewLine(p)
  BY <1>2, PipeRead, ReadingLines
<1>5. Alive(n) /\ Alive(n)' /\ ~Reads(n)'
  BY <1>2, <1>3 DEF Alive, Reads, Reading
<1>6. Kept /\ \A k : Less(k)
  BY <1>1, TasksKept DEF Less, book
<1>7. TaskInv'
  BY <1>1, <1>6, TaskKept DEF FenceInv, book, history
<1>8. SessionInv'
  <2>1. Stopped'
    BY <1>1 DEF Stopped, session
  <2>2. \A p \in Rank : LineInv(p)'
    BY <1>4, <2>1, LinesKept DEF FenceInv
  <2>3. \A p \in Rank : main'[p].at = "drain" => p = 0 /\ Stopped'
    BY <1>1, <1>3, <2>1 DEF FenceInv, SessionInv
  <2> QED BY <1>1, <2>2, <2>3 DEF FenceInv, SessionInv, LineInv, session, round
<1>9. RankInv'
  BY <1>1, <1>6, RankKept DEF FenceInv
<1>10. ASSUME NEW p \in Rank PROVE OutsLess(p) /\ (Reads(p)' => IdsLess(p))
  <2>1. CASE p = n
    BY <1>4, <1>5, <2>1 DEF OutsLess
  <2>2. CASE p # n
    BY <1>1, <1>3, <1>4, <2>2 DEF OutsLess, IdsLess, Alive, Reads, round
  <2> QED BY <2>1, <2>2
<1>11. CallsLess
  BY <1>1, <1>6 DEF CallsLess, round
<1>12. CallInv' /\ RoundInv' /\ ResultInv' /\ IdInv'
  BY <1>1, <1>6, <1>10, <1>11, Lesser
<1> QED BY <1>1, <1>7, <1>8, <1>9, <1>12 DEF FenceInv, QuietInv, Stopped

-----------------------------------------------------------------------------
(***************************************************************************)
(* The end of a task.                                                      *)
(***************************************************************************)
LEMMA FinishedIs ==
    ASSUME Types, NEW t \in Task, NEW c, RankFinished(t, c)
    PROVE  /\ \A u \in Task \ {t} : tasks'[u] = tasks[u]
           /\ tasks'[t].done = tasks[t].done + 1
           /\ tasks'[t].st = IF tasks[t].done + 1 >= N THEN "ended" ELSE tasks[t].st
<1> DEFINE s == tasks[t]
<1>1. tasks \in [Task -> TaskState] /\ s \in TaskState
  BY DEF Types, BookTypes
<1>2. CASE s.done + 1 >= N
  <2> DEFINE x == [s EXCEPT !.done = s.done + 1]
             tt == [tasks EXCEPT ![t].done = tasks[t].done + 1]
             y == [x EXCEPT !.st = "ended", !.code = c]
  <2>1. tasks' = [tt EXCEPT ![t] = [tt[t] EXCEPT !.st = "ended", !.code = c]]
    BY <1>2 DEF RankFinished, finish
  <2>2. tt = [tasks EXCEPT ![t] = x] /\ tt[t] = x
    BY <1>1
  <2>3. tasks' = [tasks EXCEPT ![t] = y]
    BY <1>1, <2>1, <2>2
  <2>4. y.done = s.done + 1 /\ y.st = "ended"
    <3> HIDE DEF s
    <3> QED BY <1>1 DEF TaskState
  <2> HIDE DEF y
  <2>5. tasks'[t] = y /\ \A u \in Task \ {t} : tasks'[u] = tasks[u]
    BY <1>1, <2>3
  <2> QED BY <1>2, <2>4, <2>5
<1>3. CASE ~(s.done + 1 >= N)
  <2> DEFINE k == IF s.done = 0 \/ c # 0 THEN c ELSE s.code
             x == [s EXCEPT !.done = s.done + 1, !.code = k]
  <2>1. tasks' = [tasks EXCEPT ![t].done = tasks[t].done + 1,
                              ![t].code = IF tasks[t].done = 0 \/ c # 0 THEN c ELSE tasks[t].code]
    BY <1>3 DEF RankFinished
  <2>2. tasks' = [tasks EXCEPT ![t] = x]
    BY <2>1
  <2>3. x.done = s.done + 1 /\ x.st = s.st
    <3> HIDE DEF s, k
    <3> QED BY <1>1 DEF TaskState
  <2> HIDE DEF x
  <2>4. tasks'[t] = x /\ \A u \in Task \ {t} : tasks'[u] = tasks[u]
    BY <1>1, <2>2
  <2> QED BY <1>3, <2>3, <2>4
<1> QED BY <1>2, <1>3

LEMMA FinishedKept ==
    ASSUME Types, NEW t \in Task, Started(t), NEW c, RankFinished(t, c)
    PROVE  Kept /\ \A u \in Task : ~Started(u) => tasks'[u] = tasks[u]
BY FinishedIs DEF Kept, Started

LEMMA RankIsFinite == IsFiniteSet(Rank) /\ Cardinality(Rank) = N
<1>1. 0 \in Int /\ N - 1 \in Int /\ ~(0 > N - 1) /\ (N - 1) - 0 + 1 = N
  BY Constants
<1> QED BY <1>1, FS_Interval DEF Rank

(* One rank more is reported.                                              *)
LEMMA ReportedOne ==
    ASSUME Types, ReportsOk, Kept, NEW t \in Task, Current(t), NEW c, RankFinished(t, c),
           NEW r \in Rank, r \notin Reported, Reported' = Reported \cup {r}
    PROVE  \A u \in Task : Current(u)' => /\ tasks'[u].done = Cardinality(Reported')
                                          /\ tasks'[u].st = "ended" => Reported' = Rank
<1>1. IsFiniteSet(Reported) /\ Cardinality(Reported) \in Nat
  BY RankIsFinite, FS_Subset, FS_CardinalityType DEF Reported
<1>2. Cardinality(Reported') = Cardinality(Reported) + 1
  BY <1>1, FS_AddElement
<1>3. tasks[t].done = Cardinality(Reported) /\ tasks[t].st # "ended"
  BY DEF ReportsOk
<1>4. /\ tasks'[t].done = Cardinality(Reported')
      /\ tasks'[t].st = "ended" => Cardinality(Reported') >= N
  BY <1>2, <1>3, FinishedIs
<1>5. Cardinality(Reported') >= N => Reported' = Rank
  <2>1. Reported' \in SUBSET Rank
    BY DEF Reported
  <2>2. /\ Cardinality(Reported') <= N
        /\ Cardinality(Reported') = N => Reported' = Rank
    BY <2>1, RankIsFinite, FS_Subset
  <2> QED BY <1>1, <1>2, <2>2, Constants
<1>6. \A u : Current(u)' => u = t
  BY SameCurrent, CurrentOne
<1> QED BY <1>4, <1>5, <1>6

LEMMA RankDoneFence ==
    ASSUME Types, Types', FenceInv, Begun, NEW m \in net, RankDone(m)
    PROVE  FenceInv'
<1>1. /\ m.type = "done" /\ net' = net \ {m} /\ RankFinished(m.task, m.code)
      /\ UNCHANGED <<process, pipes, session, round, contTask, replyTo, rank, history, faults>>
  BY DEF RankDone
<1>2. m.task \in Task /\ m.from \in Rank /\ Started(m.task)
  BY <1>1, Messages DEF DoneMsg, FenceInv, TaskInv
<1>3. Kept /\ \A u \in Task : ~Started(u) => tasks'[u] = tasks[u]
  BY <1>1, <1>2, FinishedKept
<1>4. \A k : Less(k)
  BY <1>1 DEF Less
<1>5. TaskInv'
  BY <1>1, <1>3, <1>4, TaskKept DEF FenceInv, history, Less
<1>6. \A p \in Rank : OutsLess(p) /\ IdsLess(p) /\ NoNewLine(p) /\ Alive(p)' = Alive(p)
  BY <1>1, SameIds DEF round
<1>7. SessionInv'
  BY <1>1, <1>6, SessionKept DEF FenceInv, round, process, NoNewLine
<1>8. RankInv'
  BY <1>1, <1>3, <1>4, RankKept DEF FenceInv
<1>9. CallsLess
  BY <1>1, <1>4 DEF CallsLess, process, pipes, round
<1>10. CallInv' /\ RoundInv' /\ ResultInv' /\ IdInv' /\ \A c \in Calls : Live(c)' => Live(c)
  BY <1>1, <1>3, <1>4, <1>6, <1>9, Lesser
<1>11. ASSUME faults' = <<>> PROVE (\A n \in Rank : Registers(n)') /\ ReportsOk' /\ CalmOk'
  <2>1. (\A n \in Rank : Registers(n)) /\ ReportsOk /\ CalmOk
    BY <1>1, <1>11 DEF FenceInv, QuietInv
  <2>2. \A n \in Rank : Registers(n)'
    BY <1>1, <2>1 DEF Registers, process, pipes, session
  <2>3. CalmOk'
    BY <1>1, <1>4, <1>6, <1>10, <2>1, CalmLess DEF process
  <2>4. /\ Current(m.task) /\ rank[m.from].st = "off"
        /\ \A x \in net : x.type = "done" /\ x.from = m.from => x = m
        /\ \A x \in net : x.type = "start" => x.to # m.from
    BY <1>1, <2>1 DEF ReportsOk
  <2>5. m.from \notin Reported /\ Reported' = Reported \cup {m.from}
    <3>1. Owes(m.from)
      BY <1>1 DEF Owes
    <3>2. ~Owes(m.from)'
      BY <1>1, <2>4 DEF Owes
    <3>3. \A r \in Rank \ {m.from} : Owes(r)' = Owes(r)
      BY <1>1 DEF Owes
    <3> QED BY <1>2, <3>1, <3>2, <3>3 DEF Reported
  <2>6. \A u \in Task : Current(u)' => /\ tasks'[u].done = Cardinality(Reported')
                                       /\ tasks'[u].st = "ended" => Reported' = Rank
    BY <1>1, <1>2, <1>3, <2>1, <2>4, <2>5, ReportedOne
  <2>7. \A x \in net' : x.type = "done" =>
          /\ Current(x.task)' /\ rank'[x.from].st = "off"
          /\ \A y \in net' : y.type = "done" /\ y.from = x.from => y = x
          /\ \A y \in net' : y.type = "start" => y.to # x.from
    BY <1>1, <1>3, <2>1, SameCurrent DEF ReportsOk
  <2> QED BY <2>2, <2>3, <2>6, <2>7 DEF ReportsOk
<1> QED BY <1>5, <1>7, <1>8, <1>10, <1>11 DEF FenceInv, QuietInv

LEMMA NewestIs ==
    ASSUME NEW t, Current(t)
    PROVE  (CHOOSE u \in Task : /\ tasks[u].st # "none"
                                /\ \A w \in u+1..MaxTasks : tasks[w].st = "none") = t
<1> DEFINE P(u) == tasks[u].st # "none" /\ \A w \in u+1..MaxTasks : tasks[w].st = "none"
<1>1. \A u \in Task : P(u) <=> Current(u)
  BY Constants DEF Current, Started, Task
<1>2. t \in Task
  BY DEF Current
<1>3. \A u \in Task : P(u) => u = t
  BY <1>1, CurrentOne
<1>4. P(t)
  BY <1>1, <1>2
<1> HIDE DEF P
<1>5. (CHOOSE u \in Task : P(u)) = t
  BY <1>2, <1>3, <1>4
<1> QED BY <1>5 DEF P

LEMMA OnRankProcessFence ==
    ASSUME Types, Types', FenceInv, Begun, NEW r \in Rank, OnRankProcess(r)
    PROVE  FenceInv'
<1> DEFINE c == IF rank[r].st = "failed" THEN 1 ELSE 0
           t == contTask[r]
           T == rank[r].task
           done == [type |-> "done", to |-> 0, task |-> t, from |-> r, code |-> c]
<1>1. /\ rank[r].st \in {"over", "failed"} /\ rank' = [rank EXCEPT ![r] = Idle]
      /\ UNCHANGED <<process, pipes, session, round, contTask, history, faults>>
  BY DEF OnRankProcess
<1>2. rank'[r] = Idle /\ rank'[r].st = "off" /\ \A p \in Rank \ {r} : rank'[p] = rank[p]
  BY <1>1, IdleType DEF Types, RankTypes
<1>3. T \in Task /\ Current(T) /\ Started(T)
  BY <1>1 DEF FenceInv, RankInv, AtRank, Current
<1>4. r = 0 => RankFinished(T, c) /\ UNCHANGED <<net, replyTo>>
  BY <1>3, NewestIs DEF OnRankProcess
<1>5. r # 0 => /\ net' = IF t \in replyTo[r] THEN net \cup {done} ELSE net
               /\ replyTo' = [replyTo EXCEPT ![r] = @ \ {t}]
               /\ UNCHANGED tasks
  BY DEF OnRankProcess
<1>6. Kept /\ \A u \in Task : ~Started(u) => tasks'[u] = tasks[u]
  BY <1>3, <1>4, <1>5, FinishedKept, TasksKept
<1>7. \A m \in net' : m \in net \/ (r # 0 /\ m = done /\ t \in replyTo[r])
  BY <1>4, <1>5
<1>8. \A k : k # "done" => Less(k)
  BY <1>7 DEF Less
<1>9. TaskInv'
  <2>1. t \in replyTo[r] => t # 0 /\ Started(t)
    <3>1. replyTo[r] \subseteq Task /\ 0 \notin Task
      BY Constants DEF Types, BookTypes, Task
    <3> QED BY <3>1 DEF FenceInv, TaskInv
  <2>2. \A m \in net' : m.type = "done" => m \in net \/ Started(m.task)
    BY <1>7, <2>1
  <2> QED BY <1>1, <1>6, <2>2, TaskKept DEF FenceInv, history
<1>10. \A p \in Rank : OutsLess(p) /\ IdsLess(p) /\ NoNewLine(p) /\ Alive(p)' = Alive(p)
  BY <1>1, SameIds DEF round
<1>11. SessionInv'
  <2>1. rank'[0].st = "off" \/ rank'[0].st = rank[0].st
    BY <1>2, Constants
  <2> QED BY <1>1, <1>10, <2>1, SessionKept DEF FenceInv, round, process, NoNewLine
<1>12. RankInv'
  <2>1. \A p \in Rank \ {r} : AtRank(p)' /\ AtStart(p)' /\ Answers(p)'
    BY <1>1, <1>2, <1>6, <1>8, RankSame DEF FenceInv, history
  <2>2. AtRank(r)'
    BY <1>2 DEF AtRank
  <2>3. \A m \in net' : m.type = "start" => m.to # r
    BY <1>1, <1>8 DEF FenceInv, RankInv, AtStart, Less
  <2>4. AtStart(r)' /\ Answers(r)'
    BY <1>1, <2>3 DEF FenceInv, RankInv, AtStart, Answers, history
  <2> QED BY <2>1, <2>2, <2>4 DEF RankInv
<1>13. CallsLess
  BY <1>1, <1>8 DEF CallsLess, process, pipes, round
<1>14. CallInv' /\ RoundInv' /\ ResultInv' /\ IdInv' /\ \A d \in Calls : Live(d)' => Live(d)
  BY <1>1, <1>6, <1>8, <1>10, <1>13, Lesser
<1>15. ASSUME faults' = <<>> PROVE (\A n \in Rank : Registers(n)') /\ ReportsOk' /\ CalmOk'
  <2>1. (\A n \in Rank : Registers(n)) /\ ReportsOk /\ CalmOk
    BY <1>1, <1>15 DEF FenceInv, QuietInv
  <2>2. \A n \in Rank : Registers(n)'
    <3>1. UNCHANGED <<main, ops, clients, stdin, helper>>
      BY <1>1 DEF process, pipes, session
    <3>2. \A n \in Rank \ {r} : replyTo'[n] = replyTo[n]
      BY <1>4, <1>5 DEF Types, BookTypes
    <3>3. \A n \in Rank \ {r} : Registers(n)'
      BY <1>1, <1>2, <2>1, <3>1, <3>2 DEF Registers
    <3>4. Registers(r)'
      BY <1>1, <1>2, <2>1, <3>1 DEF Registers
    <3> QED BY <3>3, <3>4
  <2>3. CalmOk'
    <3>1. \A n \in Rank : rank[n].st = "fence" => rank'[n].st = "fence"
      BY <1>1, <1>2
    <3> QED BY <1>1, <1>8, <1>10, <1>14, <2>1, <3>1, CalmLess DEF process
  <2>4. /\ \A m \in net : m.type = "start" => m.to # r
        /\ \A m \in net : m.type = "done" => m.from # r
    <3>1. \A m \in net : m.type = "done" => m.from # r
      BY <1>1, <2>1 DEF ReportsOk
    <3> QED BY <1>1, <3>1 DEF FenceInv, RankInv, AtStart
  <2>5. CASE r = 0
    <3>1. r \notin Reported /\ Reported' = Reported \cup {r}
      <4>1. Owes(r)
        BY <1>1 DEF Owes
      <4>2. ~Owes(r)'
        BY <1>2, <1>4, <2>4, <2>5 DEF Owes
      <4>3. \A p \in Rank \ {r} : Owes(p)' = Owes(p)
        BY <1>2, <1>4, <2>5 DEF Owes
      <4> QED BY <4>1, <4>2, <4>3 DEF Reported
    <3>2. \A u \in Task : Current(u)' => /\ tasks'[u].done = Cardinality(Reported')
                                         /\ tasks'[u].st = "ended" => Reported' = Rank
      BY <1>3, <1>4, <1>6, <2>1, <2>5, <3>1, ReportedOne
    <3>3. \A x \in net' : x.type = "done" =>
            /\ Current(x.task)' /\ rank'[x.from].st = "off"
            /\ \A y \in net' : y.type = "done" /\ y.from = x.from => y = x
            /\ \A y \in net' : y.type = "start" => y.to # x.from
      <4> SUFFICES ASSUME NEW x \in net', x.type = "done"
                   PROVE  /\ Current(x.task)' /\ rank'[x.from].st = "off"
                          /\ \A y \in net' : y.type = "done" /\ y.from = x.from => y = x
                          /\ \A y \in net' : y.type = "start" => y.to # x.from
        OBVIOUS
      <4>1. net' = net /\ x \in net
        BY <1>4, <2>5
      <4>2. x.from \in Rank /\ x.from # r
        BY <2>4, <4>1, Messages DEF DoneMsg
      <4>3. /\ Current(x.task) /\ rank[x.from].st = "off"
            /\ \A y \in net : y.type = "done" /\ y.from = x.from => y = x
            /\ \A y \in net : y.type = "start" => y.to # x.from
        BY <2>1, <4>1 DEF ReportsOk
      <4>4. Current(x.task)'
        BY <1>6, <4>3, SameCurrent
      <4>5. rank'[x.from].st = "off"
        BY <1>2, <4>2, <4>3
      <4> QED BY <4>1, <4>3, <4>4, <4>5
    <3> QED BY <2>2, <2>3, <3>2, <3>3 DEF ReportsOk
  <2>6. CASE r # 0
    <3>1. t = T /\ t \in replyTo[r]
      BY <1>1, <2>1, <2>6 DEF Registers
    <3>2. net' = net \cup {done} /\ tasks' = tasks
      BY <1>5, <2>6, <3>1
    <3>3. done.type = "done" /\ done.from = r /\ done.task = T
      BY <3>1
    <3> HIDE DEF done
    <3>4. \A p \in Rank : Owes(p)' = Owes(p)
      <4>1. Owes(r) /\ Owes(r)'
        BY <1>1, <3>2, <3>3 DEF Owes
      <4>2. ASSUME NEW p \in Rank \ {r} PROVE Owes(p)' = Owes(p)
        <5>1. rank'[p] = rank[p] /\ p # r
          BY <1>2
        <5>2. (\E m \in net' : m.type = "start" /\ m.to = p) <=> \E m \in net : m.type = "start" /\ m.to = p
          BY <3>2, <3>3
        <5>3. (\E m \in net' : m.type = "done" /\ m.from = p) <=> \E m \in net : m.type = "done" /\ m.from = p
          BY <3>2, <3>3, <5>1
        <5>4. (rank'[p].st # "off") <=> (rank[p].st # "off")
          BY <5>1
        <5>5. Owes(p)' <=> Owes(p)
          BY <5>2, <5>3, <5>4 DEF Owes
        <5> QED BY <5>5 DEF Owes
      <4>3. Owes(r)' = Owes(r)
        BY <4>1 DEF Owes
      <4> QED BY <4>2, <4>3
    <3>5. Reported' = Reported
      BY <3>4 DEF Reported
    <3>6. \A u \in Task : Current(u)' => /\ tasks'[u].done = Cardinality(Reported')
                                         /\ tasks'[u].st = "ended" => Reported' = Rank
      BY <1>6, <2>1, <3>2, <3>5, SameCurrent DEF ReportsOk
    <3>7. ASSUME NEW x \in net', x.type = "done"
          PROVE  /\ Current(x.task)' /\ rank'[x.from].st = "off"
                 /\ \A y \in net' : y.type = "done" /\ y.from = x.from => y = x
                 /\ \A y \in net' : y.type = "start" => y.to # x.from
      <4>1. CASE x = done
        BY <1>2, <1>3, <1>6, <2>4, <3>2, <3>3, <4>1, SameCurrent
      <4>2. CASE x # done
        <5>1. x \in net /\ x.from \in Rank /\ x.from # r
          BY <2>4, <3>2, <3>7, <4>2, Messages DEF DoneMsg
        <5>2. /\ Current(x.task) /\ rank[x.from].st = "off"
              /\ \A y \in net : y.type = "done" /\ y.from = x.from => y = x
              /\ \A y \in net : y.type = "start" => y.to # x.from
          BY <2>1, <3>7, <5>1 DEF ReportsOk
        <5>3. Current(x.task)'
          BY <1>6, <5>2, SameCurrent
        <5>4. rank'[x.from].st = "off"
          BY <1>2, <5>1, <5>2
        <5>5. \A y \in net' : y.type = "done" /\ y.from = x.from => y = x
          BY <3>2, <3>3, <5>1, <5>2
        <5>6. \A y \in net' : y.type = "start" => y.to # x.from
          BY <3>2, <3>3, <5>2
        <5> QED BY <5>3, <5>4, <5>5, <5>6
      <4> QED BY <4>1, <4>2
    <3> QED BY <2>2, <2>3, <3>6, <3>7 DEF ReportsOk
  <2> QED BY <2>2, <2>3, <2>5, <2>6
<1> QED BY <1>9, <1>11, <1>12, <1>14, <1>15 DEF FenceInv, QuietInv

-----------------------------------------------------------------------------
(***************************************************************************)
(* The start of a rank.                                                    *)
(***************************************************************************)
Up(t) == [task |-> t, st |-> "up", k |-> 0]
OldHelper(n, lines) ==
    /\ helper[n] /\ helper'[n] /\ stdin'[n] = stdin[n] \o lines /\ stdout'[n] = stdout[n]
    /\ main'[n] = main[n] /\ contrib'[n] = contrib[n] /\ pending'[n] = pending[n]
    /\ storing'[n] = storing[n] /\ ops'[n] = ops[n] /\ clients'[n] = clients[n]
NewHelper(n, lines) ==
    /\ ~helper[n] /\ helper'[n] /\ stdin'[n] = lines /\ stdout'[n] = <<>>
    /\ main'[n] = [at |-> "read", rank |-> 0] /\ contrib'[n] = 0 /\ pending'[n] = <<>>
    /\ storing'[n] = <<>> /\ ops'[n] = <<>> /\ clients'[n] = {0}
NoHelper(n) ==
    /\ ~helper[n] /\ ~helper'[n] /\ stdin'[n] = <<>> /\ stdout'[n] = stdout[n]
    /\ main'[n] = main[n] /\ contrib'[n] = contrib[n] /\ pending'[n] = pending[n]
    /\ storing'[n] = storing[n]
OtherNode(p) ==
    /\ helper'[p] = helper[p] /\ stdin'[p] = stdin[p] /\ stdout'[p] = stdout[p]
    /\ main'[p] = main[p] /\ contrib'[p] = contrib[p] /\ pending'[p] = pending[p]
    /\ storing'[p] = storing[p] /\ ops'[p] = ops[p] /\ clients'[p] = clients[p]
    /\ rank'[p] = rank[p] /\ contTask'[p] = contTask[p]

LEMMA LocalIs ==
    ASSUME Types, NEW n \in Rank, NEW t \in Task, NEW lines, NEW fault,
           StartRankLocal(n, t, lines, fault)
    PROVE  /\ \A p \in Rank \ {n} : OtherNode(p)
           /\ \/ OldHelper(n, lines)
              \/ NewHelper(n, lines)
              \/ NoHelper(n) /\ fault = "helper"
           /\ rank'[n] = rank[n] \/ rank'[n] = Up(t)
           /\ rank[n].st # "off" => rank'[n] = rank[n]
           /\ fault # "container" /\ rank[n].st = "off" => rank'[n] = Up(t)
           /\ contTask'[n] = contTask[n] \/ contTask'[n] = t
           /\ fault # "container" => contTask'[n] = t
<1>1. stdin' = [stdin EXCEPT ![n] = IF fault = "helper" THEN <<>>
                                    ELSE IF helper[n] THEN stdin[n] \o lines ELSE lines]
  BY DEF StartRankLocal
<1>2. /\ fault = "helper" => ~helper[n]
      /\ helper[n] \/ fault = "helper" => UNCHANGED <<process, stdout, helper>>
      /\ ~helper[n] /\ fault # "helper" =>
            /\ main' = [main EXCEPT ![n] = [at |-> "read", rank |-> 0]]
            /\ contrib' = [contrib EXCEPT ![n] = 0]
            /\ pending' = [pending EXCEPT ![n] = <<>>]
            /\ storing' = [storing EXCEPT ![n] = <<>>]
            /\ ops' = [ops EXCEPT ![n] = <<>>]
            /\ clients' = [clients EXCEPT ![n] = {0}]
            /\ stdout' = [stdout EXCEPT ![n] = <<>>]
            /\ helper' = [helper EXCEPT ![n] = TRUE]
  BY DEF StartRankLocal
<1>3. /\ fault = "container" => UNCHANGED <<rank, contTask>>
      /\ fault # "container" =>
            /\ rank' = [rank EXCEPT ![n] = IF rank[n].st # "off" THEN rank[n] ELSE Up(t)]
            /\ contTask' = [contTask EXCEPT ![n] = t]
  BY DEF StartRankLocal, Up
<1>4. /\ main \in [Rank -> MainState] /\ contrib \in [Rank -> Rank]
      /\ pending = [p \in Rank |-> pending[p]] /\ DOMAIN storing = Rank /\ DOMAIN ops = Rank
      /\ DOMAIN clients = Rank /\ DOMAIN stdin = Rank /\ DOMAIN stdout = Rank
      /\ DOMAIN helper = Rank /\ DOMAIN rank = Rank /\ DOMAIN contTask = Rank
  BY DEF Types, ProcessTypes, PipeTypes, SessionTypes, RankTypes, BookTypes
<1>5. /\ rank'[n] = rank[n] \/ rank'[n] = Up(t)
      /\ rank[n].st # "off" => rank'[n] = rank[n]
      /\ fault # "container" /\ rank[n].st = "off" => rank'[n] = Up(t)
      /\ contTask'[n] = contTask[n] \/ contTask'[n] = t
      /\ fault # "container" => contTask'[n] = t
      /\ \A p \in Rank \ {n} : rank'[p] = rank[p] /\ contTask'[p] = contTask[p]
  BY <1>3, <1>4
<1>6. CASE helper[n]
  <2>1. UNCHANGED <<process, stdout, helper>> /\ stdin' = [stdin EXCEPT ![n] = stdin[n] \o lines]
    BY <1>1, <1>2, <1>6
  <2>2. OldHelper(n, lines)
    BY <1>4, <1>6, <2>1 DEF OldHelper, process
  <2>3. \A p \in Rank \ {n} : OtherNode(p)
    BY <1>4, <1>5, <2>1 DEF OtherNode, process
  <2> QED BY <1>5, <2>2, <2>3
<1>7. CASE ~helper[n] /\ fault = "helper"
  <2>1. UNCHANGED <<process, stdout, helper>> /\ stdin' = [stdin EXCEPT ![n] = <<>>]
    BY <1>1, <1>2, <1>7
  <2>2. NoHelper(n)
    BY <1>4, <1>7, <2>1 DEF NoHelper, process
  <2>3. \A p \in Rank \ {n} : OtherNode(p)
    BY <1>4, <1>5, <2>1 DEF OtherNode, process
  <2> QED BY <1>5, <1>7, <2>2, <2>3
<1>8. CASE ~helper[n] /\ fault # "helper"
  <2>1. stdin' = [stdin EXCEPT ![n] = lines]
    BY <1>1, <1>8
  <2>2. NewHelper(n, lines)
    BY <1>2, <1>4, <1>8, <2>1 DEF NewHelper
  <2>3. \A p \in Rank \ {n} : OtherNode(p)
    BY <1>2, <1>4, <1>5, <1>8, <2>1 DEF OtherNode
  <2> QED BY <1>5, <2>2, <2>3
<1> QED BY <1>6, <1>7, <1>8

LEMMA RegisterLine ==
    ASSUME NEW n \in Rank
    PROVE  /\ RegisterLines(n) \in Seq(PlainLine)
           /\ 1 \in DOMAIN RegisterLines(n) /\ RegisterLines(n)[1] = Line("REGISTER", n)
           /\ \A i \in DOMAIN RegisterLines(n) :
                 RegisterLines(n)[i] \in {Line("REGISTER", n), Line("CONTRIB_ID", n)}
<1> DEFINE a == Line("REGISTER", n)  b == Line("CONTRIB_ID", n)
<1>1. a \in PlainLine /\ b \in PlainLine
  BY DEF Line, PlainLine
<1> HIDE DEF a, b
<1>2. <<a, b>> \in Seq(PlainLine) /\ 1 \in DOMAIN <<a, b>> /\ <<a, b>>[1] = a
      /\ \A i \in DOMAIN <<a, b>> : <<a, b>>[i] \in {a, b}
  BY <1>1
<1> QED BY <1>2 DEF RegisterLines, a, b

LEMMA LinesOk ==
    ASSUME NEW n \in Rank, NEW l \in {Line("REGISTER", n), Line("CONTRIB_ID", n)}
    PROVE  LineOk(n, l) /\ l.cmd # "STOP" /\ l.cmd # "FENCE_OUT"
BY DEF Line, LineOk

(* What node n has of the round, once its rank is started there.           *)
LEMMA LocalPipe ==
    ASSUME Types, Types', NEW n \in Rank, NEW lines \in Seq(PlainLine),
           OldHelper(n, lines) \/ NewHelper(n, lines) \/ NoHelper(n)
    PROVE  /\ OutsLess(n)
           /\ OldHelper(n, lines) => /\ Fewer(n)
                                     /\ \A i \in DOMAIN stdin[n] : i \in DOMAIN stdin'[n] /\ stdin'[n][i] = stdin[n][i]
           /\ ~OldHelper(n, lines) => NoOut(n)'
           /\ \A i \in DOMAIN stdin'[n] :
                 \/ \E j \in DOMAIN stdin[n] : stdin[n][j] = stdin'[n][i]
                 \/ \E j \in DOMAIN lines : stdin'[n][i] = lines[j]
<1>1. CASE OldHelper(n, lines)
  <2>1. stdin'[n] = stdin[n] \o lines /\ Alive(n)' = Alive(n)
    BY <1>1 DEF OldHelper, Alive
  <2>2. /\ Fewer(n) /\ OutsLess(n)
        /\ \A i \in DOMAIN stdin[n] : i \in DOMAIN stdin'[n] /\ stdin'[n][i] = stdin[n][i]
        /\ \A i \in DOMAIN stdin'[n] : i \in DOMAIN stdin[n] \/ \E j \in DOMAIN lines : stdin'[n][i] = lines[j]
    BY <2>1, PipePlain
  <2> QED BY <1>1, <2>2
<1>2. CASE ~OldHelper(n, lines) /\ NewHelper(n, lines)
  <2>1. stdin'[n] = lines
    BY <1>2 DEF NewHelper
  <2>2. NoOut(n)' /\ OutsLess(n)
    BY <2>1, PipeNew
  <2> QED BY <1>2, <2>1, <2>2
<1>3. CASE ~OldHelper(n, lines) /\ NoHelper(n)
  <2>1. stdin'[n] = <<>> /\ <<>> \in Seq(PlainLine) /\ DOMAIN <<>> = {}
    BY <1>3 DEF NoHelper
  <2>2. NoOut(n)' /\ OutsLess(n)
    BY <2>1, PipeNew
  <2> QED BY <1>3, <2>1, <2>2
<1> QED BY <1>1, <1>2, <1>3

(* A helper that has nothing to answer.                                    *)
NoIds(n) == /\ DOMAIN pending[n] = {} /\ storing[n] = <<>> /\ stdout[n] = <<>>
            /\ localIds[n] = <<>> /\ NoOut(n)

LEMMA EmptyIds == ASSUME NEW n, NoIds(n) PROVE IdOk(n)
BY DEF NoIds, IdOk, PendingOk, NoOut

LEMMA EmptyIdsNext == ASSUME NEW n, NoIds(n)' PROVE IdOk(n)'
BY DEF NoIds, IdOk, PendingOk, NoOut, IsOut

LEMMA StartRankFence ==
    ASSUME Types, Types', FenceInv, Begun, NEW m \in net, StartRank(m)
    PROVE  FenceInv'
<1> DEFINE n == m.to
           t == m.task
           lines == RegisterLines(n)
<1>1. n \in Rank \ {0} /\ t \in Task /\ m \in StartMsg /\ m.type = "start"
  BY Messages DEF StartRank, StartMsg
<1>2. /\ UNCHANGED <<peers, round, tasks, history>> /\ net' = net \ {m}
      /\ expected'[0] = expected[0] /\ follows'[n]
      /\ \A p \in Rank \ {n} : follows'[p] = follows[p] /\ replyTo'[p] = replyTo[p]
      /\ t \in replyTo'[n]
  <2>1. /\ UNCHANGED <<peers, round, tasks, history>> /\ net' = net \ {m}
        /\ follows' = [follows EXCEPT ![n] = TRUE]
        /\ replyTo' = [replyTo EXCEPT ![n] = replyTo[n] \cup {t}]
    BY DEF StartRank
  <2>2. expected'[0] = expected[0]
    BY <1>1, Constants DEF StartRank, Types, SessionTypes
  <2>3. DOMAIN follows = Rank /\ DOMAIN replyTo = Rank
    BY DEF Types, SessionTypes, BookTypes
  <2> QED BY <1>1, <2>1, <2>2, <2>3
<1>3. PICK fault \in {"none", "helper", "container"} :
          Spend(fault) /\ StartRankLocal(n, t, lines, fault)
  BY DEF StartRank
<1> HIDE DEF n, t
<1>4. lines \in Seq(PlainLine)
  BY <1>1, RegisterLine
<1> HIDE DEF lines
<1>5. /\ \A p \in Rank \ {n} : OtherNode(p)
      /\ OldHelper(n, lines) \/ NewHelper(n, lines) \/ (NoHelper(n) /\ fault = "helper")
      /\ fault # "container" /\ rank[n].st = "off" => rank'[n] = Up(t)
      /\ rank'[n] = rank[n] \/ rank'[n] = Up(t)
      /\ contTask'[n] = contTask[n] \/ contTask'[n] = t
      /\ fault # "container" => contTask'[n] = t
  BY <1>1, <1>3, LocalIs
<1>6. /\ OutsLess(n)
      /\ OldHelper(n, lines) =>
            Fewer(n) /\ \A i \in DOMAIN stdin[n] : i \in DOMAIN stdin'[n] /\ stdin'[n][i] = stdin[n][i]
      /\ ~OldHelper(n, lines) => NoOut(n)'
      /\ \A i \in DOMAIN stdin'[n] :
            \/ \E j \in DOMAIN stdin[n] : stdin[n][j] = stdin'[n][i]
            \/ \E j \in DOMAIN lines : stdin'[n][i] = lines[j]
  BY <1>1, <1>4, <1>5, LocalPipe
<1>7. /\ faults # <<>> => faults' # <<>>
      /\ faults' = <<>> => fault = "none" /\ faults = <<>>
  BY <1>3, SpendFaults DEF Types
<1>8. /\ rank[n].st = "off" /\ Current(t) /\ entered[t][n] = 0
      /\ \A x \in net : x.type = "start" /\ x.to = n => x = m
  <2>1. AtStart(n)
    BY <1>1 DEF FenceInv, RankInv
  <2>2. ASSUME NEW x \in net, x.type = "start", x.to = n PROVE x = m
    <3>1. x \in StartMsg /\ Current(x.task) /\ Current(t)
      BY <1>1, <2>1, <2>2, Messages DEF AtStart, n, t
    <3>2. x.task = m.task
      BY <3>1, CurrentOne DEF t
    <3> QED BY <1>1, <2>2, <3>1, <3>2 DEF StartMsg, n
  <2> QED BY <1>1, <2>1, <2>2 DEF AtStart, n, t
<1>9. Kept /\ \A k : Less(k)
  BY <1>2, TasksKept DEF Less
<1>10. Started(t) /\ \A u : Current(u)' = Current(u)
  BY <1>8, <1>9, SameCurrent DEF Current
<1>11. TaskInv'
  <2>1. \A p \in Rank : contTask'[p] = contTask[p] \/ Started(contTask'[p])
    BY <1>5, <1>10 DEF OtherNode
  <2> QED BY <1>2, <1>9, <2>1, TaskKept DEF FenceInv, history, Less
<1>12. SessionInv'
  <2>1. OtherNode(0) /\ 0 \in Rank
    BY <1>1, <1>5, Constants
  <2>2. Stopped => Stopped'
    BY <1>7, <2>1 DEF Stopped, OtherNode
  <2>3. ASSUME NEW p \in Rank PROVE LineInv(p)'
    <3> SUFFICES ASSUME NEW i \in DOMAIN stdin'[p]
                 PROVE  /\ LineOk(p, stdin'[p][i])
                        /\ stdin'[p][i].cmd = "STOP" => p = 0 /\ Stopped'
      BY DEF LineInv, LineOk, Data
    <3>1. CASE \E j \in DOMAIN stdin[p] : stdin[p][j] = stdin'[p][i]
      BY <2>2, <3>1 DEF FenceInv, SessionInv
    <3>2. CASE p = n /\ \E j \in DOMAIN lines : stdin'[n][i] = lines[j]
      BY <3>2, RegisterLine, LinesOk DEF lines
    <3> QED BY <1>5, <1>6, <3>1, <3>2 DEF OtherNode
  <2>4. \A p \in Rank : main'[p].at = "drain" => main[p].at = "drain"
    BY <1>5 DEF OtherNode, OldHelper, NewHelper, NoHelper
  <2>5. \A p \in Rank : contrib'[p] = contrib[p] \/ contrib'[p] = 0
    BY <1>5 DEF OtherNode, OldHelper, NewHelper, NoHelper
  <2>6. \A p \in Rank : helper[p] => helper'[p]
    BY <1>5 DEF OtherNode, OldHelper, NewHelper, NoHelper
  <2>7. \A p \in Rank \ {0} : helper'[p] => follows'[p]
    BY <1>2, <1>5 DEF FenceInv, SessionInv, OtherNode
  <2>8. ~follows'[0] /\ (expected'[0] = 0 => ~helper'[0] /\ ~peers')
    BY <1>1, <1>2, <2>1 DEF FenceInv, SessionInv, OtherNode
  <2>9. \A p \in Rank : ~helper'[p] => localIds'[p] = <<>>
    BY <1>2, <2>6 DEF FenceInv, SessionInv, round
  <2>10. \A p \in Rank : contrib'[p] \in {0, p}
    BY <2>5 DEF FenceInv, SessionInv
  <2>11. \A p \in Rank : main'[p].at = "drain" => p = 0 /\ Stopped'
    BY <2>2, <2>4 DEF FenceInv, SessionInv
  <2> QED BY <2>3, <2>7, <2>8, <2>9, <2>10, <2>11 DEF SessionInv, LineInv
<1>13. RankInv'
  <2>1. \A p \in Rank \ {n} : AtRank(p)' /\ AtStart(p)' /\ Answers(p)'
    BY <1>2, <1>5, <1>9, RankSame DEF FenceInv, OtherNode, history
  <2>2. AtRank(n)'
    <3>1. CASE rank'[n] = rank[n]
      BY <1>8, <3>1 DEF AtRank
    <3>2. CASE rank'[n] = Up(t)
      <4>1. rank'[n].task = t /\ rank'[n].st = "up" /\ rank'[n].k = 0
        BY <3>2 DEF Up
      <4>2. Current(t)' /\ entered'[t][n] = 0
        BY <1>2, <1>8, <1>10 DEF history
      <4> QED BY <4>1, <4>2 DEF AtRank
    <3> QED BY <1>5, <3>1, <3>2
  <2>3. AtStart(n)'
    BY <1>2, <1>8 DEF AtStart
  <2>4. Answers(n)'
    BY <1>1, <1>2 DEF FenceInv, RankInv, Answers, history
  <2> QED BY <2>1, <2>2, <2>3, <2>4 DEF RankInv
<1>14. CallsLess
  <2>1. \A p \in Rank : /\ storing'[p] = storing[p] \/ storing'[p] = <<>>
                        /\ stdout'[p] = stdout[p] \/ stdout'[p] = <<>>
    BY <1>5 DEF OtherNode, OldHelper, NewHelper, NoHelper
  <2> QED BY <1>2, <1>9, <2>1 DEF CallsLess, round
<1>15. CallInv' /\ \A c \in Calls : Live(c)' => Live(c)
  BY <1>2, <1>9, <1>14, CallLess DEF FenceInv, history
<1>16. \A p \in Rank \ {n} : Fewer(p) /\ OutsLess(p) /\ Alive(p)' = Alive(p) /\ Reads(p)' = Reads(p)
  BY <1>5, PipeSame DEF OtherNode, OutsLess, Alive, Reads
<1>17. RoundInv' /\ ResultInv'
  <2>1. \A p \in Rank : OutsLess(p)
    BY <1>6, <1>16
  <2> QED BY <1>2, <1>9, <1>15, <2>1, RoundLess, ResultLess DEF FenceInv, history
<1>18. IdInv'
  <2> SUFFICES ASSUME NEW p \in Rank, Reads(p)' PROVE IdOk(p)'
    BY DEF IdInv
  <2>1. SameRounds(p) /\ (Reads(p) => IdOk(p))
    BY <1>2 DEF SameRounds, history, FenceInv, IdInv
  <2>2. CASE p # n
    <3>1. IdsLess(p)
      BY <1>2, <1>5, <1>16, <2>2 DEF IdsLess, OtherNode, round
    <3> QED BY <1>9, <2>1, <3>1, IdLess
  <2>3. CASE p = n /\ OldHelper(n, lines)
    <3>1. IdsLess(p)
      BY <1>2, <1>6, <2>3 DEF IdsLess, OldHelper, Reads, Alive, round
    <3> QED BY <1>9, <2>1, <3>1, IdLess
  <2>4. CASE p = n /\ NewHelper(n, lines)
    <3>1. /\ pending'[n] = <<>> /\ storing'[n] = <<>> /\ stdout'[n] = <<>> /\ localIds'[n] = <<>>
          /\ NoOut(n)'
      BY <1>1, <1>2, <1>6, <2>4 DEF NewHelper, OldHelper, FenceInv, SessionInv, round
    <3>2. DOMAIN <<>> = {}
      OBVIOUS
    <3>3. NoIds(n)'
      BY <3>1, <3>2 DEF NoIds
    <3> QED BY <2>4, <3>3, EmptyIdsNext
  <2>5. CASE p = n /\ NoHelper(n)
    <3>1. faults' # <<>> \/ fault # "helper"
      BY <1>7
    <3>2. IdsLess(p)
      BY <1>2, <1>6, <2>5 DEF IdsLess, NoHelper, OldHelper, Reads, Alive, round
    <3> QED BY <1>9, <2>1, <3>2, IdLess
  <2> QED BY <1>5, <2>2, <2>3, <2>4, <2>5
<1>19. ASSUME faults' = <<>> PROVE (\A p \in Rank : Registers(p)') /\ ReportsOk' /\ CalmOk'
  <2>1. fault = "none" /\ (\A p \in Rank : Registers(p)) /\ ReportsOk /\ CalmOk
    BY <1>7, <1>19 DEF FenceInv, QuietInv
  <2>2. rank'[n] = Up(t) /\ contTask'[n] = t /\ (OldHelper(n, lines) \/ NewHelper(n, lines))
    BY <1>5, <1>8, <2>1
  <2>3. rank'[n].st = "up" /\ rank'[n].task = t
    BY <2>2 DEF Up
  <2>4. ASSUME NEW p \in Rank PROVE Registers(p)'
    <3>1. CASE p # n
      BY <1>2, <1>5, <2>1, <3>1 DEF Registers, OtherNode
    <3>2. CASE p = n /\ OldHelper(n, lines)
      <4>1. Registers(n)
        BY <2>1, <3>2
      <4>2. main'[n].at = "read" => n \in clients'[n] \/ \E i \in DOMAIN stdin'[n] : stdin'[n][i].cmd = "REGISTER"
        <5>1. main'[n] = main[n] /\ clients'[n] = clients[n]
          BY <3>2 DEF OldHelper
        <5>2. \A i \in DOMAIN stdin[n] : i \in DOMAIN stdin'[n] /\ stdin'[n][i] = stdin[n][i]
          BY <1>6, <3>2
        <5>3. main[n].at = "read" => n \in clients[n] \/ \E i \in DOMAIN stdin[n] : stdin[n][i].cmd = "REGISTER"
          BY <4>1 DEF Registers
        <5> QED BY <5>1, <5>2, <5>3
      <4> QED BY <1>2, <2>2, <2>3, <3>2, <4>1, <4>2 DEF Registers, OldHelper
    <3>3. CASE p = n /\ NewHelper(n, lines)
      <4>1. main'[n].at = "read" /\ "read" \notin Wait
        BY <3>3 DEF NewHelper, Wait
      <4>2. 1 \in DOMAIN stdin'[n] /\ stdin'[n][1].cmd = "REGISTER"
        <5>1. stdin'[n] = RegisterLines(n)
          BY <3>3 DEF NewHelper, lines
        <5>2. Line("REGISTER", n).cmd = "REGISTER"
          BY DEF Line
        <5>3. 1 \in DOMAIN RegisterLines(n) /\ RegisterLines(n)[1] = Line("REGISTER", n)
          BY <1>1, RegisterLine
        <5> QED BY <5>1, <5>2, <5>3
      <4>3. \E i \in DOMAIN stdin'[n] : stdin'[n][i].cmd = "REGISTER"
        BY <4>2
      <4>4. helper'[n] /\ ops'[n] = <<>>
        BY <3>3 DEF NewHelper
      <4> QED BY <1>2, <2>2, <2>3, <3>3, <4>1, <4>3, <4>4 DEF Registers
    <3> QED BY <2>2, <3>1, <3>2, <3>3
  <2>5. CalmOk'
    <3>1. \A p \in Rank : rank[p].st = "fence" => rank'[p].st = "fence"
      BY <1>5, <1>8 DEF OtherNode
    <3>2. \A p \in Rank : Alive(p)' /\ DOMAIN pending'[p] # {} => Alive(p) /\ DOMAIN pending[p] # {}
      <4>1. \A p \in Rank \ {n} : Alive(p)' = Alive(p) /\ pending'[p] = pending[p]
        BY <1>5, <1>16 DEF OtherNode
      <4>2. Alive(n)' /\ DOMAIN pending'[n] # {} => Alive(n) /\ DOMAIN pending[n] # {}
        BY <1>5 DEF OldHelper, NewHelper, NoHelper, Alive
      <4> QED BY <4>1, <4>2
    <3> QED BY <1>9, <1>15, <2>1, <3>1, <3>2, CalmLess
  <2>6. ReportsOk'
    <3>1. \A x \in net : x.type = "done" => x.from \in Rank /\ x.from # n
      BY <1>1, <2>1, Messages DEF ReportsOk, DoneMsg, n
    <3>2. ASSUME NEW p \in Rank PROVE Owes(p)' <=> Owes(p)
      <4>1. CASE p = n
        BY <1>1, <2>3, <4>1 DEF Owes, n
      <4>2. CASE p # n
        <5>1. rank'[p] = rank[p]
          BY <1>5, <4>2 DEF OtherNode
        <5>2. \A x \in net : x \in net' \/ (x.type = "start" /\ x.to = n)
          BY <1>1, <1>2 DEF n
        <5>3. \A x \in net' : x \in net
          BY <1>2
        <5> QED BY <4>2, <5>1, <5>2, <5>3 DEF Owes
      <4> QED BY <4>1, <4>2
    <3>3. Reported' = Reported
      BY <3>2 DEF Reported
    <3>4. ASSUME NEW x \in net', x.type = "done"
          PROVE  /\ Current(x.task)' /\ rank'[x.from].st = "off"
                 /\ \A y \in net' : y.type = "done" /\ y.from = x.from => y = x
                 /\ \A y \in net' : y.type = "start" => y.to # x.from
      <4>1. x \in net /\ \A y \in net' : y \in net
        BY <1>2
      <4>2. /\ Current(x.task) /\ rank[x.from].st = "off"
            /\ \A y \in net : y.type = "done" /\ y.from = x.from => y = x
            /\ \A y \in net : y.type = "start" => y.to # x.from
        BY <2>1, <3>4, <4>1 DEF ReportsOk
      <4>3. rank'[x.from] = rank[x.from]
        BY <1>5, <3>1, <3>4, <4>1 DEF OtherNode
      <4>4. Current(x.task)'
        BY <1>10, <4>2
      <4> QED BY <4>1, <4>2, <4>3, <4>4
    <3>5. \A u \in Task : Current(u)' => /\ tasks'[u].done = Cardinality(Reported')
                                         /\ tasks'[u].st = "ended" => Reported' = Rank
      BY <1>2, <1>10, <2>1, <3>3 DEF ReportsOk
    <3> QED BY <3>4, <3>5 DEF ReportsOk
  <2> QED BY <2>4, <2>5, <2>6
<1> QED BY <1>11, <1>12, <1>13, <1>15, <1>17, <1>18, <1>19 DEF FenceInv, QuietInv

LEMMA NothingLive ==
    ASSUME Types, \A c \in Calls : ~Live(c)
    PROVE  arrived = <<>> /\ \A n \in Rank : storing[n] = <<>> /\ stdout[n] = <<>>
<1>1. ASSUME NEW n \in Rank, storing[n] # <<>> PROVE FALSE
  <2>1. storing[n] \in Seq([id : Nat, call : Calls])
    BY DEF Types, ProcessTypes
  <2>2. storing[n][1] \in [id : Nat, call : Calls]
    BY <1>1, <2>1, TailLines
  <2>3. storing[n][1].call \in Calls
    BY <2>2
  <2> QED BY <1>1, <2>3 DEF Live, InStore
<1>2. ASSUME NEW n \in Rank, stdout[n] # <<>> PROVE FALSE
  <2>1. stdout[n] \in Seq(InLine)
    BY DEF Types, PipeTypes
  <2>2. stdout[n][1] \in InLine
    BY <1>2, <2>1, TailLines
  <2>3. stdout[n][1].call \in Calls
    BY <2>2 DEF InLine
  <2> QED BY <1>2, <2>3 DEF Live, InPipe
<1>3. arrived = <<>>
  <2>1. arrived \in Blobs
    BY DEF Types, RoundTypes
  <2>2. DOMAIN arrived = {}
    BY <2>1, PartialFunction DEF Live, InRound, Blobs
  <2>3. arrived \in Partial(Rank, Calls) /\ arrived = [x \in DOMAIN arrived |-> arrived[x]]
    BY <2>1, PartialFunction DEF Blobs
  <2>4. arrived = [x \in {} |-> arrived[x]]
    BY <2>2, <2>3
  <2>5. [x \in {} |-> arrived[x]] = <<>>
    BY EmptySeq DEF Partial
  <2> QED BY <2>4, <2>5
<1> QED BY <1>1, <1>2, <1>3

LEMMA SpawnLine ==
    LET u == <<Line("REGISTER", 0)>> \o RegisterLines(0) IN
        /\ u \in Seq(PlainLine)
        /\ 1 \in DOMAIN u /\ u[1] = Line("REGISTER", 0)
        /\ \A i \in DOMAIN u : u[i] \in {Line("REGISTER", 0), Line("CONTRIB_ID", 0)}
<1> DEFINE a == Line("REGISTER", 0)  b == Line("CONTRIB_ID", 0)
           s == <<a>>  u == RegisterLines(0)
<1>1. a \in PlainLine
  BY Constants DEF Line, PlainLine
<1>2. /\ u \in Seq(PlainLine)
      /\ \A i \in DOMAIN u : u[i] \in {a, b}
  BY Constants, RegisterLine
<1> HIDE DEF a, b, u
<1>3. s \in Seq(PlainLine) /\ 1 \in DOMAIN s /\ \A i \in DOMAIN s : s[i] = a
  BY <1>1
<1> HIDE DEF s
<1>4. /\ s \o u \in Seq(PlainLine)
      /\ DOMAIN s \subseteq DOMAIN (s \o u)
      /\ \A i \in DOMAIN s : (s \o u)[i] = s[i]
      /\ \A i \in DOMAIN (s \o u) :
            i \in DOMAIN s \/ (i - Len(s) \in DOMAIN u /\ (s \o u)[i] = u[i - Len(s)])
  BY <1>2, <1>3, ConcatLines
<1>5. 1 \in DOMAIN (s \o u) /\ (s \o u)[1] = a /\ \A i \in DOMAIN (s \o u) : (s \o u)[i] \in {a, b}
  BY <1>2, <1>3, <1>4
<1> QED BY <1>4, <1>5 DEF s, u, a, b

(* A script that stops at the first failure starts a task when nothing of  *)
(* the one before is left.                                                 *)
Quiet == /\ faults = <<>> /\ net = {} /\ arrived = <<>>
         /\ \A n \in Rank : /\ rank[n].st = "off" /\ storing[n] = <<>> /\ stdout[n] = <<>>
                            /\ localIds[n] = <<>> /\ (Alive(n) => NoIds(n) /\ helper[n])
         /\ \A c \in Calls : ~Live(c)

LEMMA SpawnQuiet ==
    ASSUME Types, FenceInv, GoesOn = FALSE, NEW t \in Task, SpawnTask(t)
    PROVE  Quiet
<1>1. /\ ~Started(t) /\ \A u \in Task : u > t => ~Started(u)
  <2>1. ~Started(t)
    BY DEF SpawnTask, Started
  <2> QED BY <2>1 DEF FenceInv, TaskInv
<1>2. CASE \A u \in Task : ~Started(u)
  <2>1. Pristine
    BY <1>2 DEF FenceInv, TaskInv
  <2>2. \A c \in Calls : ~Live(c)
    BY <1>2 DEF FenceInv, CallInv, Current
  <2> QED BY <2>1, <2>2, NothingLive DEF Pristine, Quiet, FenceInv, SessionInv, Alive
<1>3. CASE \E u \in Task : Started(u)
  <2>1. t - 1 \in Task /\ t - 1 \in 1..t-1
    <3>1. PICK u \in Task : Started(u)
      BY <1>3
    <3>2. u < t
      <4>1. ~(u > t) /\ u # t
        BY <1>1, <3>1
      <4>2. u \in Int /\ t \in Int
        BY DEF Task
      <4> QED BY <4>1, <4>2
    <3> QED BY <3>2, Constants DEF Task
  <2>2. tasks[t - 1].st = "ended" /\ faults = <<>>
    BY <2>1 DEF SpawnTask
  <2>3. Current(t - 1)
    <3>1. \A u \in Task : u > t - 1 => u = t \/ u > t
      BY Constants DEF Task
    <3> QED BY <1>1, <2>1, <2>2, <3>1 DEF Current, Started
  <2>4. (\A n \in Rank : Registers(n)) /\ ReportsOk /\ CalmOk
    BY <2>2 DEF FenceInv, QuietInv
  <2>5. Reported = Rank
    BY <2>1, <2>2, <2>3, <2>4 DEF ReportsOk
  <2>6. \A n \in Rank : ~Owes(n)
    BY <2>5 DEF Reported
  <2>7. \A n \in Rank : rank[n].st = "off"
    BY <2>6 DEF Owes
  <2>8. \A c \in Calls : ~Live(c)
    BY <2>4, <2>7 DEF CalmOk, Calls
  <2>9. net = {}
    <3> SUFFICES ASSUME NEW m \in net PROVE FALSE
      OBVIOUS
    <3>1. /\ m.type \in {"start", "contrib", "result", "done"}
          /\ m.type \in {"start", "result"} => m.to \in Rank
          /\ m.type = "done" => m.from \in Rank
          /\ m.type = "contrib" => m.call \in Calls
      BY Messages DEF StartMsg, ContribMsg, ResultMsg, DoneMsg
    <3>2. m.type \notin {"start", "done"}
      BY <2>6, <3>1 DEF Owes
    <3>3. m.type # "result"
      BY <2>4, <2>7, <3>1 DEF CalmOk
    <3>4. m.type # "contrib"
      BY <2>8, <3>1 DEF Live, InCast
    <3> QED BY <3>1, <3>2, <3>3, <3>4
  <2>10. ASSUME NEW n \in Rank, Alive(n) PROVE NoIds(n) /\ helper[n]
    <3>1. helper[n] /\ Reads(n)
      BY <2>2, <2>4, <2>10 DEF Registers, Reads, Alive, Wait
    <3>2. IdOk(n)
      BY <3>1 DEF FenceInv, IdInv
    <3>3. DOMAIN pending[n] = {}
      BY <2>4, <2>7, <2>10 DEF CalmOk
    <3>4. storing[n] = <<>> /\ stdout[n] = <<>>
      BY <2>8, NothingLive
    <3> QED BY <3>1, <3>2, <3>3, <3>4 DEF IdOk, NoIds, NoOut
  <2>11. ASSUME NEW n \in Rank, ~Alive(n) PROVE localIds[n] = <<>>
    <3>1. ~helper[n]
      BY <2>4, <2>11 DEF Registers, Alive, Wait
    <3> QED BY <3>1 DEF FenceInv, SessionInv
  <2> QED BY <2>2, <2>7, <2>8, <2>9, <2>10, <2>11, NothingLive DEF Quiet, NoIds
<1> QED BY <1>2, <1>3

LEMMA CurrentOneNext == ASSUME NEW t, NEW u, Current(t)', Current(u)' PROVE t = u
<1>1. t \in Int /\ u \in Int
  BY Constants DEF Current, Task
<1> QED BY <1>1 DEF Current

LEMMA SpawnedIs ==
    ASSUME Types, NEW t \in Task, NEW fault,
           tasks' = LET tt == [tasks EXCEPT ![t].st = "running"]
                    IN IF fault = "container" THEN finish(tt, t, 1) ELSE tt
    PROVE  /\ \A u \in Task \ {t} : tasks'[u] = tasks[u]
           /\ tasks'[t].done = tasks[t].done /\ tasks'[t].st \in {"running", "ended"}
           /\ fault # "container" => tasks'[t].st = "running"
<1> DEFINE s == tasks[t]
           x == [s EXCEPT !.st = "running"]
           y == [x EXCEPT !.st = "ended", !.code = 1]
           tt == [tasks EXCEPT ![t].st = "running"]
<1>1. tasks \in [Task -> TaskState] /\ s \in TaskState
  BY DEF Types, BookTypes
<1>2. tt = [tasks EXCEPT ![t] = x] /\ tt[t] = x
  BY <1>1
<1>3. x.done = s.done /\ x.st = "running" /\ y.done = s.done /\ y.st = "ended"
  <2> HIDE DEF s
  <2> QED BY <1>1 DEF TaskState
<1>4. CASE fault = "container"
  <2>1. tasks' = [tt EXCEPT ![t] = [tt[t] EXCEPT !.st = "ended", !.code = 1]]
    BY <1>4 DEF finish
  <2>2. tasks' = [tasks EXCEPT ![t] = y]
    BY <1>1, <1>2, <2>1
  <2> HIDE DEF y
  <2>3. tasks'[t] = y /\ \A u \in Task \ {t} : tasks'[u] = tasks[u]
    BY <1>1, <2>2
  <2> QED BY <1>3, <1>4, <2>3
<1>5. CASE fault # "container"
  <2>1. tasks' = [tasks EXCEPT ![t] = x]
    BY <1>2, <1>5
  <2> HIDE DEF x
  <2>2. tasks'[t] = x /\ \A u \in Task \ {t} : tasks'[u] = tasks[u]
    BY <1>1, <2>1
  <2> QED BY <1>3, <1>5, <2>2
<1> QED BY <1>4, <1>5

LEMMA SpawnTaskFence ==
    ASSUME Types, Types', FenceInv, GoesOn = FALSE, NEW t \in Task, SpawnTask(t)
    PROVE  FenceInv'
<1> DEFINE lines == <<Line("REGISTER", 0)>> \o RegisterLines(0)
<1>1. Quiet
  BY SpawnQuiet
<1>2. /\ UNCHANGED <<follows, round, replyTo, history>> /\ peers' /\ 0 \in Rank
      /\ expected'[0] # 0
      /\ net' = {[type |-> "start", to |-> n, task |-> t] : n \in Rank \ {0}}
  <2>1. expected' = [expected EXCEPT ![0] = N] /\ DOMAIN expected = Rank
    BY DEF SpawnTask, Types, SessionTypes
  <2> QED BY <1>1, <2>1, Constants DEF SpawnTask, Quiet
<1>3. PICK fault \in {"none", "helper", "container"} :
          /\ Spend(fault) /\ StartRankLocal(0, t, lines, fault)
          /\ tasks' = LET tt == [tasks EXCEPT ![t].st = "running"]
                      IN IF fault = "container" THEN finish(tt, t, 1) ELSE tt
  BY DEF SpawnTask
<1>4. /\ lines \in Seq(PlainLine)
      /\ 1 \in DOMAIN lines /\ lines[1] = Line("REGISTER", 0)
      /\ \A i \in DOMAIN lines : lines[i] \in {Line("REGISTER", 0), Line("CONTRIB_ID", 0)}
  BY SpawnLine
<1> HIDE DEF lines
<1>5. /\ \A p \in Rank \ {0} : OtherNode(p)
      /\ OldHelper(0, lines) \/ NewHelper(0, lines) \/ (NoHelper(0) /\ fault = "helper")
      /\ fault # "container" /\ rank[0].st = "off" => rank'[0] = Up(t)
      /\ rank'[0] = rank[0] \/ rank'[0] = Up(t)
      /\ contTask'[0] = contTask[0] \/ contTask'[0] = t
      /\ fault # "container" => contTask'[0] = t
  BY <1>2, <1>3, LocalIs
<1>6. /\ OldHelper(0, lines) =>
            \A i \in DOMAIN stdin[0] : i \in DOMAIN stdin'[0] /\ stdin'[0][i] = stdin[0][i]
      /\ ~OldHelper(0, lines) => NoOut(0)'
      /\ OutsLess(0)
      /\ \A i \in DOMAIN stdin'[0] :
            \/ \E j \in DOMAIN stdin[0] : stdin[0][j] = stdin'[0][i]
            \/ \E j \in DOMAIN lines : stdin'[0][i] = lines[j]
  BY <1>2, <1>4, <1>5, LocalPipe
<1>7. faults' = <<>> => fault = "none"
  BY <1>3, SpendFaults DEF Types
<1>8. /\ \A u \in Task \ {t} : tasks'[u] = tasks[u]
      /\ tasks'[t].done = tasks[t].done /\ tasks'[t].st \in {"running", "ended"}
      /\ fault # "container" => tasks'[t].st = "running"
  BY <1>3, SpawnedIs
<1>9. ~Started(t) /\ (\A u \in Task : u > t => ~Started(u)) /\ \A u \in Task : u < t => Started(u)
  <2>1. ~Started(t)
    BY DEF SpawnTask, Started
  <2>2. \A u \in Task : u < t => u \in 1..t-1
    BY Constants DEF Task
  <2>3. \A u \in Task : u < t => Started(u)
    BY <2>2 DEF SpawnTask, Started
  <2> QED BY <2>1, <2>3 DEF FenceInv, TaskInv
<1>10. /\ \A u \in Task : Started(u)' <=> Started(u) \/ u = t
       /\ \A u : Current(u)' <=> u = t
  <2>1. \A u \in Task : Started(u)' <=> Started(u) \/ u = t
    BY <1>8 DEF Started
  <2>2. \A u \in Task : u \in Int /\ (u < t \/ u = t \/ u > t) /\ (u > t => ~(t > u))
    BY Constants DEF Task
  <2>3. Current(t)'
    BY <1>9, <2>1, <2>2 DEF Current
  <2>4. \A u : Current(u)' => u = t
    BY <2>3, CurrentOneNext
  <2> QED BY <2>1, <2>3, <2>4
<1>11. \A m \in net' : m.type = "start" /\ m.task = t /\ m.to \in Rank \ {0}
  BY <1>2
<1>12. \A r \in Rank : entered'[t][r] = 0
  BY <1>2, <1>9 DEF FenceInv, TaskInv, history
<1>13. TaskInv'
  <2>1. \A u, w \in Task : w < u /\ Started(u)' => Started(w)'
    BY <1>9, <1>10 DEF FenceInv, TaskInv
  <2>2. \A u \in Task : ~Started(u)' => tasks'[u].done = 0 /\ \A r \in Rank : entered'[u][r] = 0
    BY <1>2, <1>8, <1>10 DEF FenceInv, TaskInv, history
  <2>3. \A p \in Rank : (contTask[p] # 0 => Started(contTask[p]))'
    <3>1. \A p \in Rank : contTask'[p] = contTask[p] \/ contTask'[p] = t
      BY <1>5 DEF OtherNode
    <3>2. contTask' \in [Rank -> Task \cup {0}]
      BY DEF Types, BookTypes
    <3> QED BY <1>10, <3>1, <3>2 DEF FenceInv, TaskInv
  <2>4. ~\A u \in Task : ~Started(u)'
    BY <1>10
  <2>5. \A m \in net' : m.type # "done"
    BY <1>11
  <2> QED BY <2>1, <2>2, <2>3, <2>4, <2>5 DEF TaskInv
<1>14. SessionInv'
  <2>1. ASSUME NEW p \in Rank PROVE LineInv(p)'
    <3> SUFFICES ASSUME NEW i \in DOMAIN stdin'[p]
                 PROVE  LineOk(p, stdin'[p][i]) /\ stdin'[p][i].cmd # "STOP"
      BY DEF LineInv, LineOk, Data
    <3>1. CASE \E j \in DOMAIN stdin[p] : stdin[p][j] = stdin'[p][i]
      BY <1>1, <3>1 DEF FenceInv, SessionInv, Stopped, Quiet
    <3>2. CASE p = 0 /\ \E j \in DOMAIN lines : stdin'[0][i] = lines[j]
      BY <1>2, <1>4, <3>2, LinesOk
    <3> QED BY <1>5, <1>6, <3>1, <3>2 DEF OtherNode
  <2>2. \A p \in Rank : main'[p].at # "drain"
    <3>1. \A p \in Rank : main[p].at # "drain"
      BY <1>1 DEF FenceInv, SessionInv, Stopped, Quiet
    <3> QED BY <1>5, <3>1 DEF OtherNode, OldHelper, NewHelper, NoHelper
  <2>3. \A p \in Rank : contrib'[p] = contrib[p] \/ contrib'[p] = 0
    BY <1>5 DEF OtherNode, OldHelper, NewHelper, NoHelper
  <2>4. \A p \in Rank \ {0} : helper'[p] => follows'[p]
    BY <1>2, <1>5 DEF FenceInv, SessionInv, OtherNode
  <2>5. \A p \in Rank : localIds'[p] = <<>>
    BY <1>1, <1>2 DEF Quiet, round
  <2>6. \A p \in Rank : contrib'[p] \in {0, p}
    BY <2>3 DEF FenceInv, SessionInv
  <2>7. ~follows'[0] /\ (expected'[0] = 0 => ~helper'[0] /\ ~peers')
    BY <1>2 DEF FenceInv, SessionInv
  <2> QED BY <2>1, <2>2, <2>4, <2>5, <2>6, <2>7 DEF SessionInv, LineInv
<1>15. RankInv'
  <2>1. ASSUME NEW p \in Rank PROVE AtRank(p)'
    <3>1. CASE rank'[p].st = "off"
      BY <3>1 DEF AtRank
    <3>2. CASE rank'[p].st # "off"
      <4>1. rank'[p] = Up(t)
        BY <1>1, <1>5, <3>2 DEF OtherNode, Quiet
      <4>2. rank'[p].task = t /\ rank'[p].st = "up" /\ rank'[p].k = 0
        BY <4>1 DEF Up
      <4> QED BY <1>10, <1>12, <4>2 DEF AtRank
    <3> QED BY <3>1, <3>2
  <2>2. ASSUME NEW p \in Rank PROVE AtStart(p)'
    <3>1. p # 0 => rank'[p].st = "off"
      BY <1>1, <1>5 DEF OtherNode, Quiet
    <3> QED BY <1>10, <1>11, <1>12, <3>1 DEF AtStart
  <2>3. ASSUME NEW p \in Rank PROVE Answers(p)'
    BY <1>2 DEF FenceInv, RankInv, Answers, history
  <2> QED BY <2>1, <2>2, <2>3 DEF RankInv
<1>16. /\ \A p \in Rank : storing'[p] = <<>> /\ stdout'[p] = <<>> /\ localIds'[p] = <<>>
       /\ arrived' = <<>>
  <2>1. \A p \in Rank : storing'[p] = <<>> /\ stdout'[p] = <<>>
    BY <1>1, <1>5 DEF OtherNode, OldHelper, NewHelper, NoHelper, Quiet
  <2> QED BY <1>1, <1>2, <2>1 DEF Quiet, round
<1>17. \A c : ~Live(c)'
  <2>1. DOMAIN <<>> = {}
    OBVIOUS
  <2> QED BY <1>11, <1>16, <2>1 DEF Live, InStore, InPipe, InCast, InRound
<1>18. CallInv'
  <2>1. DOMAIN arrived' = {}
    BY <1>16
  <2>2. \A p \in Rank : Len(stdout'[p]) <= 1
    BY <1>16
  <2>3. \A p \in Rank : OneCall(p)'
    BY <1>11, <1>16, <2>1, <2>2 DEF OneCall
  <2> QED BY <1>17, <2>1, <2>3 DEF CallInv
<1>19. ASSUME NEW p \in Rank, Alive(p)' PROVE NoIds(p)'
  <2>1. CASE p # 0
    <3>1. OtherNode(p) /\ Alive(p)
      BY <1>5, <1>19, <2>1 DEF OtherNode, Alive
    <3> QED BY <1>1, <1>16, <3>1 DEF Quiet, NoIds, OtherNode, NoOut, IsOut
  <2>2. CASE p = 0 /\ OldHelper(0, lines)
    <3>1. Alive(0) /\ pending'[0] = pending[0]
      BY <1>19, <2>2 DEF OldHelper, Alive
    <3>2. NoOut(0)'
      BY <1>1, <1>2, <1>6, <1>19, <2>2, <3>1, NoOutLess DEF Quiet, NoIds
    <3> QED BY <1>1, <1>2, <1>16, <2>2, <3>1, <3>2 DEF Quiet, NoIds
  <2>3. CASE p = 0 /\ ~OldHelper(0, lines) /\ NewHelper(0, lines)
    <3>1. pending'[0] = <<>> /\ DOMAIN <<>> = {}
      BY <2>3 DEF NewHelper
    <3> QED BY <1>2, <1>6, <1>16, <2>3, <3>1 DEF NoIds
  <2>4. CASE p = 0 /\ NoHelper(0)
    <3>1. Alive(0) /\ ~helper[0]
      BY <1>19, <2>4 DEF NoHelper, Alive
    <3> QED BY <1>1, <1>2, <3>1 DEF Quiet
  <2> QED BY <1>5, <2>1, <2>2, <2>3, <2>4
<1>20. RoundInv'
  <2> SUFFICES ASSUME NEW u \in Task, NEW k \in Round, Complete(u, k)', NEW p \in Rank
               PROVE  entered'[u][p] >= k
    BY <1>17 DEF RoundInv
  <2>1. ~InResult(u, k)' /\ \A q \in Rank : ~InOut(q, u, k)'
    BY <1>11, <1>19 DEF InResult, InOut, NoIds, NoOut
  <2>2. Answered(u, k)
    BY <1>2, <2>1 DEF Complete, Answered, history
  <2> QED BY <1>2, <2>2 DEF FenceInv, RoundInv, Complete, history
<1>21. ResultInv' /\ IdInv'
  <2>1. ResultInv'
    BY <1>11 DEF ResultInv
  <2>2. IdInv'
    BY <1>19, EmptyIdsNext DEF IdInv, Reads
  <2> QED BY <2>1, <2>2
<1>22. ASSUME faults' = <<>> PROVE (\A p \in Rank : Registers(p)') /\ ReportsOk' /\ CalmOk'
  <2>1. fault = "none" /\ \A p \in Rank : Registers(p)
    BY <1>1, <1>7, <1>22 DEF FenceInv, QuietInv, Quiet
  <2>2. /\ rank'[0] = Up(t) /\ rank'[0].st = "up" /\ contTask'[0] = t
        /\ OldHelper(0, lines) \/ NewHelper(0, lines)
    BY <1>1, <1>2, <1>5, <2>1 DEF Quiet, Up
  <2>3. ASSUME NEW p \in Rank PROVE Registers(p)'
    <3>1. CASE p # 0
      BY <1>2, <1>5, <2>1, <3>1 DEF Registers, OtherNode
    <3>2. CASE p = 0 /\ OldHelper(0, lines)
      <4>1. Registers(0)
        BY <2>1, <3>2
      <4>2. main'[0].at = "read" => 0 \in clients'[0] \/ \E i \in DOMAIN stdin'[0] : stdin'[0][i].cmd = "REGISTER"
        <5>1. main'[0] = main[0] /\ clients'[0] = clients[0]
          BY <3>2 DEF OldHelper
        <5>2. \A i \in DOMAIN stdin[0] : i \in DOMAIN stdin'[0] /\ stdin'[0][i] = stdin[0][i]
          BY <1>6, <3>2
        <5>3. main[0].at = "read" => 0 \in clients[0] \/ \E i \in DOMAIN stdin[0] : stdin[0][i].cmd = "REGISTER"
          BY <4>1 DEF Registers
        <5> QED BY <5>1, <5>2, <5>3
      <4> QED BY <2>2, <3>2, <4>1, <4>2 DEF Registers, OldHelper
    <3>3. CASE p = 0 /\ NewHelper(0, lines)
      <4>1. main'[0].at = "read" /\ "read" \notin Wait
        BY <3>3 DEF NewHelper, Wait
      <4>2. helper'[0] /\ ops'[0] = <<>> /\ 0 \in clients'[0]
        BY <3>3 DEF NewHelper
      <4> QED BY <2>2, <3>3, <4>1, <4>2 DEF Registers
    <3> QED BY <2>2, <3>1, <3>2, <3>3
  <2>4. CalmOk'
    <3>1. \A p \in Rank : Alive(p)' => DOMAIN pending'[p] = {}
      BY <1>19 DEF NoIds
    <3>2. \A m \in net' : m.type # "result"
      BY <1>11
    <3> QED BY <1>17, <3>1, <3>2 DEF CalmOk
  <2>5. ReportsOk'
    <3>1. ASSUME NEW p \in Rank PROVE Owes(p)'
      <4>1. CASE p = 0
        BY <2>2, <4>1 DEF Owes
      <4>2. CASE p # 0
        <5> DEFINE m == [type |-> "start", to |-> p, task |-> t]
        <5>1. m \in net' /\ m.type = "start" /\ m.to = p
          BY <1>2, <4>2
        <5> QED BY <5>1 DEF Owes
      <4> QED BY <4>1, <4>2
    <3>2. Reported' = {}
      BY <3>1 DEF Reported
    <3>3. Cardinality({}) = 0
      BY FS_EmptySet
    <3>4. tasks'[t].done = 0 /\ tasks'[t].st # "ended"
      BY <1>8, <1>9, <2>1 DEF FenceInv, TaskInv
    <3>5. \A m \in net' : m.type # "done"
      BY <1>11
    <3>6. \A u \in Task : Current(u)' => /\ tasks'[u].done = Cardinality(Reported')
                                         /\ tasks'[u].st = "ended" => Reported' = Rank
      BY <1>10, <3>2, <3>3, <3>4
    <3> QED BY <3>5, <3>6 DEF ReportsOk
  <2> QED BY <2>3, <2>4, <2>5
<1> QED BY <1>13, <1>14, <1>15, <1>18, <1>20, <1>21, <1>22 DEF FenceInv, QuietInv

-----------------------------------------------------------------------------
(***************************************************************************)
(* A fence begins.                                                         *)
(***************************************************************************)
LEMMA CallsMade ==
    ASSUME Types
    PROVE  /\ \A n \in Rank : storing[n] # <<>> => storing[n][1].call \in Calls /\ storing[n][1].id \in Nat
           /\ \A n \in Rank : stdout[n] # <<>> => stdout[n][1].call \in Calls /\ stdout[n][1].id \in Nat
           /\ \A m \in net : m.type = "contrib" => m.call \in Calls
           /\ \A i \in DOMAIN arrived : i \in Rank /\ arrived[i] \in Calls
<1>1. ASSUME NEW n \in Rank, storing[n] # <<>>
      PROVE  storing[n][1].call \in Calls /\ storing[n][1].id \in Nat
  <2>1. storing[n] \in Seq([id : Nat, call : Calls])
    BY DEF Types, ProcessTypes
  <2>2. storing[n][1] \in [id : Nat, call : Calls]
    BY <1>1, <2>1, TailLines
  <2> QED BY <2>2
<1>2. ASSUME NEW n \in Rank, stdout[n] # <<>>
      PROVE  stdout[n][1].call \in Calls /\ stdout[n][1].id \in Nat
  <2>1. stdout[n] \in Seq(InLine)
    BY DEF Types, PipeTypes
  <2>2. stdout[n][1] \in InLine
    BY <1>2, <2>1, TailLines
  <2> QED BY <2>2 DEF InLine
<1>3. ASSUME NEW m \in net, m.type = "contrib" PROVE m.call \in Calls
  BY <1>3, Messages DEF ContribMsg
<1>4. ASSUME NEW i \in DOMAIN arrived PROVE i \in Rank /\ arrived[i] \in Calls
  <2>1. arrived \in Partial(Rank, Calls)
    BY DEF Types, RoundTypes, Blobs
  <2> QED BY <2>1, PartialFunction
<1> QED BY <1>1, <1>2, <1>3, <1>4

(* A rank that may call a fence has no call under way.                     *)
LEMMA ReadyRank ==
    ASSUME Types, FenceInv, NEW n \in Rank, rank[n].st = "ready"
    PROVE  /\ \A d \in Calls : d.rank = n => ~Live(d)
           /\ storing[n] = <<>> /\ stdout[n] = <<>> /\ OffNode(n)
           /\ main[n].at # "drain"
           /\ Alive(n) => NoIds(n)
<1> DEFINE T == rank[n].task
           e == rank[n].k
<1>1. T \in Task /\ Current(T) /\ e = entered[T][n] /\ (e > 0 => answer[T][n][e] = "data")
      /\ e \in 0..MaxFences
  BY DEF FenceInv, RankInv, AtRank, Current, Types, RankTypes, RankState
<1> HIDE DEF T, e
<1>2. ASSUME NEW d \in Calls, d.rank = n, Live(d) PROVE FALSE
  <2>1. d.task = T /\ d.round = e /\ d.round \in Round
    BY <1>1, <1>2, CurrentOne, CallIs DEF FenceInv, CallInv
  <2>2. e > 0
    BY <2>1, Constants DEF Round
  <2>3. Complete(T, e)
    BY <1>1, <2>2 DEF Complete, Answered
  <2>4. ~Live(Call(T, e, n))
    BY <1>1, <2>1, <2>3 DEF FenceInv, RoundInv
  <2>5. d = Call(T, e, n)
    BY <1>2, <2>1, CallIs
  <2> QED BY <1>2, <2>4, <2>5
<1>3. storing[n] = <<>>
  BY <1>2, CallsMade DEF Live, InStore, FenceInv, CallInv, OneCall
<1>4. stdout[n] = <<>>
  BY <1>2, CallsMade DEF Live, InPipe, FenceInv, CallInv, OneCall
<1>5. OffNode(n)
  BY <1>2, CallsMade DEF Live, InCast, InRound, OffNode
<1>6. main[n].at # "drain"
  BY DEF FenceInv, SessionInv, Stopped
<1>7. ASSUME Alive(n) PROVE NoIds(n)
  <2>1. IdOk(n)
    BY <1>6, <1>7 DEF FenceInv, IdInv, Reads
  <2>2. ASSUME NEW i \in DOMAIN pending[n] PROVE FALSE
    <3> DEFINE c == pending[n][i]
    <3>1. c \in Calls
      BY PendingCall
    <3> HIDE DEF c
    <3>2. Current(c.task) /\ c.round = entered[c.task][n] /\ answer[c.task][n][c.round] = "none"
      BY <2>1 DEF IdOk, PendingOk, c
    <3>3. c.task = T /\ c.round = e /\ c.round \in Round
      BY <1>1, <3>1, <3>2, CurrentOne, CallIs
    <3>4. e > 0
      BY <3>3, Constants DEF Round
    <3> QED BY <1>1, <3>2, <3>3, <3>4
  <2>3. DOMAIN pending[n] = {}
    BY <2>2
  <2> QED BY <1>3, <1>4, <2>1, <2>3 DEF IdOk, NoIds, NoOut
<1> QED BY <1>2, <1>3, <1>4, <1>5, <1>6, <1>7

LEMMA StoredIs ==
    ASSUME Types, NEW n \in Rank, FenceStored(n)
    PROVE  LET T == rank[n].task
               e == rank[n].k
               c == Call(T, e + 1, n)
           IN /\ T \in Task /\ e \in Nat /\ e + 1 \in Round /\ c \in Calls
              /\ c.task = T /\ c.round = e + 1 /\ c.rank = n
              /\ Alive(n) /\ rank[n].st = "ready"
              /\ pending'[n] = Put(pending[n], seq[n], c)
              /\ storing'[n] = <<[id |-> seq[n], call |-> c]>>
              /\ entered'[T][n] = e + 1
              /\ rank'[n].task = T /\ rank'[n].st = "fence" /\ rank'[n].k = e + 1
              /\ \A p \in Rank \ {n} : /\ pending'[p] = pending[p] /\ storing'[p] = storing[p]
                                       /\ rank'[p] = rank[p]
              /\ \A t \in Task, p \in Rank : t # T \/ p # n => entered'[t][p] = entered[t][p]
              /\ UNCHANGED <<main, contrib, ops, clients, pipes, session, round, book, net,
                             answer, faults>>
<1> DEFINE T == rank[n].task
           e == rank[n].k
           c == Call(T, e + 1, n)
<1>1. /\ T \in Task /\ e \in Nat /\ e + 1 \in Round
  BY Constants DEF FenceStored, Types, RankTypes, RankState, Round
<1>2. c \in Calls /\ c.task = T /\ c.round = e + 1 /\ c.rank = n
  BY <1>1, CallFields
<1>3. /\ pending' = [pending EXCEPT ![n] = Put(pending[n], seq[n], c)]
      /\ storing' = [storing EXCEPT ![n] = <<[id |-> seq[n], call |-> c]>>]
      /\ entered' = [entered EXCEPT ![T][n] = e + 1]
      /\ rank' = [rank EXCEPT ![n].st = "fence", ![n].k = e + 1]
      /\ Alive(n) /\ rank[n].st = "ready"
      /\ UNCHANGED <<main, contrib, ops, clients, pipes, session, round, book, net,
                     answer, faults>>
  BY <1>2 DEF FenceStored
<1> DEFINE y == rank[n]
           x == [y EXCEPT !.st = "fence", !.k = e + 1]
<1>4. rank' = [rank EXCEPT ![n] = x]
  BY <1>3
<1>5. x.task = T /\ x.st = "fence" /\ x.k = e + 1
  <2>1. y \in RankState
    BY DEF Types, RankTypes
  <2> DEFINE j == e + 1
  <2> HIDE DEF y, j
  <2>2. [y EXCEPT !.st = "fence", !.k = j].task = y.task /\ [y EXCEPT !.st = "fence", !.k = j].st = "fence"
        /\ [y EXCEPT !.st = "fence", !.k = j].k = j
    BY <2>1 DEF RankState
  <2> QED BY <2>2 DEF y, j
<1> HIDE DEF x, c
<1>6. rank'[n] = x /\ \A p \in Rank \ {n} : rank'[p] = rank[p]
  BY <1>4 DEF Types, RankTypes
<1>7. /\ pending'[n] = Put(pending[n], seq[n], c)
      /\ \A p \in Rank \ {n} : pending'[p] = pending[p]
  <2>1. DOMAIN pending = Rank
    BY DEF Types, ProcessTypes
  <2> QED BY <1>3, <2>1
<1>8. /\ storing'[n] = <<[id |-> seq[n], call |-> c]>>
      /\ \A p \in Rank \ {n} : storing'[p] = storing[p]
  <2>1. DOMAIN storing = Rank
    BY DEF Types, ProcessTypes
  <2> DEFINE s == <<[id |-> seq[n], call |-> c]>>
  <2>2. storing' = [storing EXCEPT ![n] = s]
    BY <1>3
  <2> HIDE DEF s
  <2>3. storing'[n] = s /\ \A p \in Rank \ {n} : storing'[p] = storing[p]
    BY <2>1, <2>2
  <2> QED BY <2>3 DEF s
<1>9. /\ entered'[T][n] = e + 1
      /\ \A t \in Task, p \in Rank : t # T \/ p # n => entered'[t][p] = entered[t][p]
  BY <1>1, <1>3 DEF Types, HistoryTypes
<1> HIDE DEF y
<1> QED BY <1>1, <1>2, <1>3, <1>5, <1>6, <1>7, <1>8, <1>9 DEF c

LEMMA FenceStoredFence ==
    ASSUME Types, Types', FenceInv, Begun, NEW n \in Rank, FenceStored(n)
    PROVE  FenceInv'
<1>1. PICK T \in Task, e \in Nat, c \in Calls :
      /\ T = rank[n].task /\ e = rank[n].k
      /\ e + 1 \in Round /\ c.task = T /\ c.round = e + 1 /\ c.rank = n
      /\ Alive(n) /\ rank[n].st = "ready"
      /\ pending'[n] = Put(pending[n], seq[n], c)
      /\ storing'[n] = <<[id |-> seq[n], call |-> c]>>
      /\ entered'[T][n] = e + 1
      /\ rank'[n].task = T /\ rank'[n].st = "fence" /\ rank'[n].k = e + 1
      /\ \A p \in Rank \ {n} : /\ pending'[p] = pending[p] /\ storing'[p] = storing[p]
                               /\ rank'[p] = rank[p]
      /\ \A t \in Task, p \in Rank : t # T \/ p # n => entered'[t][p] = entered[t][p]
      /\ UNCHANGED <<main, contrib, ops, clients, pipes, session, round, book, net,
                     answer, faults>>
  <2> DEFINE T == rank[n].task
             e == rank[n].k
             c == Call(T, e + 1, n)
  <2>1. /\ T \in Task /\ e \in Nat /\ c \in Calls /\ T = rank[n].task /\ e = rank[n].k
        /\ e + 1 \in Round /\ c.task = T /\ c.round = e + 1 /\ c.rank = n
        /\ Alive(n) /\ rank[n].st = "ready"
        /\ pending'[n] = Put(pending[n], seq[n], c)
        /\ storing'[n] = <<[id |-> seq[n], call |-> c]>>
        /\ entered'[T][n] = e + 1
        /\ rank'[n].task = T /\ rank'[n].st = "fence" /\ rank'[n].k = e + 1
        /\ \A p \in Rank \ {n} : /\ pending'[p] = pending[p] /\ storing'[p] = storing[p]
                                 /\ rank'[p] = rank[p]
        /\ \A t \in Task, p \in Rank : t # T \/ p # n => entered'[t][p] = entered[t][p]
        /\ UNCHANGED <<main, contrib, ops, clients, pipes, session, round, book, net,
                       answer, faults>>
    BY StoredIs
  <2> HIDE DEF T, e, c
  <2> QED BY <2>1
<1>2. /\ \A d \in Calls : d.rank = n => ~Live(d)
      /\ storing[n] = <<>> /\ stdout[n] = <<>> /\ OffNode(n)
      /\ main[n].at # "drain" /\ NoIds(n)
  BY <1>1, ReadyRank
<1>3. Current(T) /\ e = entered[T][n] /\ (e > 0 => answer[T][n][e] = "data")
  BY <1>1 DEF FenceInv, RankInv, AtRank
<1>4. Kept /\ (\A k : Less(k)) /\ \A u : Current(u)' = Current(u)
  BY <1>1, TasksKept, SameCurrent DEF Less, book
<1>5. TaskInv'
  <2>1. \A t \in Task : ~Started(t) => t # T
    BY <1>3 DEF Current
  <2>2. \A t \in Task : ~Started(t) => /\ tasks'[t].done = tasks[t].done
                                       /\ \A r \in Rank : entered'[t][r] = entered[t][r]
    BY <1>1, <2>1 DEF book
  <2> QED BY <1>1, <1>4, <2>2, TaskKept DEF FenceInv, book, Less
<1>6. SessionInv'
  <2>1. rank[0].st = "off" => rank'[0].st = "off"
    BY <1>1, Constants
  <2>2. \A p \in Rank : NoNewLine(p)
    BY <1>1 DEF NoNewLine, pipes
  <2> QED BY <1>1, <2>1, <2>2, SessionKept DEF FenceInv, round, NoNewLine
<1>7. RankInv'
  <2>1. \A p \in Rank \ {n} : AtRank(p)' /\ AtStart(p)' /\ Answers(p)'
    BY <1>1, <1>4, RankSame DEF FenceInv
  <2>2. AtRank(n) /\ AtStart(n) /\ Answers(n)
    BY DEF FenceInv, RankInv
  <2>3. answer[T][n][e + 1] = "none"
    <3>1. e + 1 > entered[T][n]
      BY <1>1, <1>3
    <3> QED BY <1>1, <2>2, <3>1 DEF Answers
  <2>4. AtRank(n)'
    BY <1>1, <1>3, <1>4, <2>3 DEF AtRank
  <2>5. AtStart(n)'
    BY <1>1, <2>2 DEF AtStart
  <2>6. Answers(n)'
    <3> SUFFICES ASSUME NEW t \in Task, NEW k \in Round
                 PROVE  /\ answer[t][n][k] \in {"none", "data"}
                        /\ k < entered'[t][n] => answer[t][n][k] = "data"
                        /\ k > entered'[t][n] => answer[t][n][k] = "none"
      BY <1>1 DEF Answers
    <3>1. /\ answer[t][n][k] \in {"none", "data"}
          /\ k < entered[t][n] => answer[t][n][k] = "data"
          /\ k > entered[t][n] => answer[t][n][k] = "none"
      BY <2>2 DEF Answers
    <3>2. CASE t # T
      BY <1>1, <3>1, <3>2
    <3>3. CASE t = T
      <4>1. k \in Nat /\ k > 0
        BY Constants DEF Round
      <4>2. k < e + 1 => k < e \/ k = e
        BY <1>1, <4>1
      <4>3. k > e + 1 => k > e
        BY <1>1, <4>1
      <4> QED BY <1>1, <1>3, <3>1, <3>3, <4>1, <4>2, <4>3
    <3> QED BY <3>2, <3>3
  <2> QED BY <2>1, <2>4, <2>5, <2>6 DEF RankInv
<1>8. /\ \A p \in Rank : storing'[p] # <<>> => (p = n /\ storing'[p][1].call = c) \/ storing'[p] = storing[p]
      /\ \A d : Live(d)' => Live(d) \/ d = c
  <2>1. \A p \in Rank : storing'[p] # <<>> => (p = n /\ storing'[p][1].call = c) \/ storing'[p] = storing[p]
    <3>1. storing'[n][1].call = c
      BY <1>1
    <3> QED BY <1>1, <3>1
  <2> QED BY <1>1, <2>1 DEF Live, InStore, InPipe, InCast, InRound, pipes, round
<1>9. CallInv'
  <2>1. ASSUME NEW p \in Rank \ {n} PROVE OneCall(p)'
    <3>1. OneCall(p) /\ storing'[p] = storing[p]
      BY <1>1 DEF FenceInv, CallInv
    <3> QED BY <1>1, <3>1 DEF OneCall, OffNode, pipes, round
  <2>2. OneCall(n)'
    <3>1. stdout'[n] = <<>> /\ OffNode(n)' /\ storing'[n][1].call.rank = n
      BY <1>1, <1>2, <1>8 DEF OffNode, pipes, round
    <3>2. OneCall(n)
      BY DEF FenceInv, CallInv
    <3> QED BY <1>1, <3>1, <3>2 DEF OneCall, pipes, round
  <2>3. ASSUME NEW d \in Calls, Live(d)' PROVE Current(d.task)' /\ d.round = entered'[d.task][d.rank]
    <3>1. CASE d = c
      BY <1>1, <1>3, <1>4, <3>1
    <3>2. CASE Live(d)
      <4>1. d.rank # n /\ d.rank \in Rank /\ d.task \in Task
        BY <1>2, <3>2, CallIs
      <4> QED BY <1>1, <1>4, <3>2, <4>1 DEF FenceInv, CallInv
    <3> QED BY <1>8, <2>3, <3>1, <3>2
  <2> QED BY <1>1, <2>1, <2>2, <2>3 DEF FenceInv, CallInv, round
<1>10. RoundInv'
  <2> SUFFICES ASSUME NEW t \in Task, NEW k \in Round, Complete(t, k)', NEW p \in Rank
               PROVE  entered'[t][p] >= k /\ ~Live(Call(t, k, p))'
    BY DEF RoundInv
  <2>1. Complete(t, k)
    BY <1>1 DEF Complete, Answered, InResult, InOut, IsOut, Alive, Data, pipes
  <2>2. entered[t][p] >= k /\ ~Live(Call(t, k, p))
    BY <2>1 DEF FenceInv, RoundInv
  <2>3. k \in Nat /\ entered[t][p] \in Nat
    BY Constants DEF Round, Types, HistoryTypes
  <2>4. entered'[t][p] >= k
    <3>1. CASE t = T /\ p = n
      BY <1>1, <1>3, <2>2, <2>3, <3>1
    <3>2. CASE ~(t = T /\ p = n)
      BY <1>1, <2>2, <3>2
    <3> QED BY <3>1, <3>2
  <2>5. Call(t, k, p) # c
    <3> SUFFICES ASSUME Call(t, k, p) = c PROVE FALSE
      OBVIOUS
    <3>1. t = T /\ k = e + 1 /\ p = n
      BY <1>1, CallFields
    <3> QED BY <1>1, <1>3, <2>2, <3>1
  <2> QED BY <1>8, <2>2, <2>4, <2>5
<1>11. \A p \in Rank : OutsLess(p) /\ Alive(p)' = Alive(p) /\ Fewer(p) /\ Reads(p)' = Reads(p)
  <2>1. \A p \in Rank : Fewer(p)
    BY <1>1, SamePipes DEF pipes
  <2>2. \A p \in Rank : Alive(p)' = Alive(p) /\ Reads(p)' = Reads(p)
    BY <1>1 DEF Alive, Reads
  <2> QED BY <2>1, <2>2 DEF OutsLess
<1>12. ResultInv'
  BY <1>1, <1>4, <1>11, ResultLess DEF FenceInv
<1>13. IdInv'
  <2> SUFFICES ASSUME NEW p \in Rank, Reads(p)' PROVE IdOk(p)'
    BY DEF IdInv
  <2>1. CASE p # n
    <3>1. IdsLess(p) /\ SameRounds(p) /\ (Reads(p) => IdOk(p))
      BY <1>1, <1>11, <2>1 DEF IdsLess, SameRounds, FenceInv, IdInv, pipes, round
    <3> QED BY <1>4, <3>1, IdLess
  <2>2. CASE p = n
    <3> DEFINE i == seq[n]
    <3>1. DOMAIN pending'[n] = {i} /\ pending'[n][i] = c
      <4>1. DOMAIN pending[n] = {} /\ pending'[n] = Put(pending[n], i, c)
        BY <1>1, <1>2 DEF NoIds
      <4>2. DOMAIN Put(pending[n], i, c) = {i} \cup DOMAIN pending[n] /\ Put(pending[n], i, c)[i] = c
        BY DEF Put
      <4>3. {i} \cup {} = {i}
        OBVIOUS
      <4> HIDE DEF i
      <4> QED BY <4>1, <4>2, <4>3
    <3>2. storing'[n][1].id = i /\ storing'[n][1].call = c
      BY <1>1
    <3> HIDE DEF i
    <3>3. PendingOk(n)'
      <4>1. answer'[T][n][e + 1] = "none"
        BY <1>1, <1>7 DEF RankInv, AtRank
      <4>2. Current(T)'
        BY <1>3, <1>4
      <4>3. c.task = T /\ c.round = e + 1 /\ entered'[T][n] = e + 1
        BY <1>1
      <4> QED BY <3>1, <4>1, <4>2, <4>3 DEF PendingOk
    <3>4. stdout'[n] = <<>> /\ localIds'[n] = <<>> /\ NoOut(n)'
      BY <1>1, <1>2 DEF NoIds, NoOut, IsOut, pipes, round
    <3> QED BY <2>2, <3>1, <3>2, <3>3, <3>4 DEF IdOk, Known1, NoOut
  <2> QED BY <2>1, <2>2
<1>14. ASSUME faults' = <<>> PROVE (\A p \in Rank : Registers(p)') /\ ReportsOk' /\ CalmOk'
  <2>1. (\A p \in Rank : Registers(p)) /\ ReportsOk /\ CalmOk
    BY <1>1, <1>14 DEF FenceInv, QuietInv
  <2>2. \A p \in Rank : Registers(p)'
    <3>1. UNCHANGED <<main, ops, clients, stdin, helper, contTask, replyTo>>
      BY <1>1 DEF pipes, session, book
    <3>2. \A p \in Rank \ {n} : Registers(p)'
      BY <1>1, <2>1, <3>1, RegistersSame
    <3>3. Registers(n)'
      BY <1>1, <2>1, <3>1 DEF Registers
    <3> QED BY <3>2, <3>3
  <2>3. \A p \in Rank : (rank'[p].st = "off") <=> (rank[p].st = "off")
    BY <1>1
  <2>4. ReportsOk'
    <3>1. \A p \in Rank : Owes(p)' = Owes(p)
      BY <1>1, <2>3, OwesSame
    <3> QED BY <1>1, <1>4, <2>1, <2>3, <3>1, ReportsSame DEF book
  <2>5. CalmOk'
    <3>1. ASSUME NEW d \in Calls, Live(d)' PROVE rank'[d.rank].st = "fence"
      BY <1>1, <1>8, <2>1, <3>1, CallIs DEF CalmOk
    <3>2. ASSUME NEW p \in Rank, Alive(p)', DOMAIN pending'[p] # {} PROVE rank'[p].st = "fence"
      BY <1>1, <1>11, <2>1, <3>2 DEF CalmOk
    <3>3. ASSUME NEW m \in net', m.type = "result" PROVE rank'[m.to].st = "fence"
      <4>1. m \in net /\ m.to \in Rank
        BY <1>1, <3>3, Messages DEF ResultMsg
      <4> QED BY <1>1, <2>1, <3>3, <4>1 DEF CalmOk
    <3> QED BY <3>1, <3>2, <3>3 DEF CalmOk
  <2> QED BY <2>2, <2>4, <2>5
<1> QED BY <1>5, <1>6, <1>7, <1>9, <1>10, <1>12, <1>13, <1>14 DEF FenceInv, QuietInv

LEMMA FenceWrittenFence ==
    ASSUME Types, Types', FenceInv, Begun, NEW n \in Rank, FenceWritten(n)
    PROVE  FenceInv'
<1>1. /\ UNCHANGED <<main, registered, contrib, seq, pending, ops, clients, stdin, session, round,
                     book, net, rank, history, faults>>
      /\ Alive(n) /\ storing[n] # <<>>
      /\ stdout' = [stdout EXCEPT ![n] = IF helper[n] THEN Append(stdout[n], FenceIn(n)) ELSE stdout[n]]
      /\ storing' = [storing EXCEPT ![n] = <<>>]
  BY DEF FenceWritten
<1>2. stdout[n] = <<>> /\ storing[n][1].call.rank = n /\ OffNode(n)
  BY <1>1 DEF FenceInv, CallInv, OneCall
<1>3. PICK l : /\ l.id = storing[n][1].id /\ l.key = contrib[n] /\ l.call = storing[n][1].call
               /\ stdout'[n] = <<l>> \/ stdout'[n] = <<>>
  <2> DEFINE l == FenceIn(n)
  <2>1. l.id = storing[n][1].id /\ l.key = contrib[n] /\ l.call = storing[n][1].call
    BY DEF FenceIn
  <2> HIDE DEF l
  <2>2. Append(<<>>, l) = <<l>>
    OBVIOUS
  <2>3. DOMAIN stdout = Rank
    BY DEF Types, PipeTypes
  <2>4. stdout'[n] = <<l>> \/ stdout'[n] = <<>>
    BY <1>1, <1>2, <2>2, <2>3 DEF l
  <2> QED BY <2>1, <2>4
<1>4. /\ storing'[n] = <<>>
      /\ \A p \in Rank \ {n} : storing'[p] = storing[p] /\ stdout'[p] = stdout[p]
  BY <1>1 DEF Types, ProcessTypes, PipeTypes
<1>5. Kept /\ \A k : Less(k)
  BY <1>1, TasksKept DEF Less, book
<1>6. TaskInv'
  BY <1>1, <1>5, TaskKept DEF FenceInv, book, history
<1>7. \A p \in Rank : Fewer(p) /\ NoNewLine(p) /\ OutsLess(p) /\ Alive(p)' = Alive(p) /\ Reads(p)' = Reads(p)
  <2>1. \A p \in Rank : Fewer(p) /\ NoNewLine(p)
    BY <1>1, SamePipes
  <2>2. \A p \in Rank : Alive(p)' = Alive(p) /\ Reads(p)' = Reads(p)
    BY <1>1 DEF Alive, Reads
  <2> QED BY <2>1, <2>2 DEF OutsLess
<1>8. SessionInv'
  BY <1>1, <1>7, SessionKept DEF FenceInv, round, NoNewLine
<1>9. RankInv'
  BY <1>1, <1>5, RankKept DEF FenceInv
<1>10. stdout'[n] # <<>> => stdout'[n] = <<l>> /\ stdout'[n][1] = l /\ Len(stdout'[n]) = 1
  <2>1. <<l>>[1] = l /\ Len(<<l>>) = 1
    OBVIOUS
  <2> QED BY <1>3, <2>1
<1>11. \A d : Live(d)' => Live(d)
  <2>1. \A d : InPipe(n, d)' => InStore(n, d)
    BY <1>1, <1>3, <1>10 DEF InPipe, InStore
  <2>2. \A d : ~InStore(n, d)'
    BY <1>4 DEF InStore
  <2>3. \A d : \A p \in Rank \ {n} : (InPipe(p, d)' => InPipe(p, d)) /\ (InStore(p, d)' => InStore(p, d))
    BY <1>4 DEF InPipe, InStore
  <2>4. \A d : (InCast(d)' => InCast(d)) /\ (InRound(d)' => InRound(d))
    BY <1>1 DEF InCast, InRound, round
  <2> QED BY <2>1, <2>2, <2>3, <2>4 DEF Live
<1>12. CallInv'
  <2>1. ASSUME NEW p \in Rank \ {n} PROVE OneCall(p)'
    <3>1. OneCall(p) /\ storing'[p] = storing[p] /\ stdout'[p] = stdout[p]
      BY <1>4 DEF FenceInv, CallInv
    <3> QED BY <1>1, <3>1 DEF OneCall, OffNode, round
  <2>2. OneCall(n)'
    <3>1. OneCall(n)
      BY DEF FenceInv, CallInv
    <3>2. OffNode(n)'
      BY <1>1, <1>2 DEF OffNode, round
    <3>3. contrib[n] \in {0, n}
      BY DEF FenceInv, SessionInv
    <3>4. stdout'[n] # <<>> => stdout'[n][1].call.rank = n /\ stdout'[n][1].key \in {0, n}
      BY <1>2, <1>3, <1>10, <3>3
    <3>5. Len(stdout'[n]) <= 1
      <4>1. Len(<<>>) = 0
        OBVIOUS
      <4>2. CASE stdout'[n] = <<>>
        BY <4>1, <4>2
      <4>3. CASE stdout'[n] # <<>>
        <5>1. Len(stdout'[n]) = 1
          BY <1>10, <4>3
        <5> QED BY <5>1
      <4> QED BY <4>2, <4>3
    <3> QED BY <1>1, <1>4, <3>1, <3>2, <3>4, <3>5 DEF OneCall, round
  <2>3. \A d \in Calls : Live(d)' => Current(d.task)' /\ d.round = entered'[d.task][d.rank]
    BY <1>1, <1>5, <1>11, SameCurrent DEF FenceInv, CallInv, history
  <2> QED BY <1>1, <2>1, <2>2, <2>3 DEF FenceInv, CallInv, round
<1>13. RoundInv' /\ ResultInv'
  BY <1>1, <1>5, <1>7, <1>11, RoundLess, ResultLess DEF FenceInv, history
<1>14. IdInv'
  <2> SUFFICES ASSUME NEW p \in Rank, Reads(p)' PROVE IdOk(p)'
    BY DEF IdInv
  <2>1. SameRounds(p) /\ IdOk(p)
    BY <1>1, <1>7 DEF SameRounds, FenceInv, IdInv, history
  <2>2. CASE p # n
    <3>1. IdsLess(p)
      BY <1>1, <1>4, <1>7, <2>2 DEF IdsLess, round
    <3> QED BY <1>5, <2>1, <3>1, IdLess
  <2>3. CASE p = n
    <3>1. PendingOk(n)'
      BY <1>1, <1>5, <2>1, <2>3, PendingKept DEF IdOk
    <3>2. /\ Known1(n, storing[n][1].id, storing[n][1].call)
          /\ localIds[n] = <<>> /\ NoOut(n)
      BY <1>1, <2>1, <2>3 DEF IdOk
    <3>3. localIds'[n] = <<>> /\ NoOut(n)'
      BY <1>1, <3>2 DEF NoOut, IsOut, round
    <3>4. stdout'[n] # <<>> => (Known1(n, stdout[n][1].id, stdout[n][1].call))'
      BY <1>1, <1>3, <1>10, <3>2 DEF Known1
    <3> QED BY <1>4, <2>3, <3>1, <3>3, <3>4 DEF IdOk, NoOut
  <2> QED BY <2>2, <2>3
<1>15. ASSUME faults' = <<>> PROVE (\A p \in Rank : Registers(p)') /\ ReportsOk' /\ CalmOk'
  <2>1. (\A p \in Rank : Registers(p)) /\ ReportsOk /\ CalmOk
    BY <1>1, <1>15 DEF FenceInv, QuietInv
  <2>2. \A p \in Rank : Registers(p)'
    BY <1>1, <2>1, RegistersSame DEF session, book
  <2>3. ReportsOk'
    <3>1. \A p \in Rank : Owes(p)' = Owes(p)
      BY <1>1, OwesSame
    <3> QED BY <1>1, <1>5, <2>1, <3>1, ReportsSame DEF book
  <2>4. CalmOk'
    BY <1>1, <1>5, <1>7, <1>11, <2>1, CalmLess
  <2> QED BY <2>2, <2>3, <2>4
<1> QED BY <1>6, <1>8, <1>9, <1>12, <1>13, <1>14, <1>15 DEF FenceInv, QuietInv

-----------------------------------------------------------------------------
(***************************************************************************)
(* A fence ends.                                                           *)
(***************************************************************************)
LEMMA OutFound ==
    ASSUME Types, FenceInv, NEW n \in Rank, ReadFenceOut(n)
    PROVE  \E i \in DOMAIN pending[n], c \in Calls :
              /\ Head(stdin[n]).id = i /\ Head(stdin[n]).blob = Data(c.task, c.round)
              /\ pending[n][i] = c /\ DOMAIN pending[n] = {i} /\ c.rank = n
              /\ Current(c.task) /\ c.round = entered[c.task][n]
              /\ answer[c.task][n][c.round] = "none" /\ Complete(c.task, c.round)
              /\ storing[n] = <<>> /\ stdout[n] = <<>> /\ localIds[n] = <<>>
              /\ Reads(n) /\ ~NoOut(n) /\ NoOut(n)'
<1>1. Reading(n, "FENCE_OUT")
  BY DEF ReadFenceOut
<1>2. Head(stdin[n]) = stdin[n][1] /\ 1 \in DOMAIN stdin[n] /\ stdin[n][1].cmd = "FENCE_OUT"
  BY <1>1, HeadLine DEF FenceInv
<1>3. IsOut(n, 1) /\ ~NoOut(n) /\ Reads(n)
  BY <1>1, <1>2 DEF IsOut, NoOut, Reads, Alive, Reading
<1>4. IdOk(n)
  BY <1>3 DEF FenceInv, IdInv
<1>5. PICK i \in DOMAIN pending[n] : stdin[n][1].id = i /\ stdin[n][1].blob = Gathered(pending[n][i])
  BY <1>2, <1>3, <1>4 DEF IdOk
<1>6. PICK c \in Calls : c = pending[n][i] /\ c.rank = n
  BY PendingCall
<1>7. DOMAIN pending[n] = {i}
  BY <1>4 DEF IdOk, PendingOk
<1>8. Current(c.task) /\ c.round = entered[c.task][n] /\ answer[c.task][n][c.round] = "none"
  BY <1>4, <1>6 DEF IdOk, PendingOk
<1>9. stdin[n][1].blob = Data(c.task, c.round)
  BY <1>5, <1>6, GatheredIs
<1>10. Complete(c.task, c.round)
  BY <1>2, <1>3, <1>9 DEF Complete, InOut, Reads
<1>11. storing[n] = <<>> /\ stdout[n] = <<>> /\ localIds[n] = <<>>
  BY <1>3, <1>4 DEF IdOk
<1>12. NoOut(n)'
  <2>1. stdin[n] \in Seq(PlainLine \cup OutLine) /\ stdin[n] # <<>> /\ stdin'[n] = Tail(stdin[n])
    BY <1>1 DEF Reading, Types, PipeTypes
  <2>2. \A j \in DOMAIN Tail(stdin[n]) : j + 1 \in DOMAIN stdin[n] /\ Tail(stdin[n])[j] = stdin[n][j + 1]
    BY <2>1, TailLines
  <2>3. Tail(stdin[n]) \in Seq(PlainLine \cup OutLine)
    BY <2>1, TailLines
  <2>4. \A j \in DOMAIN Tail(stdin[n]) : j \in Nat /\ j # 0
    BY <2>3
  <2>5. ASSUME NEW j \in DOMAIN stdin'[n], IsOut(n, j)' PROVE FALSE
    <3>1. j + 1 \in DOMAIN stdin[n] /\ IsOut(n, j + 1)
      BY <2>1, <2>2, <2>5 DEF IsOut
    <3>2. j + 1 = 1
      BY <1>2, <1>3, <1>4, <3>1 DEF IdOk
    <3> QED BY <2>1, <2>4, <3>2
  <2> QED BY <2>5 DEF NoOut
<1> QED BY <1>2, <1>3, <1>5, <1>6, <1>7, <1>8, <1>9, <1>10, <1>11, <1>12

LEMMA AnsweredIs ==
    ASSUME Types, NEW c \in Calls, CallBack({c}, Data(c.task, c.round))
    PROVE  /\ entered' = entered
           /\ ~Waiting(c) => rank' = rank /\ answer' = answer
           /\ Waiting(c) =>
                /\ rank[c.rank].st = "fence" /\ rank[c.rank].task = c.task /\ rank[c.rank].k = c.round
                /\ rank'[c.rank].st = "ready" /\ rank'[c.rank].task = c.task
                /\ rank'[c.rank].k = c.round
                /\ \A p \in Rank \ {c.rank} : rank'[p] = rank[p]
                /\ answer'[c.task][c.rank][c.round] = "data"
                /\ answer' = [answer EXCEPT ![c.task][c.rank][c.round] = "data"]
                /\ \A t \in Task, p \in Rank, k \in Round :
                      t # c.task \/ p # c.rank \/ k # c.round => answer'[t][p][k] = answer[t][p][k]
<1>1. /\ c.task \in Task /\ c.round \in Round /\ c.rank \in Rank
      /\ \A t, k, p : Call(t, k, p) = c <=> t = c.task /\ k = c.round /\ p = c.rank
  BY DEF Calls, Call
<1>2. Outcome(c, Data(c.task, c.round)) = "data"
  BY GatheredIs DEF Outcome
<1>3. /\ rank \in [Rank -> RankState]
      /\ answer = [t \in Task |-> [r \in Rank |-> [k \in Round |-> answer[t][r][k]]]]
      /\ answer \in [Task -> [Rank -> [Round -> {"none", "data", "error", "mixed"}]]]
  BY DEF Types, RankTypes, HistoryTypes
<1>4. /\ answer' = [t \in Task |-> [r \in Rank |-> [k \in Round |->
             IF Call(t, k, r) = c /\ Waiting(c) THEN "data" ELSE answer[t][r][k]]]]
      /\ rank' = [r \in Rank |-> IF c.rank = r /\ Waiting(c) THEN [rank[r] EXCEPT !.st = "ready"] ELSE rank[r]]
      /\ entered' = entered
  BY <1>2 DEF CallBack
<1>5. CASE ~Waiting(c)
  <2>1. rank' = [r \in Rank |-> rank[r]]
    BY <1>4, <1>5
  <2>2. answer' = [t \in Task |-> [r \in Rank |-> [k \in Round |-> answer[t][r][k]]]]
    BY <1>4, <1>5
  <2> QED BY <1>3, <1>4, <1>5, <2>1, <2>2
<1>6. CASE Waiting(c)
  <2>1. rank[c.rank].st = "fence" /\ rank[c.rank].task = c.task /\ rank[c.rank].k = c.round
    BY <1>6 DEF Waiting
  <2>2. \A p \in Rank \ {c.rank} : rank'[p] = rank[p]
    BY <1>4
  <2> DEFINE y == rank[c.rank]
             x == [y EXCEPT !.st = "ready"]
  <2>3. rank'[c.rank] = x
    BY <1>1, <1>4, <1>6
  <2>4. x.st = "ready" /\ x.task = y.task /\ x.k = y.k
    <3>1. y \in RankState
      BY <1>1, <1>3
    <3> HIDE DEF y
    <3> QED BY <3>1 DEF RankState
  <2>5. \A t \in Task, p \in Rank, k \in Round :
            answer'[t][p][k] = IF t = c.task /\ p = c.rank /\ k = c.round THEN "data" ELSE answer[t][p][k]
    BY <1>1, <1>4, <1>6
  <2>6. answer' = [answer EXCEPT ![c.task][c.rank][c.round] = "data"]
    <3> DEFINE z == [answer EXCEPT ![c.task][c.rank][c.round] = "data"]
    <3>1. answer' \in [Task -> [Rank -> [Round -> {"none", "data", "error", "mixed"}]]]
      BY <1>3, <1>4
    <3>2. z \in [Task -> [Rank -> [Round -> {"none", "data", "error", "mixed"}]]]
      BY <1>1, <1>3
    <3>3. \A t \in Task, p \in Rank, k \in Round :
              z[t][p][k] = IF t = c.task /\ p = c.rank /\ k = c.round THEN "data" ELSE answer[t][p][k]
      BY <1>1, <1>3
    <3> HIDE DEF z
    <3>4. \A t \in Task, p \in Rank : answer'[t][p] = z[t][p]
      BY <2>5, <3>1, <3>2, <3>3
    <3>5. \A t \in Task : answer'[t] = z[t]
      BY <3>1, <3>2, <3>4
    <3>6. answer' = z
      BY <3>1, <3>2, <3>5
    <3> QED BY <3>6 DEF z
  <2>7. /\ rank'[c.rank].st = "ready" /\ rank'[c.rank].task = rank[c.rank].task
        /\ rank'[c.rank].k = rank[c.rank].k
    BY <2>3, <2>4
  <2> HIDE DEF x, y
  <2>8. answer'[c.task][c.rank][c.round] = "data"
    BY <1>1, <2>5
  <2>9. \A t \in Task, p \in Rank, k \in Round :
            t # c.task \/ p # c.rank \/ k # c.round => answer'[t][p][k] = answer[t][p][k]
    BY <2>5
  <2>10. entered' = entered
    BY <1>4
  <2> QED BY <1>6, <2>1, <2>2, <2>6, <2>7, <2>8, <2>9, <2>10
<1> QED BY <1>5, <1>6

LEMMA ReadFenceOutFence ==
    ASSUME Types, Types', FenceInv, Begun, NEW n \in Rank, ReadFenceOut(n)
    PROVE  FenceInv'
<1>1. PICK i \in DOMAIN pending[n], c \in Calls :
          /\ Head(stdin[n]).id = i /\ Head(stdin[n]).blob = Data(c.task, c.round)
          /\ pending[n][i] = c /\ DOMAIN pending[n] = {i} /\ c.rank = n
          /\ Current(c.task) /\ c.round = entered[c.task][n]
          /\ answer[c.task][n][c.round] = "none" /\ Complete(c.task, c.round)
          /\ storing[n] = <<>> /\ stdout[n] = <<>> /\ localIds[n] = <<>>
          /\ Reads(n) /\ ~NoOut(n) /\ NoOut(n)'
  BY OutFound
<1>2. /\ Reading(n, "FENCE_OUT")
      /\ UNCHANGED <<main, registered, contrib, seq, storing, ops, clients, stdout, session,
                     round, book, net, faults>>
      /\ pending' = [pending EXCEPT ![n] = Remove(@, i)]
      /\ CallBack({c}, Data(c.task, c.round))
  <2>1. {pending[n][j] : j \in {i} \cap DOMAIN pending[n]} = {c}
    BY <1>1
  <2> QED BY <1>1, <2>1 DEF ReadFenceOut
<1>3. /\ DOMAIN pending'[n] = {}
      /\ \A p \in Rank \ {n} : pending'[p] = pending[p]
  BY <1>1, <1>2 DEF Types, ProcessTypes, Remove
<1>4. /\ c.task \in Task /\ c.round \in Round /\ c = Call(c.task, c.round, n)
      /\ entered' = entered
      /\ ~Waiting(c) => rank' = rank /\ answer' = answer
      /\ Waiting(c) =>
            /\ rank[n].st = "fence" /\ rank[n].task = c.task /\ rank[n].k = c.round
            /\ rank'[n].st = "ready" /\ rank'[n].task = c.task /\ rank'[n].k = c.round
            /\ \A p \in Rank \ {n} : rank'[p] = rank[p]
            /\ answer'[c.task][n][c.round] = "data"
            /\ answer' = [answer EXCEPT ![c.task][n][c.round] = "data"]
            /\ \A t \in Task, p \in Rank, k \in Round :
                  t # c.task \/ p # n \/ k # c.round => answer'[t][p][k] = answer[t][p][k]
  <2>1. c.task \in Task /\ c.round \in Round /\ c = Call(c.task, c.round, n)
    BY <1>1, CallIs
  <2>2. CallBack({c}, Data(c.task, c.round)) /\ c.rank = n
    BY <1>1, <1>2
  <2>3. entered' = entered /\ (~Waiting(c) => rank' = rank /\ answer' = answer)
    BY <2>2, AnsweredIs
  <2>4. ASSUME Waiting(c)
        PROVE  /\ rank[n].st = "fence" /\ rank[n].task = c.task /\ rank[n].k = c.round
               /\ rank'[n].st = "ready" /\ rank'[n].task = c.task /\ rank'[n].k = c.round
               /\ \A p \in Rank \ {n} : rank'[p] = rank[p]
    BY <2>2, <2>4, AnsweredIs
  <2>5. ASSUME Waiting(c)
        PROVE  /\ answer'[c.task][n][c.round] = "data"
               /\ answer' = [answer EXCEPT ![c.task][n][c.round] = "data"]
               /\ \A t \in Task, p \in Rank, k \in Round :
                     t # c.task \/ p # n \/ k # c.round => answer'[t][p][k] = answer[t][p][k]
    <3>1. /\ answer'[c.task][c.rank][c.round] = "data"
          /\ answer' = [answer EXCEPT ![c.task][c.rank][c.round] = "data"]
          /\ \A t \in Task, p \in Rank, k \in Round :
                t # c.task \/ p # c.rank \/ k # c.round => answer'[t][p][k] = answer[t][p][k]
      BY <2>2, <2>5, AnsweredIs
    <3>2. c.rank = n
      BY <2>2
    <3> QED BY <3>1, <3>2, Zenon
  <2> QED BY <2>1, <2>3, <2>4, <2>5
<1>5. Kept /\ \A k : Less(k)
  BY <1>2, TasksKept DEF Less, book
<1>6. /\ \A p \in Rank : (rank'[p].st = "off") <=> (rank[p].st = "off")
      /\ \A p \in Rank \ {n} : rank'[p] = rank[p]
  BY <1>4
<1>7. \A p \in Rank \ {n} : SameRounds(p)
  <2>1. answer \in [Task -> [Rank -> [Round -> {"none", "data", "error", "mixed"}]]]
    BY DEF Types, HistoryTypes
  <2>2. CASE ~Waiting(c)
    BY <1>4, <2>2 DEF SameRounds
  <2>3. CASE Waiting(c)
    BY <1>4, <2>1, <2>3 DEF SameRounds
  <2> QED BY <2>2, <2>3
<1>8. /\ \A p \in Rank : Fewer(p) /\ NoNewLine(p) /\ OutsLess(p)
      /\ \A p \in Rank : Alive(p)' = Alive(p) /\ Reads(p)' = Reads(p)
  <2>1. \A p \in Rank : Alive(p)' = Alive(p) /\ Reads(p)' = Reads(p)
    BY <1>2 DEF Alive, Reads
  <2> QED BY <1>2, <2>1, PipeRead, ReadingLines
<1>9. TaskInv'
  BY <1>2, <1>4, <1>5, TaskKept DEF FenceInv, book
<1>10. SessionInv'
  <2>1. rank[0].st = "off" => rank'[0].st = "off"
    BY <1>6, Constants
  <2> QED BY <1>2, <1>8, <2>1, SessionKept DEF FenceInv, round, NoNewLine
<1>11. CallInv' /\ \A d \in Calls : Live(d)' => Live(d)
  <2>1. CallsLess
    BY <1>2, <1>5 DEF CallsLess, round
  <2> QED BY <1>4, <1>5, <2>1, CallLess DEF FenceInv
<1>12. RankInv'
  <2>1. \A p \in Rank \ {n} : AtRank(p)' /\ AtStart(p)' /\ Answers(p)'
    BY <1>5, <1>6, <1>7, RankSame DEF FenceInv, SameRounds
  <2>2. AtRank(n) /\ AtStart(n) /\ Answers(n)
    BY DEF FenceInv, RankInv
  <2>3. CASE ~Waiting(c)
    BY <1>4, <1>5, <2>3, RankKept DEF FenceInv, history
  <2>4. CASE Waiting(c)
    <3>1. AtRank(n)'
      <4>1. (Current(rank[n].task))'
        BY <1>1, <1>4, <1>5, <2>4, SameCurrent
      <4> QED BY <1>1, <1>4, <2>4, <4>1 DEF AtRank
    <3>2. AtStart(n)'
      BY <1>2, <1>4, <2>2, <2>4 DEF AtStart
    <3>3. Answers(n)'
      <4> SUFFICES ASSUME NEW t \in Task, NEW k \in Round
                   PROVE  /\ answer'[t][n][k] \in {"none", "data"}
                          /\ k < entered'[t][n] => answer'[t][n][k] = "data"
                          /\ k > entered'[t][n] => answer'[t][n][k] = "none"
        BY DEF Answers
      <4>1. CASE t = c.task /\ k = c.round
        <5>1. k \in Int
          BY Constants DEF Round
        <5> QED BY <1>1, <1>4, <2>4, <4>1, <5>1
      <4>2. CASE ~(t = c.task /\ k = c.round)
        BY <1>4, <2>2, <2>4, <4>2 DEF Answers
      <4> QED BY <4>1, <4>2
    <3> QED BY <2>1, <3>1, <3>2, <3>3 DEF RankInv
  <2> QED BY <2>3, <2>4
<1>13. RoundInv'
  <2> SUFFICES ASSUME NEW t \in Task, NEW k \in Round, Complete(t, k)', NEW p \in Rank
               PROVE  entered'[t][p] >= k /\ ~Live(Call(t, k, p))'
    BY DEF RoundInv
  <2>1. Complete(t, k)
    <3>1. ASSUME Answered(t, k)' PROVE Complete(t, k)
      <4>1. PICK q \in Rank : answer'[t][q][k] = "data"
        BY <3>1 DEF Answered
      <4>2. answer[t][q][k] = "data" \/ (t = c.task /\ k = c.round)
        BY <1>4, <4>1
      <4> QED BY <1>1, <4>2 DEF Complete, Answered
    <3>2. InResult(t, k)' => InResult(t, k)
      BY <1>2 DEF InResult, Data
    <3>3. ASSUME NEW q \in Rank, InOut(q, t, k)' PROVE InOut(q, t, k)
      <4>1. PICK j \in DOMAIN stdin'[q] : IsOut(q, j)' /\ stdin'[q][j].blob = Data(t, k)
        BY <3>3 DEF InOut, Data
      <4>2. Alive(q)' /\ ~NoOut(q)'
        BY <3>3, <4>1 DEF InOut, NoOut
      <4>3. Alive(q) /\ Fewer(q)
        BY <1>8, <4>2 DEF OutsLess
      <4> QED BY <4>1, <4>3, FewerOut DEF InOut
    <3> QED BY <3>1, <3>2, <3>3 DEF Complete
  <2>2. Call(t, k, p) \in Calls
    BY CallFields
  <2> QED BY <1>4, <1>11, <2>1, <2>2 DEF FenceInv, RoundInv
<1>14. ResultInv' /\ \A m \in net : m.type = "result" => m.to # n
  <2>1. ASSUME NEW m \in net, m.type = "result" PROVE m.to # n /\ ResultOk(m)'
    <3>1. m.to \in Rank
      BY <2>1, Messages DEF ResultMsg
    <3>2. ResultOk(m)
      BY <2>1 DEF FenceInv, ResultInv
    <3>3. m.to # n
      BY <1>1, <3>2 DEF ResultOk, Reads
    <3>4. Alive(m.to)' => NoOut(m.to)'
      BY <1>8, <3>1, <3>2, NoOutLess DEF ResultOk
    <3>5. PICK t \in Task, k \in Round :
              Current(t) /\ m.blob = Data(t, k) /\ answer[t][m.to][k] = "none"
      BY <3>2 DEF ResultOk
    <3>6. Current(t)' /\ m.blob = (Data(t, k))' /\ answer'[t][m.to][k] = "none"
      BY <1>5, <1>7, <3>1, <3>3, <3>5, SameCurrent DEF SameRounds, Data
    <3> QED BY <3>3, <3>4, <3>6 DEF ResultOk
  <2> QED BY <1>2, <2>1 DEF ResultInv
<1>15. IdInv'
  <2>1. ASSUME NEW p \in Rank, Reads(p)', p # n PROVE IdOk(p)'
    <3>1. Reads(p) => IdOk(p)
      BY DEF FenceInv, IdInv
    <3>2. IdsLess(p)
      BY <1>2, <1>3, <1>8, <2>1 DEF IdsLess, round
    <3> QED BY <1>5, <1>7, <2>1, <3>1, <3>2, IdLess
  <2>2. IdOk(n)'
    BY <1>1, <1>2, <1>3, EmptyIdsNext DEF NoIds, round
  <2> QED BY <2>1, <2>2 DEF IdInv
<1>16. ASSUME faults' = <<>> PROVE (\A p \in Rank : Registers(p)') /\ ReportsOk' /\ CalmOk'
  <2>1. (\A p \in Rank : Registers(p)) /\ ReportsOk /\ CalmOk
    BY <1>2, <1>16 DEF FenceInv, QuietInv
  <2>2. \A p \in Rank \ {n} : Registers(p)'
    <3>1. \A p \in Rank \ {n} : stdin'[p] = stdin[p]
      BY <1>2, ReadingLines
    <3> QED BY <1>2, <1>6, <2>1, <3>1, RegistersSame DEF session, book
  <2>3. Registers(n)'
    <3>1. \A j \in DOMAIN stdin[n] : stdin[n][j].cmd = "REGISTER" =>
              \E i1 \in DOMAIN stdin'[n] : stdin'[n][i1] = stdin[n][j]
      BY <1>2, ReadingLines
    <3>2. (rank'[n].st = "failed") <=> (rank[n].st = "failed")
      BY <1>4
    <3>3. rank'[n].task = rank[n].task
      BY <1>4
    <3> QED BY <1>2, <1>6, <2>1, <3>1, <3>2, <3>3 DEF Registers, session, book
  <2>4. ReportsOk'
    <3>1. \A p \in Rank : Owes(p)' = Owes(p)
      BY <1>2, <1>6, OwesSame
    <3> QED BY <1>2, <1>5, <1>6, <2>1, <3>1, ReportsSame DEF book
  <2>5. ASSUME NEW d \in Calls, Live(d)' PROVE rank'[d.rank].st = "fence"
    <3>1. Live(d) /\ rank[d.rank].st = "fence" /\ d.rank \in Rank
      BY <1>11, <2>1, <2>5, CallIs DEF CalmOk
    <3>2. d.rank # n
      <4> SUFFICES ASSUME d.rank = n PROVE FALSE
        OBVIOUS
      <4>1. Current(d.task) /\ d.round = entered[d.task][n]
        BY <3>1 DEF FenceInv, CallInv
      <4>2. d.task = c.task
        BY <1>1, <4>1, CurrentOne
      <4>3. d = Call(c.task, c.round, n)
        BY <1>1, <4>1, <4>2, CallIs
      <4> QED BY <1>1, <1>4, <3>1, <4>3 DEF FenceInv, RoundInv
    <3> QED BY <1>6, <3>1, <3>2
  <2>6. \A p \in Rank : Alive(p)' /\ DOMAIN pending'[p] # {} => rank'[p].st = "fence"
    BY <1>3, <1>6, <1>8, <2>1 DEF CalmOk
  <2>7. \A m \in net' : m.type = "result" => rank'[m.to].st = "fence"
    <3>1. \A m \in net : m.type = "result" => m.to \in Rank
      BY Messages DEF ResultMsg
    <3> QED BY <1>2, <1>6, <1>14, <2>1, <3>1 DEF CalmOk
  <2> QED BY <2>2, <2>3, <2>4, <2>5, <2>6, <2>7 DEF CalmOk
<1> QED BY <1>9, <1>10, <1>11, <1>12, <1>13, <1>14, <1>15, <1>16 DEF FenceInv, QuietInv

-----------------------------------------------------------------------------
(***************************************************************************)
(* The leader gathers a round.                                             *)
(***************************************************************************)
(* With a contribution from every node the round is the one round k of the *)
(* current task, and nobody has had its data yet.                          *)
LEMMA FullRound ==
    ASSUME Types, FenceInv, NEW c \in Calls, Live(c), NEW key \in {0, c.rank},
           \A i \in DOMAIN arrived : arrived[i].rank # c.rank,
           NEW A, A = Put(arrived, key, c), Cardinality(DOMAIN A) >= N
    PROVE  /\ Current(c.task) /\ A = Data(c.task, c.round)
           /\ \A r \in Rank : /\ entered[c.task][r] = c.round
                              /\ Live(Call(c.task, c.round, r))
                              /\ r = c.rank \/ \E i \in DOMAIN arrived : arrived[i].rank = r
<1>1. /\ c.task \in Task /\ c.round \in Round /\ c.rank \in Rank /\ key \in Rank
      /\ c = Call(c.task, c.round, c.rank)
  BY CallIs, Constants
<1>2. /\ DOMAIN A = {key} \cup DOMAIN arrived /\ A[key] = c
      /\ \A i \in DOMAIN arrived : i # key => A[i] = arrived[i]
  BY DEF Put
<1>3. A = [x \in DOMAIN A |-> A[x]] /\ DOMAIN A \subseteq Rank
  <2>1. arrived \in Partial(Rank, Calls)
    BY DEF Types, RoundTypes, Blobs
  <2>2. A \in Partial(Rank, Calls)
    BY <1>1, <2>1, PutPartial
  <2> QED BY <2>2, PartialFunction
<1>4. DOMAIN A = Rank
  <2>1. /\ IsFiniteSet(DOMAIN A) /\ Cardinality(DOMAIN A) <= N
        /\ Cardinality(DOMAIN A) = N => DOMAIN A = Rank
    BY <1>3, RankIsFinite, FS_Subset
  <2>2. Cardinality(DOMAIN A) \in Nat
    BY <2>1, FS_CardinalityType
  <2> QED BY <2>1, <2>2, Constants
<1>5. ASSUME NEW i \in Rank
      PROVE  /\ A[i] \in Calls /\ Live(A[i]) /\ i \in {0, A[i].rank}
             /\ \/ A[i] = c /\ i = key
                \/ i \in DOMAIN arrived /\ A[i] = arrived[i]
  <2>1. CASE i = key
    <3>1. A[i] = c
      BY <1>2, <2>1
    <3>2. Live(A[i]) /\ A[i] \in Calls
      BY <3>1
    <3>3. i \in {0, A[i].rank}
      BY <2>1, <3>1
    <3> QED BY <2>1, <3>1, <3>2, <3>3
  <2>2. CASE i # key
    <3>1. i \in DOMAIN arrived /\ A[i] = arrived[i]
      BY <1>2, <1>4, <2>2
    <3>2. arrived[i] \in Calls /\ i \in {0, arrived[i].rank}
      BY <3>1, CallsMade DEF FenceInv, CallInv
    <3>3. Live(arrived[i])
      BY <3>1 DEF Live, InRound
    <3> QED BY <3>1, <3>2, <3>3
  <2> QED BY <2>1, <2>2
<1>6. ASSUME NEW i \in Rank PROVE A[i].rank = i
  <2>1. i # 0 => A[i].rank = i
    BY <1>5
  <2>2. ASSUME i = 0, A[0].rank # 0 PROVE FALSE
    <3>1. PICK r \in Rank : A[0].rank = r /\ r # 0
      BY <1>5, <2>2, CallIs
    <3>2. A[r].rank = r
      BY <1>5, <3>1
    <3>3. OneCall(r)
      BY DEF FenceInv, CallInv
    <3> QED BY <1>5, <2>2, <3>1, <3>2, <3>3 DEF OneCall
  <2> QED BY <2>1, <2>2
<1>7. \A i \in Rank : Current(A[i].task) /\ A[i].round = entered[A[i].task][i]
  BY <1>5, <1>6 DEF FenceInv, CallInv
<1>8. Current(c.task)
  BY DEF FenceInv, CallInv
<1>9. \A i \in Rank : A[i].task = c.task /\ A[i].round = entered[c.task][i]
  BY <1>7, <1>8, CurrentOne
<1>10. \A i \in Rank : A[i].round \in Round /\ A[i].round \in Int /\ A[i] = Call(c.task, A[i].round, i)
  <2>1. \A k \in Round : k \in Int
    BY Constants DEF Round
  <2> QED BY <1>5, <1>6, <1>9, <2>1, CallIs
<1>11. ASSUME NEW i \in Rank, NEW j \in Rank, A[i].round < A[j].round PROVE FALSE
  <2>1. answer[c.task][j][A[i].round] = "data"
    BY <1>1, <1>9, <1>10, <1>11 DEF FenceInv, RankInv, Answers
  <2>2. Complete(c.task, A[i].round)
    BY <2>1 DEF Complete, Answered
  <2>3. ~Live(Call(c.task, A[i].round, i))
    BY <1>1, <1>10, <2>2 DEF FenceInv, RoundInv
  <2> QED BY <1>5, <1>10, <2>3
<1>12. \A i, j \in Rank : A[i].round = A[j].round
  BY <1>10, <1>11
<1>13. \A i \in Rank : A[i].round = c.round
  BY <1>1, <1>2, <1>12
<1>14. \A i \in Rank : A[i] = Call(c.task, c.round, i)
  BY <1>10, <1>13
<1>15. A = Data(c.task, c.round)
  BY <1>3, <1>4, <1>14 DEF Data
<1>16. \A r \in Rank : r = c.rank \/ \E i \in DOMAIN arrived : arrived[i].rank = r
  BY <1>5, <1>6
<1> QED BY <1>5, <1>8, <1>9, <1>13, <1>14, <1>15, <1>16

(* Then nothing is on its way back to any node.                            *)
LEMMA NothingBack ==
    ASSUME Types, FenceInv, NEW t \in Task, NEW k \in Round, Current(t),
           \A r \in Rank : entered[t][r] = k /\ Live(Call(t, k, r))
    PROVE  /\ \A m \in net : m.type # "result"
           /\ \A n \in Rank : /\ Reads(n) => NoOut(n)
                              /\ answer[t][n][k] = "none"
<1>1. k \in Int /\ \A j \in Round : j \in Int
  BY Constants DEF Round
<1>2. ASSUME NEW j \in Round, Complete(t, j)
      PROVE  \A n \in Rank : answer[t][n][j] = "data"
  <2>1. \A n \in Rank : entered[t][n] >= j /\ ~Live(Call(t, j, n))
    BY <1>2 DEF FenceInv, RoundInv
  <2>2. j <= k /\ j # k
    BY <2>1, Constants
  <2>3. j < k
    <3>1. j \in Int /\ k \in Int
      BY <1>1, <1>2
    <3> QED BY <2>2, <3>1
  <2>4. ASSUME NEW n \in Rank PROVE answer[t][n][j] = "data"
    <3>1. Answers(n)
      BY DEF FenceInv, RankInv
    <3>2. j < entered[t][n]
      BY <2>3
    <3> QED BY <1>2, <3>1, <3>2 DEF Answers
  <2> QED BY <2>4
<1>3. ASSUME NEW m \in net, m.type = "result" PROVE FALSE
  <2>1. m.to \in Rank
    BY <1>3, Messages DEF ResultMsg
  <2>2. PICK u \in Task, j \in Round :
            Current(u) /\ m.blob = Data(u, j) /\ answer[u][m.to][j] = "none"
    BY <1>3 DEF FenceInv, ResultInv, ResultOk
  <2>3. u = t
    BY <2>2, CurrentOne
  <2>4. Complete(t, j)
    BY <1>3, <2>2, <2>3 DEF Complete, InResult
  <2> QED BY <1>2, <2>1, <2>2, <2>3, <2>4
<1>4. ASSUME NEW n \in Rank, Reads(n), NEW i \in DOMAIN stdin[n], IsOut(n, i) PROVE FALSE
  <2>1. IdOk(n)
    BY <1>4 DEF FenceInv, IdInv
  <2>2. /\ stdin[n][i].id \in DOMAIN pending[n]
        /\ stdin[n][i].blob = Gathered(pending[n][stdin[n][i].id])
    BY <1>4, <2>1 DEF IdOk
  <2>3. PICK c \in Calls : c = pending[n][stdin[n][i].id] /\ c.rank = n
    BY <2>2, PendingCall
  <2>4. Current(c.task) /\ answer[c.task][n][c.round] = "none"
    BY <2>1, <2>2, <2>3 DEF IdOk, PendingOk
  <2>5. c.task = t /\ c.round \in Round
    BY <2>4, CurrentOne, CallIs
  <2>6. stdin[n][i].blob = Data(t, c.round)
    BY <2>2, <2>3, <2>5, GatheredIs
  <2>7. Complete(t, c.round)
    BY <1>4, <2>6 DEF Complete, InOut, Reads
  <2> QED BY <1>2, <2>4, <2>5, <2>7
<1>5. ASSUME NEW n \in Rank PROVE answer[t][n][k] = "none"
  <2>1. answer[t][n][k] # "data"
    <3>1. ~Complete(t, k)
      BY Constants DEF FenceInv, RoundInv
    <3> QED BY <3>1 DEF Complete, Answered
  <2> QED BY <2>1 DEF FenceInv, RankInv, Answers
<1> QED BY <1>3, <1>4, <1>5 DEF NoOut

(* A step of wm_pmix that takes a contribution or a result further: what   *)
(* is left to show when the calls, the rounds, the results and the ids are *)
(* in order.                                                               *)
LEMMA GatherStep ==
    ASSUME Types, Types', FenceInv, Begun, UNCHANGED <<process, session, book, rank, history, faults>>,
           \A m \in net' \cup net : m.type \in {"start", "done"} => m \in net /\ m \in net',
           \A p \in Rank : localIds'[p] = localIds[p] \/ helper[p] \/ localIds'[p] = <<>>,
           \A p \in Rank : \A i \in DOMAIN stdin[p] :
               \E j \in DOMAIN stdin'[p] : stdin'[p][j] = stdin[p][i],
           \A p \in Rank : \A i \in DOMAIN stdin'[p] :
               \/ \E j \in DOMAIN stdin[p] : stdin[p][j] = stdin'[p][i]
               \/ LineOk(p, stdin'[p][i]) /\ stdin'[p][i].cmd # "STOP",
           CallInv', RoundInv', ResultInv', IdInv',
           \A c \in Calls : Live(c)' => Live(c),
           \A m \in net' : m.type = "result" => m \in net \/ (faults = <<>> => rank[m.to].st = "fence")
    PROVE  FenceInv'
<1>1. Kept /\ Less("start") /\ Less("done")
  BY TasksKept DEF Less, book
<1>2. TaskInv'
  BY <1>1, TaskKept DEF FenceInv, book, history, Less
<1>3. SessionInv'
  BY SessionKept DEF FenceInv, process
<1>4. RankInv'
  BY <1>1, RankKept DEF FenceInv
<1>5. ASSUME faults' = <<>> PROVE (\A p \in Rank : Registers(p)') /\ ReportsOk' /\ CalmOk'
  <2>1. (\A p \in Rank : Registers(p)) /\ ReportsOk /\ CalmOk /\ faults = <<>>
    BY <1>5 DEF FenceInv, QuietInv
  <2>2. \A p \in Rank : Registers(p)'
    BY <2>1, RegistersSame DEF process, session, book
  <2>3. ReportsOk'
    <3>1. \A p \in Rank : Owes(p)' = Owes(p)
      BY OwesSame
    <3> QED BY <1>1, <2>1, <3>1, ReportsSame DEF book
  <2>4. \A p \in Rank : Alive(p)' = Alive(p)
    BY DEF Alive, process
  <2>5. CalmOk'
    <3>1. \A d \in Calls : Live(d)' => rank'[d.rank].st = "fence"
      BY <2>1 DEF CalmOk
    <3>2. \A p \in Rank : Alive(p)' /\ DOMAIN pending'[p] # {} => rank'[p].st = "fence"
      BY <2>1, <2>4 DEF CalmOk, process
    <3>3. \A m \in net' : m.type = "result" => rank'[m.to].st = "fence"
      BY <2>1 DEF CalmOk
    <3> QED BY <3>1, <3>2, <3>3 DEF CalmOk
  <2> QED BY <2>2, <2>3, <2>5
<1> QED BY <1>2, <1>3, <1>4, <1>5 DEF FenceInv, QuietInv

(* The id of a contribution that leaves its node.                          *)
LEMMA IdGoes ==
    ASSUME Types, FenceInv, Kept, NEW n \in Rank, Reads(n), stdout[n] # <<>>, stdout'[n] = <<>>,
           pending'[n] = pending[n], storing'[n] = storing[n], stdin'[n] = stdin[n],
           SameRounds(n), localIds'[n] = <<stdout[n][1].id>>
    PROVE  IdOk(n)'
<1>1. IdOk(n)
  BY DEF FenceInv, IdInv
<1>2. PendingOk(n)'
  BY <1>1, PendingKept DEF IdOk
<1>3. Known1(n, stdout[n][1].id, stdout[n][1].call) /\ NoOut(n)
  BY <1>1 DEF IdOk
<1>4. storing[n] = <<>>
  BY DEF FenceInv, CallInv, OneCall
<1>5. NoOut(n)'
  BY <1>3 DEF NoOut, IsOut
<1>6. Len(localIds'[n]) = 1 /\ localIds'[n][1] \in DOMAIN pending'[n]
  <2> DEFINE x == stdout[n][1].id
  <2>1. x \in DOMAIN pending[n]
    BY <1>3 DEF Known1
  <2> HIDE DEF x
  <2>2. Len(<<x>>) = 1 /\ <<x>>[1] = x
    OBVIOUS
  <2>3. localIds'[n] = <<x>>
    BY DEF x
  <2> QED BY <2>1, <2>2, <2>3
<1>7. \A i \in DOMAIN stdin'[n] : ~IsOut(n, i)'
  BY <1>5 DEF NoOut
<1> QED BY <1>2, <1>4, <1>5, <1>6, <1>7 DEF IdOk

(* A contribution leaves its pipe or its cast: others are the casts        *)
(* without it, ids is what the leader remembers of it.                     *)
Moved(c, ids, others) ==
    /\ others \subseteq net /\ \A m \in net : m \in others \/ m.type = "contrib"
    /\ \A p \in Rank : stdout'[p] = stdout[p] \/ stdout'[p] = <<>>
    /\ storing[c.rank] = <<>> /\ stdout'[c.rank] = <<>>
    /\ \A m \in others : m.type = "contrib" => m.call.rank # c.rank
    /\ \A i \in DOMAIN arrived : arrived[i].rank # c.rank
    /\ \/ ids = <<>> /\ stdout' = stdout
       \/ /\ ids = <<stdout[0][1].id>> /\ helper[0] /\ stdout[0] # <<>> /\ stdout'[0] = <<>>
          /\ \A p \in Rank \ {0} : stdout'[p] = stdout[p]

(* The leader remembers at most one id.                                    *)
LEMMA LeaderIds ==
    ASSUME Types, FenceInv, NEW c, NEW ids, NEW others, Moved(c, ids, others)
    PROVE  LET u == localIds[0] \o ids IN
           /\ u \in Seq(Nat)
           /\ ids = <<>> => u = localIds[0]
           /\ Reads(0) => /\ stdout[0] # <<>> /\ ids # <<>> => u = <<stdout[0][1].id>>
                          /\ u = <<>> \/ (Len(u) = 1 /\ u[1] \in DOMAIN pending[0])
<1> DEFINE x == stdout[0][1].id
           w == localIds[0]
<1>1. w \in Seq(Nat) /\ (Reads(0) => IdOk(0))
  BY Constants DEF Types, RoundTypes, FenceInv, IdInv
<1>2. CASE ids = <<>>
  <2>1. w \o <<>> = w
    <3> HIDE DEF w
    <3> QED BY <1>1
  <2>2. Reads(0) => w = <<>> \/ (Len(w) = 1 /\ w[1] \in DOMAIN pending[0])
    BY <1>1 DEF IdOk
  <2> QED BY <1>1, <1>2, <2>1, <2>2
<1>3. CASE ids # <<>>
  <2>1. ids = <<x>> /\ stdout[0] # <<>>
    BY <1>3 DEF Moved
  <2>2. x \in Nat
    BY <2>1, CallsMade, Constants
  <2>3. Reads(0) => x \in DOMAIN pending[0] /\ w = <<>>
    BY <1>1, <2>1 DEF IdOk, Known1
  <2> HIDE DEF x, w
  <2>4. w \o <<x>> \in Seq(Nat) /\ <<>> \o <<x>> = <<x>> /\ <<x>> # <<>> /\ Len(<<x>>) = 1 /\ <<x>>[1] = x
    BY <1>1, <2>2
  <2>5. Reads(0) => w \o ids = <<x>> /\ Len(w \o ids) = 1 /\ (w \o ids)[1] \in DOMAIN pending[0]
    BY <2>1, <2>3, <2>4
  <2> QED BY <1>3, <2>1, <2>4, <2>5 DEF x, w
<1> QED BY <1>2, <1>3

(* The leader files a contribution to a round that is not complete.        *)
LEMMA Filed ==
    ASSUME Types, Types', FenceInv, Begun, UNCHANGED <<process, session, book, rank, history, faults>>,
           NEW c \in Calls, Live(c), NEW key \in {0, c.rank}, NEW ids, NEW others, Moved(c, ids, others),
           arrived' = Put(arrived, key, c), net' = others, UNCHANGED stdin,
           localIds' = [localIds EXCEPT ![0] = localIds[0] \o ids]
    PROVE  FenceInv'
<1> DEFINE u == localIds[0] \o ids
<1>1. /\ ids = <<>> => u = localIds[0]
      /\ Reads(0) /\ stdout[0] # <<>> /\ ids # <<>> => u = <<stdout[0][1].id>>
  BY LeaderIds
<1>2. /\ localIds'[0] = u /\ \A p \in Rank \ {0} : localIds'[p] = localIds[p]
  BY Constants DEF Types, RoundTypes
<1> HIDE DEF u
<1>3. /\ net' \subseteq net /\ \A k : Less(k)
      /\ \A m \in net : m \in net' \/ m.type = "contrib"
      /\ \A p \in Rank : stdout'[p] = stdout[p] \/ stdout'[p] = <<>>
      /\ storing[c.rank] = <<>> /\ stdout'[c.rank] = <<>>
      /\ \A m \in net' : m.type = "contrib" => m.call.rank # c.rank
      /\ \A i \in DOMAIN arrived : arrived[i].rank # c.rank
      /\ \/ ids = <<>> /\ stdout' = stdout
         \/ /\ ids = <<stdout[0][1].id>> /\ helper[0] /\ stdout[0] # <<>> /\ stdout'[0] = <<>>
            /\ \A p \in Rank \ {0} : stdout'[p] = stdout[p]
  BY DEF Moved, Less
<1>4. /\ DOMAIN arrived' = {key} \cup DOMAIN arrived /\ arrived'[key] = c
      /\ \A i \in DOMAIN arrived : i # key => arrived'[i] = arrived[i]
  BY DEF Put
<1>5. \A i \in DOMAIN arrived' : \/ i = key /\ arrived'[i] = c
                                 \/ i \in DOMAIN arrived /\ arrived'[i] = arrived[i]
  BY <1>4
<1>6. Kept /\ pending' = pending /\ storing' = storing /\ main' = main
  BY TasksKept DEF book, process
<1>7. \A d \in Calls : Live(d)' => Live(d)
  <2> SUFFICES ASSUME NEW d \in Calls, Live(d)' PROVE Live(d)
    OBVIOUS
  <2>1. \A p \in Rank : (InStore(p, d)' => InStore(p, d)) /\ (InPipe(p, d)' => InPipe(p, d))
    BY <1>3, <1>6 DEF InStore, InPipe
  <2>2. InCast(d)' => InCast(d)
    BY <1>3 DEF InCast
  <2>3. InRound(d)' => InRound(d) \/ d = c
    BY <1>5 DEF InRound
  <2> QED BY <2>1, <2>2, <2>3 DEF Live
<1>8. CallInv'
  <2>1. ASSUME NEW p \in Rank PROVE OneCall(p)'
    <3>1. OneCall(p) /\ storing'[p] = storing[p]
      BY <1>6 DEF FenceInv, CallInv
    <3>2. CASE p # c.rank
      <4>1. OffNode(p) => OffNode(p)'
        BY <1>3, <1>5, <3>2 DEF OffNode
      <4>2. \A i \in DOMAIN arrived' : arrived'[i].rank = p => i \in DOMAIN arrived /\ arrived[i].rank = p
        BY <1>5, <3>2
      <4>3. Len(<<>>) = 0
        OBVIOUS
      <4>4. Len(stdout'[p]) <= 1
        BY <1>3, <3>1, <4>3 DEF OneCall
      <4>5. storing'[p] # <<>> => stdout'[p] = <<>> /\ storing'[p][1].call.rank = p /\ OffNode(p)'
        BY <1>3, <3>1, <4>1 DEF OneCall
      <4>6. stdout'[p] # <<>> => /\ stdout'[p][1].call.rank = p /\ stdout'[p][1].key \in {0, p}
                                 /\ OffNode(p)'
        BY <1>3, <3>1, <4>1 DEF OneCall
      <4>7. \A m \in net' : m.type = "contrib" /\ m.call.rank = p =>
              /\ m.key \in {0, p}
              /\ \A x \in net' : x.type = "contrib" /\ x.call.rank = p => x = m
              /\ \A i \in DOMAIN arrived' : arrived'[i].rank # p
        BY <1>3, <3>1, <4>2 DEF OneCall
      <4>8. \A i, j \in DOMAIN arrived' : arrived'[i].rank = p /\ arrived'[j].rank = p => i = j
        BY <3>1, <4>2 DEF OneCall
      <4> QED BY <4>4, <4>5, <4>6, <4>7, <4>8 DEF OneCall
    <3>3. CASE p = c.rank
      <4>1. Len(<<>>) = 0
        OBVIOUS
      <4>2. \A i \in DOMAIN arrived' : arrived'[i].rank = p => i = key
        BY <1>3, <1>5, <3>3
      <4> QED BY <1>3, <3>1, <3>3, <4>1, <4>2 DEF OneCall
    <3> QED BY <3>2, <3>3
  <2>2. \A i \in DOMAIN arrived' : i \in {0, arrived'[i].rank}
    BY <1>5 DEF FenceInv, CallInv
  <2>3. \A d \in Calls : Live(d)' => Current(d.task)' /\ d.round = entered'[d.task][d.rank]
    BY <1>6, <1>7, SameCurrent DEF FenceInv, CallInv, history
  <2> QED BY <2>1, <2>2, <2>3 DEF CallInv
<1>9. \A p \in Rank : /\ Fewer(p) /\ OutsLess(p) /\ Alive(p)' = Alive(p) /\ Reads(p)' = Reads(p)
                      /\ SameRounds(p) /\ stdin'[p] = stdin[p]
  <2>1. \A p \in Rank : Alive(p)' = Alive(p) /\ Reads(p)' = Reads(p)
    BY <1>6 DEF Alive, Reads
  <2> QED BY <2>1, PipeSame DEF SameRounds, history
<1>10. RoundInv' /\ ResultInv'
  BY <1>3, <1>6, <1>7, <1>9, RoundLess, ResultLess DEF FenceInv, history
<1>11. IdInv'
  <2> SUFFICES ASSUME NEW p \in Rank, Reads(p)' PROVE IdOk(p)'
    BY DEF IdInv
  <2>1. Reads(p) /\ IdOk(p)
    BY <1>9 DEF FenceInv, IdInv
  <2>2. CASE localIds'[p] = localIds[p]
    <3>1. IdsLess(p)
      BY <1>3, <1>6, <1>9, <2>2 DEF IdsLess
    <3> QED BY <1>6, <1>9, <2>1, <3>1, IdLess
  <2>3. CASE localIds'[p] # localIds[p]
    <3>1. p = 0 /\ ids # <<>>
      BY <1>1, <1>2, <2>3
    <3>2. stdout[0] # <<>> /\ stdout'[0] = <<>>
      BY <1>3, <3>1
    <3>3. localIds'[0] = <<stdout[0][1].id>>
      BY <1>1, <1>2, <2>1, <3>1, <3>2
    <3> QED BY <1>6, <1>9, <2>1, <3>1, <3>2, <3>3, IdGoes
  <2> QED BY <2>2, <2>3
<1>12. \A p \in Rank : localIds'[p] = localIds[p] \/ helper[p] \/ localIds'[p] = <<>>
  BY <1>1, <1>2, <1>3
<1>13. \A m \in net' \cup net : m.type \in {"start", "done"} => m \in net /\ m \in net'
  BY <1>3
<1>14. \A m \in net' : m.type = "result" => m \in net \/ (faults = <<>> => rank[m.to].st = "fence")
  BY <1>3
<1>15. \A p \in Rank : \A i \in DOMAIN stdin[p] : \E j \in DOMAIN stdin'[p] : stdin'[p][j] = stdin[p][i]
  BY <1>9
<1>16. \A p \in Rank : \A i \in DOMAIN stdin'[p] :
          \/ \E j \in DOMAIN stdin[p] : stdin[p][j] = stdin'[p][i]
          \/ LineOk(p, stdin'[p][i]) /\ stdin'[p][i].cmd # "STOP"
  BY <1>9
<1> QED BY <1>7, <1>8, <1>10, <1>11, <1>12, <1>13, <1>14, <1>15, <1>16, GatherStep

(* A leader that leads no session forgets the contribution.                *)
LEMMA Forgotten ==
    ASSUME Types, Types', FenceInv, Begun, UNCHANGED <<process, session, book, rank, history, faults>>,
           NEW c \in Calls, NEW ids, NEW others, Moved(c, ids, others), ~helper[0],
           arrived' = <<>>, net' = others, stdin' = stdin,
           localIds'[0] = <<>>, \A p \in Rank \ {0} : localIds'[p] = localIds[p]
    PROVE  FenceInv'
<1>1. /\ \A k : Less(k)
      /\ \A m \in net' \cup net : m.type \in {"start", "done"} => m \in net /\ m \in net'
      /\ stdout' = stdout
  BY DEF Moved, Less
<1>2. Kept /\ pending' = pending /\ storing' = storing /\ main' = main
  BY TasksKept DEF book, process
<1>3. CallsLess
  BY <1>1, <1>2 DEF CallsLess
<1>4. \A p \in Rank : OutsLess(p) /\ Fewer(p) /\ Reads(p)' = Reads(p)
  <2>1. \A p \in Rank : Alive(p)' = Alive(p) /\ Reads(p)' = Reads(p)
    BY <1>2 DEF Alive, Reads
  <2> QED BY <2>1, PipeSame
<1>5. \A p \in Rank : localIds'[p] = localIds[p] \/ localIds'[p] = <<>>
  OBVIOUS
<1>6. \A p \in Rank : IdsLess(p)
  BY <1>1, <1>2, <1>4, <1>5 DEF IdsLess
<1>7. CallInv' /\ RoundInv' /\ ResultInv' /\ IdInv' /\ \A d \in Calls : Live(d)' => Live(d)
  BY <1>1, <1>2, <1>3, <1>4, <1>6, Lesser
<1>8. \A m \in net' : m.type = "result" => m \in net \/ (faults = <<>> => rank[m.to].st = "fence")
  BY <1>1 DEF Less
<1>9. /\ \A p \in Rank : \A i \in DOMAIN stdin[p] : \E j \in DOMAIN stdin'[p] : stdin'[p][j] = stdin[p][i]
      /\ \A p \in Rank : \A i \in DOMAIN stdin'[p] : \E j \in DOMAIN stdin[p] : stdin[p][j] = stdin'[p][i]
  OBVIOUS
<1> QED BY <1>1, <1>5, <1>7, <1>8, <1>9, GatherStep

LEMMA DataType == ASSUME NEW t \in Task, NEW k \in Round PROVE Data(t, k) \in Blobs
<1>1. Data(t, k) \in [Rank -> Calls]
  BY CallFields DEF Data
<1> QED BY <1>1 DEF Blobs, Partial

(* What the pipe to a helper holds after the data of a round for the ids   *)
(* of its calls: w is s and, if anything, FENCE_OUT lines.                 *)
Answering(s, w, ids, t, k) ==
    /\ \A i \in DOMAIN s : i \in DOMAIN w /\ w[i] = s[i]
    /\ \A i \in DOMAIN w :
          \/ i \in DOMAIN s /\ w[i] = s[i]
          \/ /\ w[i].cmd = "FENCE_OUT" /\ w[i].blob = Data(t, k) /\ ids # <<>>
             /\ Len(ids) = 1 => i = Len(s) + 1 /\ w[i].id = ids[1]

LEMMA SameLines == ASSUME NEW s, NEW ids, NEW t, NEW k PROVE Answering(s, s, ids, t, k)
BY DEF Answering

LEMMA DataAdded ==
    ASSUME NEW s \in Seq(PlainLine \cup OutLine), NEW ids \in Seq(Nat), NEW t \in Task, NEW k \in Round
    PROVE  Answering(s, s \o OutLines(ids, Data(t, k)), ids, t, k)
<1> DEFINE A == Data(t, k)
<1>1. A \in Blobs
  BY DataType
<1>2. \A x : FenceOut(x, A).cmd = "FENCE_OUT" /\ FenceOut(x, A).blob = A /\ FenceOut(x, A).id = x
  BY DEF FenceOut
<1> HIDE DEF A
<1> DEFINE v == OutLines(ids, A)
           w == s \o v
<1>3. /\ v \in Seq(PlainLine \cup OutLine)
      /\ Len(v) = Len(ids)
      /\ \A i \in DOMAIN ids : v[i] = FenceOut(ids[i], A)
  BY <1>1, OutLinesType
<1> HIDE DEF v
<1>4. DOMAIN v = DOMAIN ids /\ Len(s) \in Int
  BY <1>3
<1>5. /\ w \in Seq(PlainLine \cup OutLine)
      /\ \A i \in DOMAIN s : i \in DOMAIN w /\ w[i] = s[i]
      /\ \A i \in DOMAIN w : i \in DOMAIN s \/ (i - Len(s) \in DOMAIN v /\ w[i] = v[i - Len(s)])
  BY <1>3, ConcatLines
<1> HIDE DEF w
<1>6. \A i \in DOMAIN w : i \in Int
  BY <1>5
<1>7. ASSUME NEW i \in DOMAIN w, i \notin DOMAIN s
      PROVE  /\ w[i].cmd = "FENCE_OUT" /\ w[i].blob = A /\ ids # <<>>
             /\ Len(ids) = 1 => i = Len(s) + 1 /\ w[i].id = ids[1]
  <2>1. PICK j : j = i - Len(s)
    OBVIOUS
  <2>2. j \in DOMAIN ids /\ w[i] = v[j]
    BY <1>4, <1>5, <1>7, <2>1
  <2>3. w[i].cmd = "FENCE_OUT" /\ w[i].blob = A /\ w[i].id = ids[j]
    BY <1>2, <1>3, <2>2
  <2>4. Len(ids) = 1 => j = 1
    BY <2>2
  <2>5. ids # <<>>
    BY <2>2
  <2>6. j = 1 => i = Len(s) + 1
    BY <1>4, <1>6, <2>1
  <2> QED BY <2>3, <2>4, <2>5, <2>6
<1>8. Answering(s, w, ids, t, k)
  BY <1>5, <1>7 DEF Answering, A
<1> QED BY <1>8 DEF w, v, A

(* The last contribution of a round: its data A go to every node, and to   *)
(* the calls u of the leader.                                              *)
LastOne(c, key, ids, others, A, u) ==
    /\ A = Put(arrived, key, c) /\ Cardinality(DOMAIN A) >= N
    /\ u = localIds[0] \o ids
    /\ arrived' = <<>> /\ localIds'[0] = <<>>
    /\ stdin'[0] = IF helper[0] THEN stdin[0] \o OutLines(u, A) ELSE stdin[0]
    /\ \A p \in Rank \ {0} : localIds'[p] = localIds[p] /\ stdin'[p] = stdin[p]
    /\ others \subseteq net'
    /\ \A m \in net' : m \in others \/ (m.type = "result" /\ m.blob = A /\ m.to \in Rank \ {0})

(* Nobody is under way in its round any more.                              *)
LEMMA Completed ==
    ASSUME Types, Types', FenceInv, Begun, UNCHANGED <<process, session, book, rank, history, faults>>,
           NEW c \in Calls, Live(c), NEW key \in {0, c.rank}, NEW ids, NEW others, Moved(c, ids, others),
           NEW A, NEW u, LastOne(c, key, ids, others, A, u)
    PROVE  FenceInv'
<1>0. /\ A = Put(arrived, key, c) /\ Cardinality(DOMAIN A) >= N
      /\ u = localIds[0] \o ids
      /\ arrived' = <<>> /\ localIds'[0] = <<>>
      /\ stdin'[0] = IF helper[0] THEN stdin[0] \o OutLines(u, A) ELSE stdin[0]
      /\ \A p \in Rank \ {0} : localIds'[p] = localIds[p] /\ stdin'[p] = stdin[p]
      /\ others \subseteq net'
      /\ \A m \in net' : m \in others \/ (m.type = "result" /\ m.blob = A /\ m.to \in Rank \ {0})
  BY DEF LastOne
<1> USE <1>0
<1>1. PICK t \in Task, k \in Round :
          /\ c.task = t /\ c.round = k /\ Current(t) /\ A = Data(t, k)
          /\ \A r \in Rank : /\ entered[t][r] = k /\ Live(Call(t, k, r))
                             /\ r = c.rank \/ \E i \in DOMAIN arrived : arrived[i].rank = r
  <2>1. /\ Current(c.task) /\ A = Data(c.task, c.round)
        /\ \A r \in Rank : /\ entered[c.task][r] = c.round
                           /\ Live(Call(c.task, c.round, r))
                           /\ r = c.rank \/ \E i \in DOMAIN arrived : arrived[i].rank = r
    <3>1. \A i \in DOMAIN arrived : arrived[i].rank # c.rank
      BY DEF Moved
    <3> QED BY <3>1, FullRound
  <2>2. c.task \in Task /\ c.round \in Round
    BY CallIs
  <2> QED BY <2>1, <2>2
<1>2. /\ \A m \in net : m.type # "result"
      /\ \A n \in Rank : (Reads(n) => NoOut(n)) /\ answer[t][n][k] = "none"
  BY <1>1, NothingBack
<1>3. /\ others \subseteq net /\ \A m \in net : m \in others \/ m.type = "contrib"
      /\ \A p \in Rank : stdout'[p] = stdout[p] \/ stdout'[p] = <<>>
      /\ storing[c.rank] = <<>> /\ stdout'[c.rank] = <<>>
      /\ \A m \in others : m.type = "contrib" => m.call.rank # c.rank
      /\ c.rank \in Rank /\ k \in Int
  BY <1>1, CallIs, Constants DEF Moved, Round
<1>4. Kept /\ pending' = pending /\ storing' = storing /\ main' = main /\ UNCHANGED history
  BY TasksKept DEF book, process
<1>5. \A p \in Rank : OneCall(p)
  BY DEF FenceInv, CallInv
<1>6. \A p \in Rank : storing[p] = <<>> /\ stdout'[p] = <<>>
  <2> SUFFICES ASSUME NEW p \in Rank, p # c.rank PROVE storing[p] = <<>> /\ stdout'[p] = <<>>
    BY <1>3
  <2>1. ~OffNode(p)
    BY <1>1 DEF OffNode
  <2> QED BY <1>3, <1>5, <2>1 DEF OneCall
<1>7. \A m \in net' : m.type # "contrib"
  <2> SUFFICES ASSUME NEW m \in others, m.type = "contrib" PROVE FALSE
    OBVIOUS
  <2>1. m \in net /\ m.call.rank \in Rank /\ m.call.rank # c.rank
    BY <1>3, CallsMade, CallIs
  <2>2. PICK i \in DOMAIN arrived : arrived[i].rank = m.call.rank
    BY <1>1, <2>1
  <2> QED BY <1>5, <2>1, <2>2 DEF OneCall
<1>8. \A d : ~Live(d)'
  <2>1. DOMAIN <<>> = {}
    OBVIOUS
  <2> QED BY <1>4, <1>6, <1>7, <2>1 DEF Live, InStore, InPipe, InCast, InRound
<1>9. CallInv'
  <2>1. CallsLess
    BY <1>3, <1>4, <1>7 DEF CallsLess, Less
  <2> QED BY <1>4, <2>1, CallLess DEF FenceInv, history
<1>10. \A p \in Rank : Alive(p)' = Alive(p) /\ Reads(p)' = Reads(p) /\ SameRounds(p)
  BY <1>4 DEF Alive, Reads, SameRounds, history
<1>11. u \in Seq(Nat) /\ (Reads(0) => u = <<>> \/ (Len(u) = 1 /\ u[1] \in DOMAIN pending[0]))
  BY LeaderIds
<1>12. A \in Blobs
  <2>1. arrived \in Partial(Rank, Calls) /\ key \in Rank
    BY <1>3, Constants DEF Types, RoundTypes, Blobs
  <2> QED BY <2>1, PutPartial DEF Blobs
<1>13. Answering(stdin[0], stdin'[0], u, t, k)
  <2>1. stdin[0] \in Seq(PlainLine \cup OutLine)
    BY Constants DEF Types, PipeTypes
  <2>2. Answering(stdin[0], stdin[0] \o OutLines(u, Data(t, k)), u, t, k)
    BY <1>11, <2>1, DataAdded
  <2>3. Answering(stdin[0], stdin[0], u, t, k)
    BY SameLines
  <2>4. CASE helper[0]
    BY <1>1, <2>2, <2>4
  <2>5. CASE ~helper[0]
    BY <2>3, <2>5
  <2> QED BY <2>4, <2>5
<1>14. /\ \A p \in Rank : \A i \in DOMAIN stdin[p] : \E j \in DOMAIN stdin'[p] : stdin'[p][j] = stdin[p][i]
       /\ \A p \in Rank : \A i \in DOMAIN stdin'[p] :
             \/ i \in DOMAIN stdin[p] /\ stdin[p][i] = stdin'[p][i]
             \/ p = 0 /\ stdin'[p][i].cmd = "FENCE_OUT" /\ stdin'[p][i].blob = Data(t, k)
  <2>1. \A p \in Rank \ {0} : stdin'[p] = stdin[p]
    OBVIOUS
  <2> QED BY <1>13, <2>1 DEF Answering
<1>15. RoundInv'
  <2> SUFFICES ASSUME NEW v \in Task, NEW j \in Round, Complete(v, j)', NEW p \in Rank
               PROVE  entered'[v][p] >= j /\ ~Live(Call(v, j, p))'
    BY DEF RoundInv
  <2>1. Complete(v, j) \/ (v = t /\ j = k)
    <3>1. Answered(v, j)' => Answered(v, j)
      BY <1>4 DEF Answered, history
    <3>2. ASSUME InResult(v, j)' PROVE v = t /\ j = k
      <4>1. PICK m \in net' : m.type = "result" /\ m.blob = Data(v, j)
        BY <3>2 DEF InResult, Data
      <4>2. m \notin others
        BY <1>2, <1>3, <4>1
      <4>3. m.blob = A
        BY <4>1, <4>2
      <4>4. Data(v, j) = Data(t, k)
        BY <1>1, <4>1, <4>3
      <4> QED BY <4>4, DataOne
    <3>3. ASSUME NEW q \in Rank, InOut(q, v, j)' PROVE InOut(q, v, j) \/ (v = t /\ j = k)
      <4>1. PICK i \in DOMAIN stdin'[q] : stdin'[q][i].cmd = "FENCE_OUT" /\ stdin'[q][i].blob = Data(v, j)
        BY <3>3 DEF InOut, Data, IsOut
      <4>2. Alive(q)
        BY <1>10, <3>3 DEF InOut
      <4>3. CASE i \in DOMAIN stdin[q] /\ stdin[q][i] = stdin'[q][i]
        BY <4>1, <4>2, <4>3 DEF InOut, IsOut
      <4>4. CASE stdin'[q][i].blob = Data(t, k)
        <5>1. Data(v, j) = Data(t, k)
          BY <4>1, <4>4
        <5> QED BY <5>1, DataOne
      <4> QED BY <1>14, <4>3, <4>4
    <3> QED BY <3>1, <3>2, <3>3 DEF Complete
  <2>2. CASE Complete(v, j)
    BY <1>4, <1>8, <2>2 DEF FenceInv, RoundInv, history
  <2>3. CASE v = t /\ j = k
    BY <1>1, <1>3, <1>4, <1>8, <2>3 DEF history
  <2> QED BY <2>1, <2>2, <2>3
<1>16. ResultInv'
  <2> SUFFICES ASSUME NEW m \in net', m.type = "result" PROVE ResultOk(m)'
    BY DEF ResultInv
  <2>1. m.blob = Data(t, k) /\ m.to \in Rank \ {0}
    BY <1>1, <1>2, <1>3
  <2>2. Current(t)'
    BY <1>1, <1>4, SameCurrent
  <2>3. answer'[t][m.to][k] = "none"
    BY <1>2, <1>4, <2>1 DEF history
  <2>4. Alive(m.to)' => NoOut(m.to)'
    <3>1. Alive(m.to) => Reads(m.to)
      BY <2>1 DEF FenceInv, SessionInv, Reads
    <3>2. stdin'[m.to] = stdin[m.to]
      BY <2>1
    <3> QED BY <1>2, <1>10, <2>1, <3>1, <3>2 DEF NoOut, IsOut
  <2>5. m.blob = (Data(t, k))'
    BY <2>1 DEF Data
  <2> QED BY <2>2, <2>3, <2>4, <2>5 DEF ResultOk
<1>17. IdInv'
  <2>1. ASSUME NEW p \in Rank \ {0}, Reads(p)' PROVE IdOk(p)'
    <3>1. Reads(p) /\ IdOk(p)
      BY <1>10, <2>1 DEF FenceInv, IdInv
    <3>2. Fewer(p)
      BY PipeSame
    <3>3. IdsLess(p)
      BY <1>4, <1>6, <1>10, <3>2 DEF IdsLess
    <3> QED BY <1>4, <1>10, <2>1, <3>1, <3>3, IdLess
  <2>2. ASSUME Reads(0)' PROVE IdOk(0)'
    <3>1. Reads(0) /\ IdOk(0) /\ 0 \in Rank
      BY <1>10, <2>2, Constants DEF FenceInv, IdInv
    <3>2. PendingOk(0)'
      BY <1>4, <1>10, <3>1, PendingKept DEF IdOk
    <3>3. \A i \in DOMAIN stdin'[0] : stdin'[0][i].cmd = "FENCE_OUT" =>
              /\ stdin'[0][i].blob = Data(t, k) /\ u # <<>>
              /\ Len(u) = 1 => i = Len(stdin[0]) + 1 /\ stdin'[0][i].id = u[1]
      <4>1. \A i \in DOMAIN stdin[0] : stdin[0][i].cmd # "FENCE_OUT"
        BY <1>2, <3>1 DEF NoOut, IsOut
      <4> QED BY <1>13, <4>1 DEF Answering
    <3>4. u # <<>> => Len(u) = 1 /\ u[1] \in DOMAIN pending[0] /\ Gathered(pending[0][u[1]]) = Data(t, k)
      <4> SUFFICES ASSUME u # <<>>
                   PROVE  /\ Len(u) = 1 /\ u[1] \in DOMAIN pending[0]
                          /\ Gathered(pending[0][u[1]]) = Data(t, k)
        OBVIOUS
      <4>1. Len(u) = 1 /\ u[1] \in DOMAIN pending[0]
        BY <1>11, <3>1
      <4>2. PICK d \in Calls : d = pending[0][u[1]] /\ d.rank = 0
        BY <3>1, <4>1, PendingCall
      <4>3. Current(d.task) /\ d.round = entered[d.task][0]
        BY <3>1, <4>1, <4>2 DEF IdOk, PendingOk
      <4>4. d.task = t /\ d.round = k
        BY <1>1, <3>1, <4>3, CurrentOne
      <4> QED BY <4>1, <4>2, <4>4, GatheredIs
    <3>5. \A i \in DOMAIN stdin'[0] : IsOut(0, i)' =>
              /\ stdin'[0][i].id \in DOMAIN pending[0]
              /\ stdin'[0][i].blob = Gathered(pending[0][stdin'[0][i].id])
      BY <3>3, <3>4 DEF IsOut
    <3>6. \A i, j \in DOMAIN stdin'[0] : IsOut(0, i)' /\ IsOut(0, j)' => i = j
      BY <3>3, <3>4 DEF IsOut
    <3>7. \A i \in DOMAIN stdin'[0] : IsOut(0, i)' =>
              /\ stdin'[0][i].id \in DOMAIN pending'[0]
              /\ stdin'[0][i].blob = (Gathered(pending[0][stdin[0][i].id]))'
      BY <1>4, <3>5 DEF Gathered
    <3>8. storing'[0] = <<>> /\ stdout'[0] = <<>> /\ localIds'[0] = <<>>
      BY <1>4, <1>6, <3>1
    <3> QED BY <3>2, <3>6, <3>7, <3>8 DEF IdOk
  <2> QED BY <2>1, <2>2 DEF IdInv
<1>18. \A m \in net' \cup net : m.type \in {"start", "done"} => m \in net /\ m \in net'
  BY <1>3
<1>19. \A m \in net' : m.type = "result" => m \in net \/ (faults = <<>> => rank[m.to].st = "fence")
  <2> SUFFICES ASSUME NEW m \in net', m.type = "result", m \notin net, faults = <<>>
               PROVE  rank[m.to].st = "fence"
    OBVIOUS
  <2>1. m.to \in Rank
    BY <1>3
  <2>2. Live(Call(t, k, m.to))
    BY <1>1, <2>1
  <2>3. Call(t, k, m.to) \in Calls /\ Call(t, k, m.to).rank = m.to
    BY <2>1, CallFields
  <2> QED BY <2>2, <2>3 DEF FenceInv, QuietInv, CalmOk
<1>20. \A p \in Rank : \A i \in DOMAIN stdin'[p] :
           \/ \E j \in DOMAIN stdin[p] : stdin[p][j] = stdin'[p][i]
           \/ LineOk(p, stdin'[p][i]) /\ stdin'[p][i].cmd # "STOP"
  BY <1>14 DEF LineOk
<1>21. \A p \in Rank : localIds'[p] = localIds[p] \/ helper[p] \/ localIds'[p] = <<>>
  OBVIOUS
<1>22. \A d \in Calls : Live(d)' => Live(d)
  BY <1>8
<1> QED BY <1>9, <1>14, <1>15, <1>16, <1>17, <1>18, <1>19, <1>20, <1>21, <1>22, GatherStep

LEMMA ContributeFence ==
    ASSUME Types, Types', FenceInv, Begun, UNCHANGED <<process, session, book, rank, history, faults>>,
           NEW c \in Calls, Live(c), NEW key \in {0, c.rank}, NEW ids, NEW others, Moved(c, ids, others),
           Contribute(key, c, ids, others)
    PROVE  FenceInv'
<1> DEFINE A == Put(arrived, key, c)
           u == localIds[0] \o ids
           in == [localIds EXCEPT ![0] = u]
           results == IF peers THEN {[type |-> "result", to |-> n, blob |-> A] : n \in Rank \ {0}} ELSE {}
<1>1. CASE ~Enough(A)
  <2>1. arrived' = A /\ localIds' = in /\ net' = others /\ UNCHANGED stdin
    BY <1>1 DEF Contribute
  <2> QED BY <2>1, Filed
<1>2. CASE Enough(A)
  <2>1. /\ stdin' = [stdin EXCEPT ![0] = IF helper[0] THEN stdin[0] \o OutLines(in[0], A) ELSE stdin[0]]
        /\ localIds' = [in EXCEPT ![0] = <<>>]
        /\ arrived' = <<>>
        /\ net' = others \cup results
    BY <1>2 DEF Contribute, ApplyResult
  <2>2. Cardinality(DOMAIN A) >= (IF expected[0] = 0 THEN 1 ELSE expected[0])
    BY <1>2 DEF Enough
  <2>3. /\ peers => \A m \in results : m.type = "result" /\ m.blob = A /\ m.to \in Rank \ {0}
        /\ ~peers => results = {}
    OBVIOUS
  <2>4. in[0] = u /\ \A p \in Rank \ {0} : in[p] = localIds[p]
    BY Constants DEF Types, RoundTypes
  <2>5. DOMAIN in = Rank /\ DOMAIN stdin = Rank /\ 0 \in Rank
    BY Constants DEF Types, RoundTypes, PipeTypes
  <2>6. PICK B, w : B = A /\ w = u
    OBVIOUS
  <2> HIDE DEF A, u, in, results
  <2>7. /\ localIds'[0] = <<>> /\ \A p \in Rank \ {0} : localIds'[p] = localIds[p]
        /\ stdin'[0] = IF helper[0] THEN stdin[0] \o OutLines(w, B) ELSE stdin[0]
        /\ \A p \in Rank \ {0} : stdin'[p] = stdin[p]
    BY <2>1, <2>4, <2>5, <2>6
  <2>8. CASE expected[0] = 0
    <3>1. ~helper[0] /\ ~peers
      BY <2>8 DEF FenceInv, SessionInv
    <3>2. net' = others
      BY <2>1, <2>3, <3>1
    <3>3. stdin' = stdin
      <4>1. stdin' = [stdin EXCEPT ![0] = stdin[0]]
        BY <2>1, <3>1
      <4> QED BY <4>1 DEF Types, PipeTypes
    <3> QED BY <2>1, <2>7, <3>1, <3>2, <3>3, Forgotten
  <2>9. CASE expected[0] # 0
    <3>1. expected[0] = N
      BY <2>5, <2>9 DEF Types, SessionTypes
    <3>2. Cardinality(DOMAIN B) >= N
      BY <2>2, <2>6, <2>9, <3>1
    <3>3. others \subseteq net'
      BY <2>1
    <3>4. \A m \in net' : m \in others \/ (m.type = "result" /\ m.blob = B /\ m.to \in Rank \ {0})
      BY <2>1, <2>3, <2>6
    <3>5. B = Put(arrived, key, c) /\ w = localIds[0] \o ids
      BY <2>6 DEF A, u
    <3>6. \A p \in Rank \ {0} : localIds'[p] = localIds[p] /\ stdin'[p] = stdin[p]
      BY <2>7
    <3>7. LastOne(c, key, ids, others, B, w)
      BY <2>1, <2>7, <3>2, <3>3, <3>4, <3>5, <3>6 DEF LastOne
    <3> QED BY <3>7, Completed
  <2> QED BY <2>8, <2>9
<1> QED BY <1>1, <1>2

LEMMA FenceContribFence ==
    ASSUME Types, Types', FenceInv, Begun, NEW m \in net, FenceContrib(m)
    PROVE  FenceInv'
<1> DEFINE c == m.call
           others == net \ {m}
<1>1. /\ m.type = "contrib" /\ Contribute(m.key, c, <<>>, others) /\ stdout' = stdout
      /\ UNCHANGED <<process, session, book, rank, history, faults>>
  BY DEF FenceContrib
<1>2. c \in Calls /\ c.rank \in Rank
  BY <1>1, CallsMade, CallIs
<1>3. Live(c)
  BY <1>1 DEF Live, InCast
<1>4. OneCall(c.rank)
  BY <1>2 DEF FenceInv, CallInv
<1>5. /\ m.key \in {0, c.rank}
      /\ \A x \in net : x.type = "contrib" /\ x.call.rank = c.rank => x = m
      /\ \A i \in DOMAIN arrived : arrived[i].rank # c.rank
      /\ storing[c.rank] = <<>> /\ stdout[c.rank] = <<>>
  BY <1>1, <1>4 DEF OneCall, OffNode
<1>6. Moved(c, <<>>, others)
  BY <1>1, <1>5 DEF Moved
<1> HIDE DEF c, others
<1> QED BY <1>1, <1>2, <1>3, <1>5, <1>6, ContributeFence

(* A contribution leaves the pipe of its node.                             *)
LEMMA LocalFenceInFence ==
    ASSUME Types, Types', FenceInv, Begun, NEW n \in Rank, LocalFenceIn(n)
    PROVE  FenceInv'
<1>1. PICK l : l = stdout[n][1]
  OBVIOUS
<1>2. PICK c : c = l.call
  OBVIOUS
<1>3. /\ helper[n] /\ stdout[n] # <<>>
      /\ UNCHANGED <<process, session, book, rank, history, faults>>
      /\ stdout' = [stdout EXCEPT ![n] = Tail(stdout[n])]
  BY DEF LocalFenceIn
<1>4. OneCall(n)
  BY DEF FenceInv, CallInv
<1>5. /\ Head(stdout[n]) = l /\ l \in InLine /\ Tail(stdout[n]) = <<>>
      /\ stdout[n] \in Seq(InLine)
  <2> DEFINE s == stdout[n]
  <2>1. s \in Seq(InLine) /\ s # <<>> /\ Len(s) <= 1
    BY <1>3, <1>4 DEF Types, PipeTypes, OneCall
  <2> HIDE DEF s
  <2>2. Head(s) = s[1] /\ s[1] \in InLine /\ Tail(s) \in Seq(InLine) /\ Len(Tail(s)) = Len(s) - 1
    BY <2>1, TailLines
  <2>3. Len(s) = 1
    BY <2>1, OneElement
  <2>4. Tail(s) = <<>>
    <3>1. Len(Tail(s)) = 0
      BY <2>2, <2>3
    <3> QED BY <2>2, <3>1, EmptySeq
  <2> QED BY <1>1, <2>1, <2>2, <2>4 DEF s
<1>6. /\ c \in Calls /\ c.rank = n /\ l.key \in {0, n} /\ OffNode(n) /\ storing[n] = <<>>
      /\ Live(c) /\ l.id \in Nat
  <2>1. c \in Calls /\ l.id \in Nat
    BY <1>2, <1>5 DEF InLine
  <2>2. Live(c)
    BY <1>1, <1>2, <1>3 DEF Live, InPipe
  <2> QED BY <1>1, <1>2, <1>3, <1>4, <2>1, <2>2 DEF OneCall
<1>7. stdout'[n] = <<>> /\ \A p \in Rank \ {n} : stdout'[p] = stdout[p]
  BY <1>3, <1>5 DEF Types, PipeTypes
<1>8. \A m \in net : m.type = "contrib" => m.call.rank # n
  BY <1>6 DEF OffNode
<1>9. \A i \in DOMAIN arrived : arrived[i].rank # n
  BY <1>6 DEF OffNode
<1>10. CASE n = 0
  <2>1. ~follows[0]
    BY DEF FenceInv, SessionInv
  <2>2. Contribute(l.key, c, <<l.id>>, net)
    BY <1>2, <1>5, <1>10, <2>1 DEF LocalFenceIn
  <2>3. Moved(c, <<l.id>>, net)
    BY <1>1, <1>3, <1>6, <1>7, <1>8, <1>9, <1>10 DEF Moved
  <2>4. l.key \in {0, c.rank}
    BY <1>6
  <2> QED BY <1>3, <1>6, <2>2, <2>3, <2>4, ContributeFence
<1>11. CASE n # 0
  <2>1. follows[n]
    BY <1>3, <1>11 DEF FenceInv, SessionInv
  <2>2. PICK x : x = [type |-> "contrib", to |-> 0, key |-> l.key, call |-> c]
    OBVIOUS
  <2>3. x.type = "contrib" /\ x.key = l.key /\ x.call = c
    BY <2>2
  <2>4. /\ localIds' = [localIds EXCEPT ![n] = Append(localIds[n], l.id)]
        /\ net' = net \cup {x} /\ UNCHANGED <<stdin, arrived>>
    BY <1>2, <1>5, <2>1, <2>2 DEF LocalFenceIn
  <2>5. /\ \A p \in Rank \ {n} : localIds'[p] = localIds[p]
        /\ localIds'[n] = Append(localIds[n], l.id)
    BY <2>4 DEF Types, RoundTypes
  <2>6. /\ Kept /\ pending' = pending /\ storing' = storing /\ main' = main
        /\ Less("start") /\ Less("result") /\ Less("done")
    BY <1>3, <2>3, <2>4, TasksKept DEF book, process, Less
  <2>7. \A p \in Rank : /\ Fewer(p) /\ OutsLess(p) /\ Alive(p)' = Alive(p) /\ Reads(p)' = Reads(p)
                        /\ SameRounds(p) /\ stdin'[p] = stdin[p]
    <3>1. \A p \in Rank : Alive(p)' = Alive(p) /\ Reads(p)' = Reads(p)
      BY <2>6 DEF Alive, Reads
    <3> QED BY <1>3, <2>4, <3>1, PipeSame DEF SameRounds, history
  <2>8. \A d \in Calls : Live(d)' => Live(d)
    <3> SUFFICES ASSUME NEW d \in Calls, Live(d)' PROVE Live(d)
      OBVIOUS
    <3>1. \A p \in Rank : (InStore(p, d)' => InStore(p, d)) /\ (InPipe(p, d)' => InPipe(p, d))
      BY <1>7, <2>6 DEF InStore, InPipe
    <3>2. InCast(d)' => InCast(d) \/ d = c
      BY <2>3, <2>4 DEF InCast
    <3>3. InRound(d)' => InRound(d)
      BY <2>4 DEF InRound
    <3> QED BY <1>6, <3>1, <3>2, <3>3 DEF Live
  <2>9. CallInv'
    <3>1. ASSUME NEW p \in Rank \ {n} PROVE OneCall(p)'
      <4>1. OneCall(p) /\ storing'[p] = storing[p] /\ stdout'[p] = stdout[p]
        BY <1>7, <2>6 DEF FenceInv, CallInv
      <4>2. \A m \in net' : m.type = "contrib" /\ m.call.rank = p => m \in net
        BY <1>6, <2>3, <2>4
      <4>3. OffNode(p) => OffNode(p)'
        BY <2>4, <4>2 DEF OffNode
      <4> QED BY <2>4, <4>1, <4>2, <4>3 DEF OneCall
    <3>2. OneCall(n)'
      <4>1. \A m \in net' : m.type = "contrib" /\ m.call.rank = n => m = x
        BY <1>8, <2>4
      <4>2. Len(<<>>) = 0
        OBVIOUS
      <4> QED BY <1>6, <1>7, <1>9, <2>3, <2>4, <2>6, <4>1, <4>2 DEF OneCall
    <3>3. \A i \in DOMAIN arrived' : i \in {0, arrived'[i].rank}
      BY <2>4 DEF FenceInv, CallInv
    <3>4. \A d \in Calls : Live(d)' => Current(d.task)' /\ d.round = entered'[d.task][d.rank]
      BY <1>3, <2>6, <2>8, SameCurrent DEF FenceInv, CallInv, history
    <3> QED BY <3>1, <3>2, <3>3, <3>4 DEF CallInv
  <2>10. RoundInv' /\ ResultInv'
    BY <1>3, <2>6, <2>7, <2>8, RoundLess, ResultLess DEF FenceInv, history
  <2>11. IdInv'
    <3> SUFFICES ASSUME NEW p \in Rank, Reads(p)' PROVE IdOk(p)'
      BY DEF IdInv
    <3>1. Reads(p) /\ IdOk(p)
      BY <2>7 DEF FenceInv, IdInv
    <3>2. CASE p # n
      <4>1. IdsLess(p)
        BY <1>7, <2>5, <2>6, <2>7, <3>2 DEF IdsLess
      <4> QED BY <2>6, <2>7, <3>1, <4>1, IdLess
    <3>3. CASE p = n
      <4>1. localIds[n] = <<>>
        BY <1>3, <3>1, <3>3 DEF IdOk
      <4>2. Append(<<>>, l.id) = <<l.id>>
        OBVIOUS
      <4>3. localIds'[n] = <<stdout[n][1].id>>
        BY <1>1, <2>5, <4>1, <4>2
      <4> QED BY <1>3, <1>7, <2>6, <2>7, <3>1, <3>3, <4>3, IdGoes
    <3> QED BY <3>2, <3>3
  <2>12. \A p \in Rank : localIds'[p] = localIds[p] \/ helper[p] \/ localIds'[p] = <<>>
    BY <1>3, <2>5
  <2>13. \A m \in net' \cup net : m.type \in {"start", "done"} => m \in net /\ m \in net'
    BY <2>3, <2>4
  <2>14. \A m \in net' : m.type = "result" => m \in net \/ (faults = <<>> => rank[m.to].st = "fence")
    BY <2>6 DEF Less
  <2>15. /\ \A p \in Rank : \A i \in DOMAIN stdin[p] : \E j \in DOMAIN stdin'[p] : stdin'[p][j] = stdin[p][i]
         /\ \A p \in Rank : \A i \in DOMAIN stdin'[p] : \E j \in DOMAIN stdin[p] : stdin[p][j] = stdin'[p][i]
    BY <2>7
  <2> QED BY <1>3, <2>8, <2>9, <2>10, <2>11, <2>12, <2>13, <2>14, <2>15, GatherStep
<1> QED BY <1>10, <1>11

(* A result names the call its node waits for, and there is one at most.   *)
LEMMA ResultFound ==
    ASSUME Types, FenceInv, NEW m \in net, m.type = "result"
    PROVE  \E t \in Task, k \in Round :
              /\ Current(t) /\ m.blob = Data(t, k) /\ k = entered[t][m.to] /\ Complete(t, k)
              /\ \A x \in net : x.type = "result" /\ x.to = m.to => x = m
<1>1. \A x \in net : x.type = "result" => x \in ResultMsg
  BY Messages
<1>2. ASSUME NEW x \in net, x.type = "result"
      PROVE  \E t \in Task, k \in Round :
                Current(t) /\ x.blob = Data(t, k) /\ k = entered[t][x.to] /\ Complete(t, k)
  <2>1. x.to \in Rank
    BY <1>1, <1>2 DEF ResultMsg
  <2>2. PICK t \in Task, k \in Round :
            Current(t) /\ x.blob = Data(t, k) /\ answer[t][x.to][k] = "none"
    BY <1>2 DEF FenceInv, ResultInv, ResultOk
  <2>3. Complete(t, k)
    BY <1>2, <2>2 DEF Complete, InResult
  <2>4. entered[t][x.to] >= k
    BY <2>1, <2>3 DEF FenceInv, RoundInv
  <2>5. ~(k < entered[t][x.to])
    BY <2>1, <2>2 DEF FenceInv, RankInv, Answers
  <2>6. k \in Int /\ entered[t][x.to] \in Int
    BY <2>1, Constants DEF Round, Types, HistoryTypes
  <2>7. k = entered[t][x.to]
    BY <2>4, <2>5, <2>6
  <2> QED BY <2>2, <2>3, <2>7
<1>3. PICK t \in Task, k \in Round :
          Current(t) /\ m.blob = Data(t, k) /\ k = entered[t][m.to] /\ Complete(t, k)
  BY <1>2
<1>4. ASSUME NEW x \in net, x.type = "result", x.to = m.to PROVE x = m
  <2>1. PICK v \in Task, j \in Round : Current(v) /\ x.blob = Data(v, j) /\ j = entered[v][x.to]
    BY <1>2, <1>4
  <2>2. v = t
    BY <1>3, <2>1, CurrentOne
  <2>3. x.blob = m.blob
    BY <1>3, <1>4, <2>1, <2>2
  <2>4. x \in ResultMsg /\ m \in ResultMsg
    BY <1>1, <1>4
  <2> QED BY <1>4, <2>3, <2>4 DEF ResultMsg
<1> QED BY <1>3, <1>4

(* A result reaches its node.                                              *)
LEMMA FenceResultFence ==
    ASSUME Types, Types', FenceInv, Begun, NEW m \in net, FenceResult(m)
    PROVE  FenceInv'
<1> DEFINE n == m.to
           u == localIds[n]
<1>1. /\ m.type = "result" /\ net' = net \ {m}
      /\ stdin' = [stdin EXCEPT ![n] = IF helper[n] THEN stdin[n] \o OutLines(u, m.blob) ELSE stdin[n]]
      /\ localIds' = [localIds EXCEPT ![n] = <<>>]
      /\ UNCHANGED <<process, stdout, session, arrived, book, rank, history, faults>>
  BY DEF FenceResult, ApplyResult
<1>2. n \in Rank
  BY <1>1, Messages DEF ResultMsg
<1>3. PICK t \in Task, k \in Round :
          /\ Current(t) /\ m.blob = Data(t, k) /\ k = entered[t][n] /\ Complete(t, k)
          /\ \A x \in net : x.type = "result" /\ x.to = n => x = m
  BY <1>1, ResultFound
<1>4. Alive(n) => NoOut(n)
  BY <1>1 DEF FenceInv, ResultInv, ResultOk
<1> HIDE DEF n
<1>5. /\ stdin'[n] = IF helper[n] THEN stdin[n] \o OutLines(u, Data(t, k)) ELSE stdin[n]
      /\ localIds'[n] = <<>>
      /\ \A p \in Rank \ {n} : stdin'[p] = stdin[p] /\ localIds'[p] = localIds[p]
  BY <1>1, <1>2, <1>3 DEF Types, PipeTypes, RoundTypes
<1>6. Answering(stdin[n], stdin'[n], u, t, k)
  <2>1. stdin[n] \in Seq(PlainLine \cup OutLine) /\ u \in Seq(Nat)
    BY <1>2 DEF Types, PipeTypes, RoundTypes
  <2>2. Answering(stdin[n], stdin[n] \o OutLines(u, Data(t, k)), u, t, k)
    BY <2>1, DataAdded
  <2>3. Answering(stdin[n], stdin[n], u, t, k)
    BY SameLines
  <2>4. CASE helper[n]
    BY <1>5, <2>2, <2>4
  <2>5. CASE ~helper[n]
    BY <1>5, <2>3, <2>5
  <2> QED BY <2>4, <2>5
<1>7. /\ Kept /\ pending' = pending /\ storing' = storing /\ main' = main /\ stdout' = stdout
      /\ arrived' = arrived /\ UNCHANGED history /\ \A l : Less(l)
  BY <1>1, TasksKept DEF book, process, Less
<1>8. \A p \in Rank : Alive(p)' = Alive(p) /\ Reads(p)' = Reads(p) /\ SameRounds(p)
  BY <1>7 DEF Alive, Reads, SameRounds, history
<1>9. CallInv' /\ \A d \in Calls : Live(d)' => Live(d)
  <2>1. CallsLess
    BY <1>7 DEF CallsLess
  <2> QED BY <1>7, <2>1, CallLess DEF FenceInv, history
<1>10. /\ \A p \in Rank : \A i \in DOMAIN stdin[p] : \E j \in DOMAIN stdin'[p] : stdin'[p][j] = stdin[p][i]
       /\ \A p \in Rank : \A i \in DOMAIN stdin'[p] :
             \/ i \in DOMAIN stdin[p] /\ stdin[p][i] = stdin'[p][i]
             \/ p = n /\ stdin'[p][i].cmd = "FENCE_OUT" /\ stdin'[p][i].blob = Data(t, k)
  BY <1>5, <1>6 DEF Answering
<1>11. RoundInv'
  <2> SUFFICES ASSUME NEW v \in Task, NEW j \in Round, Complete(v, j)', NEW p \in Rank
               PROVE  entered'[v][p] >= j /\ ~Live(Call(v, j, p))'
    BY DEF RoundInv
  <2>1. Complete(v, j)
    <3>1. Answered(v, j)' => Answered(v, j)
      BY <1>7 DEF Answered, history
    <3>2. InResult(v, j)' => InResult(v, j)
      BY <1>1 DEF InResult, Data
    <3>3. ASSUME NEW q \in Rank, InOut(q, v, j)' PROVE InOut(q, v, j) \/ (v = t /\ j = k)
      <4>1. PICK i \in DOMAIN stdin'[q] : stdin'[q][i].cmd = "FENCE_OUT" /\ stdin'[q][i].blob = Data(v, j)
        BY <3>3 DEF InOut, Data, IsOut
      <4>2. Alive(q)
        BY <1>8, <3>3 DEF InOut
      <4>3. CASE i \in DOMAIN stdin[q] /\ stdin[q][i] = stdin'[q][i]
        BY <4>1, <4>2, <4>3 DEF InOut, IsOut
      <4>4. CASE stdin'[q][i].blob = Data(t, k)
        <5>1. Data(v, j) = Data(t, k)
          BY <4>1, <4>4
        <5> QED BY <5>1, DataOne
      <4> QED BY <1>10, <4>3, <4>4
    <3> QED BY <1>3, <3>1, <3>2, <3>3 DEF Complete
  <2>2. Call(v, j, p) \in Calls
    BY CallFields
  <2> QED BY <1>7, <1>9, <2>1, <2>2 DEF FenceInv, RoundInv, history
<1>12. ResultInv'
  <2> SUFFICES ASSUME NEW x \in net', x.type = "result" PROVE ResultOk(x)'
    BY DEF ResultInv
  <2>1. x \in net /\ x # m
    BY <1>1
  <2>2. x.to # n /\ x.to \in Rank
    BY <1>3, <2>1, Messages DEF ResultMsg
  <2>3. ResultOk(x)
    BY <2>1 DEF FenceInv, ResultInv
  <2>4. Alive(x.to)' => NoOut(x.to)'
    BY <1>5, <1>8, <2>2, <2>3 DEF ResultOk, NoOut, IsOut
  <2>5. PICK v \in Task, j \in Round :
            Current(v) /\ x.blob = Data(v, j) /\ answer[v][x.to][j] = "none"
    BY <2>3 DEF ResultOk
  <2>6. Current(v)' /\ x.blob = (Data(v, j))' /\ answer'[v][x.to][j] = "none"
    BY <1>7, <2>5, SameCurrent DEF Data, history
  <2> QED BY <2>4, <2>6 DEF ResultOk
<1>13. IdInv'
  <2> SUFFICES ASSUME NEW p \in Rank, Reads(p)' PROVE IdOk(p)'
    BY DEF IdInv
  <2>1. Reads(p) /\ IdOk(p)
    BY <1>8 DEF FenceInv, IdInv
  <2>2. CASE p # n
    <3>1. Fewer(p)
      BY <1>5, <2>2, PipeSame
    <3>2. IdsLess(p)
      BY <1>5, <1>7, <1>8, <2>2, <3>1 DEF IdsLess
    <3> QED BY <1>7, <1>8, <2>1, <3>2, IdLess
  <2>3. CASE p = n
    <3>1. PendingOk(n)'
      BY <1>7, <1>8, <2>1, <2>3, PendingKept DEF IdOk
    <3>2. NoOut(n)
      BY <1>4, <2>1, <2>3 DEF Reads
    <3>3. \A i \in DOMAIN stdin'[n] : stdin'[n][i].cmd = "FENCE_OUT" =>
              /\ stdin'[n][i].blob = Data(t, k) /\ u # <<>>
              /\ Len(u) = 1 => i = Len(stdin[n]) + 1 /\ stdin'[n][i].id = u[1]
      BY <1>6, <3>2 DEF Answering, NoOut, IsOut
    <3>4. u # <<>> => Len(u) = 1 /\ u[1] \in DOMAIN pending[n] /\ Gathered(pending[n][u[1]]) = Data(t, k)
      <4> SUFFICES ASSUME u # <<>>
                   PROVE  /\ Len(u) = 1 /\ u[1] \in DOMAIN pending[n]
                          /\ Gathered(pending[n][u[1]]) = Data(t, k)
        OBVIOUS
      <4>1. Len(u) = 1 /\ u[1] \in DOMAIN pending[n]
        BY <2>1, <2>3 DEF IdOk
      <4>2. PICK d \in Calls : d = pending[n][u[1]] /\ d.rank = n
        BY <1>2, <4>1, PendingCall
      <4>3. Current(d.task) /\ d.round = entered[d.task][n]
        BY <2>1, <2>3, <4>1, <4>2 DEF IdOk, PendingOk
      <4>4. d.task = t /\ d.round = k
        BY <1>3, <4>3, CurrentOne
      <4> QED BY <4>1, <4>2, <4>4, GatheredIs
    <3>5. \A i \in DOMAIN stdin'[n] : IsOut(n, i)' =>
              /\ stdin'[n][i].id \in DOMAIN pending[n]
              /\ stdin'[n][i].blob = Gathered(pending[n][stdin'[n][i].id])
      BY <3>3, <3>4 DEF IsOut
    <3>6. \A i, j \in DOMAIN stdin'[n] : IsOut(n, i)' /\ IsOut(n, j)' => i = j
      BY <3>3, <3>4 DEF IsOut
    <3>7. u # <<>> => storing[n] = <<>> /\ stdout[n] = <<>>
      BY <2>1, <2>3 DEF IdOk
    <3>8. u = <<>> => NoOut(n)'
      BY <3>3 DEF NoOut, IsOut
    <3>9. storing'[n] # <<>> => /\ (Known1(n, storing[n][1].id, storing[n][1].call))'
                                /\ localIds'[n] = <<>> /\ NoOut(n)'
      BY <1>5, <1>7, <2>1, <2>3, <3>7, <3>8 DEF IdOk, Known1
    <3>10. stdout'[n] # <<>> => /\ (Known1(n, stdout[n][1].id, stdout[n][1].call))'
                                /\ localIds'[n] = <<>> /\ NoOut(n)'
      BY <1>5, <1>7, <2>1, <2>3, <3>7, <3>8 DEF IdOk, Known1
    <3> QED BY <1>5, <1>7, <2>3, <3>1, <3>5, <3>6, <3>9, <3>10 DEF IdOk, Gathered
  <2> QED BY <2>2, <2>3
<1>14. \A x \in net' \cup net : x.type \in {"start", "done"} => x \in net /\ x \in net'
  BY <1>1
<1>15. \A x \in net' : x.type = "result" => x \in net \/ (faults = <<>> => rank[x.to].st = "fence")
  BY <1>1
<1>16. \A p \in Rank : \A i \in DOMAIN stdin'[p] :
           \/ \E j \in DOMAIN stdin[p] : stdin[p][j] = stdin'[p][i]
           \/ LineOk(p, stdin'[p][i]) /\ stdin'[p][i].cmd # "STOP"
  BY <1>10 DEF LineOk
<1>17. \A p \in Rank : localIds'[p] = localIds[p] \/ helper[p] \/ localIds'[p] = <<>>
  BY <1>5
<1> QED BY <1>1, <1>9, <1>10, <1>11, <1>12, <1>13, <1>14, <1>15, <1>16, <1>17, GatherStep

-----------------------------------------------------------------------------
(***************************************************************************)
(* The invariant.                                                          *)
(***************************************************************************)
LEMMA StutterFence ==
    ASSUME FenceInv, UNCHANGED vars
    PROVE  FenceInv'
<1> USE DEF vars, process, pipes, session, round, book, history
<1>1. /\ \A t : Current(t)' = Current(t)
      /\ \A c : Live(c)' = Live(c)
      /\ \A t, k : Complete(t, k)' = Complete(t, k)
      /\ \A n : (NoOut(n)' = NoOut(n)) /\ (Alive(n)' = Alive(n)) /\ (Reads(n)' = Reads(n))
  <2>1. \A t : Current(t)' = Current(t)
    BY DEF Current, Started
  <2>2. \A c : Live(c)' = Live(c)
    BY DEF Live, InStore, InPipe, InCast, InRound
  <2>3. \A t, k : Complete(t, k)' = Complete(t, k)
    BY DEF Complete, Answered, InResult, InOut, IsOut, Alive, Data
  <2>4. \A n : (NoOut(n)' = NoOut(n)) /\ (Alive(n)' = Alive(n)) /\ (Reads(n)' = Reads(n))
    BY DEF NoOut, IsOut, Alive, Reads
  <2> QED BY <2>1, <2>2, <2>3, <2>4
<1>2. TaskInv'
  BY DEF FenceInv, TaskInv, Started, Pristine
<1>3. SessionInv'
  BY DEF FenceInv, SessionInv, LineOk, Stopped, Data
<1>4. RankInv'
  BY <1>1 DEF FenceInv, RankInv, AtRank, AtStart, Answers
<1>5. CallInv'
  BY <1>1 DEF FenceInv, CallInv, OneCall, OffNode
<1>6. RoundInv'
  BY <1>1 DEF FenceInv, RoundInv
<1>7. ResultInv'
  BY <1>1 DEF FenceInv, ResultInv, ResultOk, Data
<1>8. IdInv'
  BY <1>1 DEF FenceInv, IdInv, IdOk, PendingOk, Known1, IsOut, Gathered
<1>9. QuietInv'
  <2>1. (\A n \in Rank : Registers(n))' <=> (\A n \in Rank : Registers(n))
    BY DEF Registers
  <2>2. \A r : Owes(r)' = Owes(r)
    BY DEF Owes
  <2>3. Reported' = Reported
    BY <2>2 DEF Reported
  <2>4. ReportsOk' <=> ReportsOk
    BY <1>1, <2>3 DEF ReportsOk
  <2>5. CalmOk' <=> CalmOk
    BY <1>1 DEF CalmOk
  <2> QED BY <2>1, <2>4, <2>5 DEF FenceInv, QuietInv
<1> QED BY <1>2, <1>3, <1>4, <1>5, <1>6, <1>7, <1>8, <1>9 DEF FenceInv

LEMMA StepFence ==
    ASSUME GoesOn = FALSE, Types, FenceInv, [Next]_vars
    PROVE  FenceInv'
<1>1. Types'
  BY StepTypes
<1>2. CASE UNCHANGED vars
  BY <1>2, StutterFence
<1>3. ASSUME NEW t \in Task, SpawnTask(t) PROVE FenceInv'
  BY <1>1, <1>3, SpawnTaskFence
<1>4. ASSUME NEW m \in net, Receive(m) PROVE FenceInv'
  <2>1. Begun
    BY <1>4, Awake
  <2> QED BY <1>1, <1>4, <2>1, StartRankFence, FenceContribFence, FenceResultFence, RankDoneFence
          DEF Receive
<1>5. ASSUME NEW n \in Rank, HelperStep(n) PROVE FenceInv'
  <2>1. Begun
    BY <1>5, Awake
  <2> QED BY <1>1, <1>5, <2>1, ReadRegisterFence, LibraryAnswersFence, ReadContribIdFence,
             ReadFenceOutFence, FenceWrittenFence, DrainFence, EndFence
          DEF HelperStep
<1>6. ASSUME NEW n \in Rank, ServiceStep(n) PROVE FenceInv'
  <2>1. Begun
    BY <1>6, Awake
  <2> QED BY <1>1, <1>6, <2>1, LocalFenceInFence, OnRankProcessFence, PortExitFence DEF ServiceStep
<1>7. ASSUME NEW n \in Rank, RankStep(n) PROVE FenceInv'
  <2>1. Begun
    BY <1>7, Awake
  <2> QED BY <1>1, <1>7, <2>1, ConnectFence, FenceStoredFence, RankEndsFence DEF RankStep
<1>8. CASE CancelJob
  BY <1>1, <1>8, Awake, CancelJobFence
<1>9. ASSUME NEW m \in net, Lose(m) PROVE FenceInv'
  BY <1>1, <1>9, Awake, LoseFence
<1>10. ASSUME NEW n \in Rank, GiveUp(n) \/ RankDies(n) \/ HelperCrashes(n) PROVE FenceInv'
  <2>1. Begun
    BY <1>10, Awake
  <2> QED BY <1>1, <1>10, <2>1, GiveUpFence, RankEndsFence, EndFence
<1> QED BY <1>2, <1>3, <1>4, <1>5, <1>6, <1>7, <1>8, <1>9, <1>10 DEF Next, Regular, Fault

LEMMA InitFence == Init => FenceInv
<1> SUFFICES ASSUME Init PROVE FenceInv
  OBVIOUS
<1> USE DEF Init
<1>1. DOMAIN <<>> = {} /\ Len(<<>>) = 0 /\ 0 \in Rank
  BY Constants
<1>2. /\ \A t \in Task : ~Started(t)
      /\ \A c : ~Live(c)
      /\ \A n \in Rank : ~Alive(n) /\ ~Reads(n)
  <2>1. \A t \in Task : ~Started(t)
    BY DEF Started
  <2>2. \A n \in Rank : ~Alive(n) /\ ~Reads(n)
    BY DEF Free, Alive, Reads
  <2>3. \A c : ~Live(c)
    BY <1>1 DEF Live, InStore, InPipe, InCast, InRound
  <2> QED BY <2>1, <2>2, <2>3
<1>3. TaskInv
  BY <1>2 DEF TaskInv, Pristine, Idle, Free
<1>4. SessionInv
  BY <1>1 DEF SessionInv, Free
<1>5. RankInv
  BY Constants DEF RankInv, AtRank, AtStart, Answers, Idle, Round
<1>6. CallInv
  BY <1>1, <1>2 DEF CallInv, OneCall
<1>7. RoundInv
  BY <1>2 DEF RoundInv, Complete, Answered, InResult, InOut
<1>8. ResultInv /\ IdInv
  BY <1>2 DEF ResultInv, IdInv
<1>9. QuietInv
  <2>1. \A n \in Rank : Registers(n)
    BY DEF Registers, Idle, Free, Wait
  <2>2. ReportsOk
    BY <1>2 DEF ReportsOk, Current
  <2>3. CalmOk
    BY <1>2 DEF CalmOk
  <2> QED BY <2>1, <2>2, <2>3 DEF QuietInv
<1> QED BY <1>3, <1>4, <1>5, <1>6, <1>7, <1>8, <1>9 DEF FenceInv

LEMMA FenceInvariant == ASSUME GoesOn = FALSE PROVE Spec => [](Types /\ FenceInv)
<1>1. Init => Types /\ FenceInv
  BY InitTypes, InitFence
<1>2. Types /\ FenceInv /\ [Next]_vars => (Types /\ FenceInv)'
  BY StepTypes, StepFence
<1> QED BY <1>1, <1>2, PTL DEF Spec

-----------------------------------------------------------------------------
(***************************************************************************)
(* The properties of the fences.                                           *)
(***************************************************************************)
(* With a script that stops at the first failure, the data a fence         *)
(* completes with come from one call of one task, wherever they are:       *)
(* gathered by the leader, on their way to a node or in the pipe to a      *)
(* helper, although no message between wm_pmix and swm-pmix says of which  *)
(* fence it is.  (A script that goes on can mix them.)                     *)
THEOREM RoundsStayApart ==
    ASSUME GoesOn = FALSE
    PROVE  Spec => []RoundsDoNotMix
<1>1. Types /\ FenceInv => RoundsDoNotMix
  <2> SUFFICES ASSUME Types, FenceInv PROVE RoundsDoNotMix
    OBVIOUS
  <2>1. ASSUME NEW t, NEW k PROVE OneRound(Data(t, k))
    BY DEF OneRound, Data, Call
  <2>2. ASSUME NEW i \in DOMAIN arrived
        PROVE  LET c == arrived[i] IN
               /\ c.task \in Task /\ c.round \in Round /\ c.round \in Int
               /\ c = Call(c.task, c.round, c.rank) /\ c.rank \in Rank
               /\ Live(c) /\ Current(c.task) /\ c.round = entered[c.task][c.rank]
    <3> DEFINE c == arrived[i]
    <3>1. c \in Calls
      BY CallsMade
    <3>2. Live(c)
      BY DEF Live, InRound
    <3> HIDE DEF c
    <3>3. \A k \in Round : k \in Int
      BY Constants DEF Round
    <3> QED BY <3>1, <3>2, <3>3, CallIs DEF FenceInv, CallInv, c
  <2>3. ASSUME NEW i \in DOMAIN arrived, NEW j \in DOMAIN arrived PROVE arrived[i].task = arrived[j].task
    BY <2>2, CurrentOne
  <2>4. ASSUME NEW i \in DOMAIN arrived, NEW j \in DOMAIN arrived, arrived[i].round < arrived[j].round
        PROVE  FALSE
    <3> DEFINE t == arrived[i].task
               k == arrived[i].round
               p == arrived[j].rank
    <3>1. t \in Task /\ k \in Round /\ p \in Rank /\ arrived[i].rank \in Rank
      BY <2>2
    <3>2. k < entered[t][p]
      BY <2>2, <2>3, <2>4
    <3>3. arrived[i] = Call(t, k, arrived[i].rank) /\ Live(arrived[i])
      BY <2>2
    <3> HIDE DEF t, k, p
    <3>4. answer[t][p][k] = "data"
      BY <3>1, <3>2 DEF FenceInv, RankInv, Answers
    <3>5. Complete(t, k)
      BY <3>1, <3>4 DEF Complete, Answered
    <3> QED BY <3>1, <3>3, <3>5 DEF FenceInv, RoundInv
  <2>5. OneRound(arrived)
    <3>1. \A i \in DOMAIN arrived : arrived[i].round \in Int
      BY <2>2
    <3> QED BY <2>3, <2>4, <3>1 DEF OneRound
  <2>6. \A m \in net : m.type = "result" => OneRound(m.blob)
    BY <2>1 DEF FenceInv, ResultInv, ResultOk
  <2>7. \A n \in Rank : \A i \in DOMAIN stdin[n] :
            stdin[n][i].cmd = "FENCE_OUT" => OneRound(stdin[n][i].blob)
    BY <2>1 DEF FenceInv, SessionInv, LineOk
  <2> QED BY <2>5, <2>6, <2>7 DEF RoundsDoNotMix
<1> QED BY <1>1, FenceInvariant, PTL

(* Under the same condition handle_fence_out never meets an id that is not *)
(* in g_pending_fences, nor the same id twice, while the helper reads:     *)
(* what wm_pmix remembers of the ids of a node agrees with what its helper *)
(* has pending.                                                            *)
THEOREM IdsAgree ==
    ASSUME GoesOn = FALSE
    PROVE  Spec => []NoUnknownFence
<1>1. Types /\ FenceInv => NoUnknownFence
  <2> SUFFICES ASSUME Types, FenceInv, NEW n \in Rank, NEW i \in DOMAIN stdin[n],
                      Alive(n), main[n].at # "drain", stdin[n][i].cmd = "FENCE_OUT"
               PROVE  /\ stdin[n][i].id \in DOMAIN pending[n]
                      /\ \A j \in 1..i-1 : stdin[n][j].cmd # "FENCE_OUT" \/ stdin[n][j].id # stdin[n][i].id
    BY DEF NoUnknownFence
  <2>1. IdOk(n) /\ IsOut(n, i)
    BY DEF FenceInv, IdInv, Reads, IsOut
  <2>2. \A j \in 1..i-1 : j \in DOMAIN stdin[n] /\ j # i
    BY DEF Types, PipeTypes
  <2>3. \A j \in 1..i-1 : stdin[n][j].cmd # "FENCE_OUT"
    BY <2>1, <2>2 DEF IdOk, IsOut
  <2>4. stdin[n][i].id \in DOMAIN pending[n]
    BY <2>1 DEF IdOk
  <2> QED BY <2>3, <2>4
<1> QED BY <1>1, FenceInvariant, PTL

(* What a step does to the history the specification Fence is about.       *)
LEMMA FenceStoredEnters ==
    ASSUME Types, FenceInv, NEW n \in Rank, FenceStored(n)
    PROVE  \E t \in Task : Promise!Enter(t, n)
<1> DEFINE t == rank[n].task
           k == rank[n].k
<1>1. /\ rank[n].st = "ready" /\ k < MaxFences /\ answer' = answer
      /\ entered' = [entered EXCEPT ![t][n] = k + 1]
  BY DEF FenceStored, Call
<1>2. t \in Task /\ k \in Nat
  BY <1>1, Constants DEF Types, RankTypes, RankState
<1>3. AtRank(n) /\ Answers(n)
  BY DEF FenceInv, RankInv
<1>4. k = entered[t][n] /\ (k > 0 => answer[t][n][k] = "data")
  BY <1>1, <1>3 DEF AtRank
<1>5. \A j \in 1..entered[t][n] : answer[t][n][j] # "none"
  <2> SUFFICES ASSUME NEW j \in 1..k PROVE answer[t][n][j] = "data"
    BY <1>4
  <2>1. j \in Round /\ (j = k \/ j < k)
    BY <1>1, <1>2, Constants DEF Round
  <2>2. k > 0
    BY <1>2
  <2> QED BY <1>2, <1>3, <1>4, <2>1, <2>2 DEF Answers
<1>6. entered' = [entered EXCEPT ![t][n] = @ + 1]
  BY <1>1, <1>2, <1>4
<1> HIDE DEF t, k
<1> QED BY <1>1, <1>2, <1>4, <1>5, <1>6 DEF Promise!Enter

LEMMA ReadFenceOutGathers ==
    ASSUME Types, FenceInv, NEW n \in Rank, ReadFenceOut(n)
    PROVE  UNCHANGED history \/ \E t \in Task : Promise!Gather(t, n)
<1>1. PICK i \in DOMAIN pending[n], c \in Calls :
          /\ Head(stdin[n]).id = i /\ Head(stdin[n]).blob = Data(c.task, c.round)
          /\ pending[n][i] = c /\ c.rank = n
          /\ c.round = entered[c.task][n]
          /\ answer[c.task][n][c.round] = "none" /\ Complete(c.task, c.round)
  BY OutFound
<1>2. CallBack({c}, Data(c.task, c.round))
  <2>1. {pending[n][j] : j \in {i} \cap DOMAIN pending[n]} = {c}
    BY <1>1
  <2> QED BY <1>1, <2>1 DEF ReadFenceOut
<1>3. c.task \in Task /\ c.round \in Round
  BY CallIs
<1>4. entered' = entered /\ (~Waiting(c) => answer' = answer)
  BY <1>2, AnsweredIs
<1>5. CASE ~Waiting(c)
  BY <1>4, <1>5 DEF history
<1>6. CASE Waiting(c)
  <2>1. answer' = [answer EXCEPT ![c.task][n][c.round] = "data"]
    <3>1. answer' = [answer EXCEPT ![c.task][c.rank][c.round] = "data"]
      BY <1>2, <1>6, AnsweredIs
    <3>2. c.rank = n
      BY <1>1
    <3> QED BY <3>1, <3>2, Zenon
  <2>2. \A s \in Rank : entered[c.task][s] >= c.round
    BY <1>1, <1>3 DEF FenceInv, RoundInv
  <2>3. PICK t \in Task, k \in Round : t = c.task /\ k = c.round
    BY <1>3
  <2>4. k \in 1..MaxFences /\ k <= entered[t][n]
    BY <1>1, <2>3, Constants DEF Round
  <2>5. Promise!Open(t, n, k)
    BY <1>1, <2>3, <2>4 DEF Promise!Open
  <2>6. Promise!Gather(t, n)
    BY <1>4, <2>1, <2>2, <2>3, <2>4, <2>5 DEF Promise!Gather
  <2> QED BY <2>6
<1> QED BY <1>5, <1>6

LEMMA StepPromise ==
    ASSUME Types, FenceInv, [Next]_vars
    PROVE  [Promise!Next]_(Promise!vars)
<1>1. UNCHANGED history => UNCHANGED Promise!vars
  BY DEF history, Promise!vars
<1>2. ASSUME NEW n \in Rank, FenceStored(n) PROVE Promise!Next
  BY <1>2, FenceStoredEnters DEF Promise!Next
<1>3. ASSUME NEW n \in Rank, ReadFenceOut(n) PROVE UNCHANGED history \/ Promise!Next
  BY <1>3, ReadFenceOutGathers DEF Promise!Next
<1>4. ASSUME NEW n \in Rank, Drain(n) PROVE UNCHANGED history
  BY <1>4, DrainAnswers
<1>5. ASSUME NEW t \in Task, SpawnTask(t) PROVE UNCHANGED history
  BY <1>5 DEF SpawnTask
<1>6. ASSUME NEW m \in net, Receive(m) \/ Lose(m) PROVE UNCHANGED history
  BY <1>6 DEF Receive, StartRank, FenceContrib, FenceResult, RankDone, Lose
<1>7. ASSUME NEW n \in Rank, HelperStep(n) PROVE UNCHANGED history \/ Promise!Next
  BY <1>3, <1>4, <1>7 DEF HelperStep, ReadRegister, LibraryAnswers, ReadContribId, FenceWritten,
                          Finalize, Gone
<1>8. ASSUME NEW n \in Rank, ServiceStep(n) PROVE UNCHANGED history
  BY <1>8 DEF ServiceStep, LocalFenceIn, OnRankProcess, PortExit
<1>9. ASSUME NEW n \in Rank, RankStep(n) PROVE UNCHANGED history \/ Promise!Next
  BY <1>2, <1>9 DEF RankStep, Connect, RankEnds
<1>10. CASE CancelJob
  BY <1>1, <1>10 DEF CancelJob
<1>11. ASSUME NEW n \in Rank, GiveUp(n) \/ RankDies(n) \/ HelperCrashes(n) PROVE UNCHANGED history
  BY <1>11 DEF GiveUp, RankDies, HelperCrashes, Gone
<1>12. CASE UNCHANGED vars
  BY <1>1, <1>12 DEF vars
<1> QED BY <1>1, <1>5, <1>6, <1>7, <1>8, <1>9, <1>10, <1>11, <1>12 DEF Next, Regular, Fault

(* Under the same condition the ranks see what Fence promises: a fence     *)
(* returns once, with the data all ranks of the task gave to this same     *)
(* call, or not at all.                                                    *)
THEOREM Refinement ==
    ASSUME GoesOn = FALSE
    PROVE  Spec => ImplementsFence
<1>1. Init => Promise!Init
  BY DEF Init, Promise!Init, Round
<1>2. Types /\ FenceInv /\ [Next]_vars => [Promise!Next]_(Promise!vars)
  BY StepPromise
<1> QED BY <1>1, <1>2, FenceInvariant, PTL DEF Spec, ImplementsFence, Promise!Spec

=============================================================================
