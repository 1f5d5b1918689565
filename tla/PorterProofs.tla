---------------------------- MODULE PorterProofs ----------------------------
(***************************************************************************)
(* Theorems about Porter, for every number of swm-tasks, of kills and of   *)
(* faults, and every host the script is started on.                        *)
(***************************************************************************)
EXTENDS Porter, SequenceTheorems, TLAPS

Answers == [tag : {"OK", "DONE", "ERR"}, ref : Client]
Pieces == [from : Client, i : {1, 2}, good : BOOLEAN]
Parts == [k : {"H", "L", "B"}, a : Answers]
Terms == {t \in [tag : {"porter_req", "final"}, from : Seq(Client)] :
              t.tag # "final" => t.from # <<>>}

(* The types of what TypeOK leaves open.                                   *)
Types ==
    /\ TypeOK
    /\ buf \in Seq(Pieces)
    /\ body \in Seq(Answers)
    /\ backlog \in Seq(Client)
    /\ inbox \in [Client -> Seq(Pieces)]
    /\ outbox \in [Client -> Seq(Answers)]
    /\ task \in [Client -> Living \cup {"none", "DONE", "ERR", "killed", "closed"}]
    /\ host = <<>> \/ \E h \in Host : host = <<h>>
    /\ stdin \in Seq(Parts)
    /\ stdout \in Seq(Terms)
    /\ killed \subseteq Client

Up == pc \notin {"reap", "exit"}

(* The pieces of a request that Porter has not taken for one yet: those of *)
(* its client that are in the buffer, and those it has not read.           *)
Unread(c) == IF client = c THEN buf \o inbox[c] ELSE inbox[c]

(* They are the pieces of one request, in order, as far as it is written.  *)
LineOf(c) ==
    /\ Len(Unread(c)) <= 2
    /\ \A i \in 1 .. Len(Unread(c)) : Unread(c)[i].from = c /\ Unread(c)[i].i = i
    /\ task[c] \in {"none", "connected"} => Unread(c) = <<>>
    /\ task[c] = "half" => Len(Unread(c)) = 1
    /\ task[c] # "closed"
    /\ task[c] = "killed" => c \in killed
LineInv == Up => \A c \in Client : LineOf(c)

(* Until somebody is killed, only the client waits, and for its first      *)
(* answer that ends it.                                                    *)
Early(c) == Unread(c) # <<>> \/ task[c] \in {"none", "connected", "half"}
WaitOf(c) ==
    /\ c \in pending => /\ client = c
                        /\ task[c] = "waiting"
                        /\ \A i \in 1 .. Len(outbox[c]) : outbox[c][i].tag = "OK"
    /\ Early(c) => outbox[c] = <<>> /\ task[c] \notin {"DONE", "ERR"} /\ c \notin pending
WaitInv == Up /\ killed = {} => \A c \in Client : WaitOf(c)

IInv ==
    /\ Types
    /\ LineInv
    /\ WaitInv
    /\ RequestsAreWhole
    /\ AnswerIsOwnUnlessKilled
    /\ ScriptStartsUnlessPrivate
-----------------------------------------------------------------------------
(***************************************************************************)
(* Types.                                                                  *)
(***************************************************************************)

(* What sequences keep of their type.                                      *)
LEMMA AppendType ==
    ASSUME NEW S, NEW s \in Seq(S), NEW e \in S
    PROVE  /\ Append(s, e) \in Seq(S)
           /\ Len(Append(s, e)) = Len(s) + 1
           /\ \A i \in 1 .. Len(s) : Append(s, e)[i] = s[i]
           /\ Append(s, e)[Len(s) + 1] = e
  OBVIOUS

LEMMA AppendSecond ==
    ASSUME NEW S, NEW s \in Seq(S), NEW e \in S, Len(s) = 1
    PROVE  Len(Append(s, e)) = 2 /\ Append(s, e)[1] = s[1] /\ Append(s, e)[2] = e
  <1>1. Append(s, e) \in Seq(S) /\ Len(Append(s, e)) = Len(s) + 1
        /\ Append(s, e)[Len(s) + 1] = e
        /\ \A i \in 1 .. Len(s) : Append(s, e)[i] = s[i]
    OBVIOUS
  <1> QED BY <1>1

LEMMA TailType ==
    ASSUME NEW S, NEW s \in Seq(S), s # <<>>
    PROVE  /\ Head(s) \in S /\ Head(s) = s[1]
           /\ Tail(s) \in Seq(S)
           /\ Len(Tail(s)) = Len(s) - 1
           /\ \A i \in 1 .. Len(Tail(s)) : Tail(s)[i] = s[i + 1]
  BY HeadTailProperties

LEMMA RestType == ASSUME NEW S, NEW s \in Seq(S) PROVE SubSeq(s, 3, Len(s)) \in Seq(S)
  <1>1. Len(s) \in Int /\ 3 \in Int BY LenProperties
  <1>2. \A i \in 3 .. Len(s) : s[i] \in S BY LenProperties
  <1> QED BY <1>1, <1>2, SubSeqProperties

(* The reply is made of answers of its client (send_porter_reply).         *)
LEMMA FrameType == ASSUME NEW a \in Answers PROVE Frame(a) \in Seq(Parts)
  <1> DEFINE kinds == {"H", "L", "B"}
  <1>1. [k |-> "H", a |-> a] \in Parts BY DEF Parts
  <1>2. [k |-> "L", a |-> a] \in Parts BY DEF Parts
  <1>3. [k |-> "B", a |-> a] \in Parts BY DEF Parts
  <1> QED BY <1>1, <1>2, <1>3 DEF Frame

(* WriteLine adds an answer to one outbox, or to none.                     *)
LEMMA WriteLineType ==
    ASSUME NEW a \in Answers, Types, WriteLine(a)
    PROVE  outbox' \in [Client -> Seq(Answers)]
  BY DEF WriteLine, Types, TypeOK

(* Relay writes at most that answer, and only forgets refs.                *)
LEMMA RelayType ==
    ASSUME NEW a \in Answers, Types, Relay(a)
    PROVE  outbox' \in [Client -> Seq(Answers)] /\ pending' \subseteq Client
  BY WriteLineType DEF Relay, Types, TypeOK

(* A sequence has in its range what it is a sequence of.                   *)
LEMMA BacklogRange == ASSUME NEW s \in Seq(Client) PROVE Range(s) \subseteq Client
  BY DEF Range

(* Every state has the types of the initial one (main, the four parts).    *)
LEMMA InitTypes == Init => Types
  <1> SUFFICES ASSUME Init PROVE Types OBVIOUS
  <1>1. Range(backlog) \subseteq Client BY BacklogRange, EmptySeq DEF Init
  <1>2. TypeOK BY <1>1 DEF Init, TypeOK
  <1> QED BY <1>2 DEF Init, Types

LEMMA StepTypes == Types /\ [Next]_vars => Types'
  <1> SUFFICES ASSUME Types, [Next]_vars PROVE Types' OBVIOUS
  <1> USE PorterAssumption
  <1>0. backlog' \in Seq(Client) => Range(backlog')  \subseteq Client BY BacklogRange
  <1>1. ASSUME NEW c \in Client, Connect(c) PROVE Types'
    <2>1. backlog' \in Seq(Client) BY <1>1, AppendType DEF Connect, Types
    <2> QED BY <1>0, <1>1, <2>1 DEF Connect, Types, TypeOK, parent, start, pipes, history, Living
  <1>2. ASSUME NEW c \in Client, WriteHalf(c) PROVE Types'
    <2>1. PICK good \in BOOLEAN : inbox' = [inbox EXCEPT ![c] = Append(@, Piece(c, 1, good))]
      BY <1>2 DEF WriteHalf
    <2>2. Piece(c, 1, good) \in Pieces BY DEF Piece, Pieces
    <2>3. inbox' \in [Client -> Seq(Pieces)] BY <2>1, <2>2, AppendType DEF Types
    <2> QED BY <1>2, <2>3 DEF WriteHalf, Types, TypeOK, parent, start, pipes, history, Living
  <1>3. ASSUME NEW c \in Client, WriteRest(c) PROVE Types'
    <2>1. Piece(c, 2, TRUE) \in Pieces BY DEF Piece, Pieces
    <2>2. inbox' \in [Client -> Seq(Pieces)] BY <1>3, <2>1, AppendType DEF WriteRest, Types
    <2> QED BY <1>3, <2>2 DEF WriteRest, Types, TypeOK, parent, start, pipes, history, Living
  <1>4. ASSUME NEW c \in Client, ReadAnswer(c) PROVE Types'
    <2>0. Head(outbox[c]) \in Answers /\ Tail(outbox[c]) \in Seq(Answers)
      BY <1>4, TailType DEF ReadAnswer, Types
    <2>1. Head(outbox[c]).tag \in {"OK", "DONE", "ERR"} BY <2>0 DEF Answers
    <2>2. outbox' \in [Client -> Seq(Answers)] BY <1>4, <2>0 DEF ReadAnswer, Types
    <2>3. task' \in [Client -> Living \cup {"none", "DONE", "ERR", "killed", "closed"}]
      BY <1>4, <2>1 DEF ReadAnswer, Types
    <2> QED BY <1>4, <2>2, <2>3 DEF ReadAnswer, Types, TypeOK, parent, start, pipes, history
  <1>5. ASSUME NEW c \in Client, Kill(c) PROVE Types'
    BY <1>5 DEF Kill, Types, TypeOK, parent, sockets, start, pipes, Living
  <1>6. ASSUME NEW c \in Client, TaskEnds(c) PROVE Types'
    <2>1. PICK tag \in {"DONE", "ERR"} : Send(Answer(tag, c)) BY <1>6 DEF TaskEnds
    <2>2. Answer(tag, c) \in Answers BY DEF Answer, Answers
    <2>3. stdin' \in Seq(Parts) BY <2>1, <2>2, FrameType, ConcatProperties DEF Send, Types
    <2> QED BY <1>6, <2>3 DEF TaskEnds, Types, TypeOK, parent, sockets, start, history
  <1>7. CASE Accept
    <2>1. backlog' \in Seq(Client) /\ client' \in Client \cup {None} /\ buf' \in Seq(Pieces)
      <3>1. CASE client = None /\ backlog # <<>>
        <4>1. Head(backlog) \in Client /\ Tail(backlog) \in Seq(Client)
          BY <3>1, TailType DEF Types
        <4>2. buf' = <<>> /\ client' = Head(backlog) /\ backlog' = Tail(backlog)
          BY <1>7, <3>1 DEF Accept
        <4> QED BY <4>1, <4>2, EmptySeq
      <3>2. CASE ~(client = None /\ backlog # <<>>)
        BY <1>7, <3>2 DEF Accept, Types, TypeOK
      <3> QED BY <3>1, <3>2
    <2> QED BY <1>0, <1>7, <2>1 DEF Accept, Types, TypeOK, start, pipes, history
  <1>8. CASE ReadClient
    <2> DEFINE line == buf \o inbox[client]
    <2>1. CASE client = None \/ EndOfFile(client) \/ inbox[client] = <<>>
      BY <1>8, <2>1 DEF ReadClient, Types, TypeOK, start, history
    <2>2. CASE ~(client = None \/ EndOfFile(client) \/ inbox[client] = <<>>)
      <3>1. client \in Client /\ inbox[client] \in Seq(Pieces) BY <2>2 DEF Types, TypeOK
      <3>2. line \in Seq(Pieces) /\ Len(line) # 0
        BY <2>2, <3>1, ConcatProperties, EmptySeq DEF Types
      <3>3. inbox' \in [Client -> Seq(Pieces)] BY <1>8, <2>2, <3>1, EmptySeq DEF ReadClient, Types
      <3>4. CASE Last(line).i = 1
        BY <1>8, <2>2, <3>2, <3>3, <3>4 DEF ReadClient, Types, TypeOK, start, history
      <3>5. CASE Last(line).i # 1 /\ line[1].good
        <4> DEFINE t == Term("porter_req", [i \in DOMAIN line |-> line[i].from])
        <4>1. [i \in DOMAIN line |-> line[i].from] \in Seq(Client)
          <5>1. \A i \in 1 .. Len(line) : line[i] \in Pieces BY <3>2
          <5>2. \A i \in 1 .. Len(line) : line[i].from \in Client BY <5>1 DEF Pieces
          <5>3. DOMAIN line = 1 .. Len(line) /\ Len(line) \in Nat BY <3>2
          <5> QED BY <5>2, <5>3
        <4>2. [i \in DOMAIN line |-> line[i].from] # <<>> BY <3>2
        <4>20. t \in Terms BY <4>1, <4>2 DEF Term, Terms
        <4>3. stdout' = Append(stdout, t) BY <1>8, <2>2, <3>5 DEF ReadClient
        <4>4. stdout' \in Seq(Terms) BY <4>20, <4>3, AppendType DEF Types
        <4>5. /\ buf' = <<>> /\ pending' = pending \cup {client}
              /\ pc = "client" /\ pc' = "stdin"
              /\ UNCHANGED <<client, outbox, body, backlog, task, child, stdin, start, running, history>>
          BY <1>8, <2>2, <3>5 DEF ReadClient
        <4>6. pending' \subseteq Client BY <3>1, <4>5 DEF Types, TypeOK
        <4>7. buf' \in Seq(Pieces) BY <4>5, EmptySeq
        <4> HIDE DEF line
        <4> QED BY <3>3, <4>4, <4>5, <4>6, <4>7 DEF Types, TypeOK, start, history
      <3>6. CASE Last(line).i # 1 /\ ~line[1].good
        <4>1. WriteLine(Answer("ERR", client)) BY <1>8, <2>2, <3>6 DEF ReadClient
        <4>2. Answer("ERR", client) \in Answers BY <3>1 DEF Answer, Answers
        <4>3. outbox' \in [Client -> Seq(Answers)] BY <4>1, <4>2, WriteLineType
        <4> QED
          BY <1>8, <2>2, <3>3, <3>6, <4>3 DEF ReadClient, Types, TypeOK, start, history
      <3> QED BY <3>4, <3>5, <3>6
    <2> QED BY <2>1, <2>2
  <1>9. CASE ReadStdin
    <2>1. CASE StartsFrame
      <3>1. stdin[2] \in Parts BY <2>1 DEF StartsFrame, Types
      <3>2. stdin[2].a \in Answers BY <3>1 DEF Parts
      <3>3. body' = <<stdin[2].a>> /\ pc' = "body" BY <1>9, <2>1 DEF ReadStdin
      <3>4. body' \in Seq(Answers) /\ body' # <<>> BY <3>2, <3>3
      <3>50. stdin' = SubSeq(stdin, 3, Len(stdin)) BY <1>9, <2>1 DEF ReadStdin
      <3>51. stdin \in Seq(Parts) BY DEF Types
      <3>5. stdin' \in Seq(Parts) BY <3>50, <3>51, RestType
      <3> QED BY <1>9, <3>3, <3>4, <3>5 DEF ReadStdin, Types, TypeOK, sockets, start, history
    <2>2. CASE ~StartsFrame
      <3>0. stdin' = IF stdin = <<>> THEN stdin ELSE Tail(stdin) BY <1>9, <2>2 DEF ReadStdin
      <3>00. stdin \in Seq(Parts) BY DEF Types
      <3>1. stdin' \in Seq(Parts) BY <3>0, <3>00, TailType
      <3> QED BY <1>9, <2>2, <3>1 DEF ReadStdin, Types, TypeOK, sockets, start, history
    <2> QED BY <2>1, <2>2
  <1>10. CASE ReadBody
    <2>1. body[1] \in Answers BY <1>10 DEF ReadBody, Types, TypeOK
    <2>2. outbox' \in [Client -> Seq(Answers)] /\ pending' \subseteq Client
      BY <1>10, <2>1, RelayType DEF ReadBody, Types, TypeOK
    <2>3. stdin' \in Seq(Parts) BY <1>10, TailType DEF ReadBody, Types
    <2>4. body' = <<>> /\ body' \in Seq(Answers) BY <1>10, EmptySeq DEF ReadBody
    <2> QED BY <1>10, <2>2, <2>3, <2>4 DEF ReadBody, Types, TypeOK, start, history
  <1>11. CASE WaitChild
    <2>1. Term("final", <<>>) \in Terms BY DEF Term, Terms
    <2>2. stdout' \in Seq(Terms)
      <3>1. stdout' = stdout \/ stdout' = Append(stdout, Term("final", <<>>))
        BY <1>11 DEF WaitChild
      <3>2. stdout \in Seq(Terms) BY DEF Types
      <3> QED BY <2>1, <3>1, <3>2, AppendType
    <2> QED BY <1>11, <2>2 DEF WaitChild, Types, TypeOK, sockets, start, history
  <1>12. CASE CloseAll
    <2>1. task' \in [Client -> Living \cup {"none", "DONE", "ERR", "killed", "closed"}]
      BY <1>12 DEF CloseAll, Types
    <2>2. backlog' \in Seq(Client) BY <1>12, EmptySeq DEF CloseAll
    <2> QED BY <1>0, <1>12, <2>1, <2>2 DEF CloseAll, Types, TypeOK, start, pipes, history
  <1>13. CASE Exit BY <1>13 DEF Exit, Types, TypeOK, sockets, start, pipes, history
  <1>14. CASE TakeTerm
    <2> DEFINE t == Head(stdout)
    <2>1. t \in Terms /\ stdout' \in Seq(Terms) BY <1>14, TailType DEF TakeTerm, Types
    <2>2. CASE t.tag = "final"
      BY <1>14, <2>1, <2>2 DEF TakeTerm, Types, TypeOK, parent, sockets, start
    <2>3. CASE t.tag # "final"
      <3>1. t.from \in Seq(Client) /\ t.from # <<>> BY <2>1, <2>3 DEF Terms
      <3>2. Last(t.from) \in Client BY <3>1, EmptySeq DEF Last
      <3>3. Answer("OK", Last(t.from)) \in Answers BY <3>2 DEF Answer, Answers
      <3>4. Send(Answer("OK", Last(t.from))) BY <1>14, <2>3 DEF TakeTerm
      <3>5. stdin' \in Seq(Parts) BY <3>3, <3>4, FrameType, ConcatProperties DEF Send, Types
      <3> QED BY <1>14, <2>1, <2>3, <3>2, <3>5 DEF TakeTerm, Types, TypeOK, parent, sockets, start
    <2> QED BY <2>2, <2>3
  <1>15. CASE ChildStarts
    <2>1. PICK h \in Host : /\ socket' = Listen(h).socket
                            /\ \/ child' = "run" /\ UNCHANGED host
                               \/ child' = "ended" /\ host' = <<h>>
      BY <1>15 DEF ChildStarts
    <2>2. Listen(h).socket \in BOOLEAN BY DEF Listen, Host
    <2>3. host' = <<>> \/ \E g \in Host : host' = <<g>> BY <2>1 DEF Types
    <2>4. host' # <<>> => host'[1] \in Host /\ child' = "ended"
      BY <1>15, <2>1 DEF ChildStarts, Types, TypeOK
    <2> QED
      BY <1>15, <2>1, <2>2, <2>3, <2>4
      DEF ChildStarts, Types, TypeOK, parent, sockets, pipes, history
  <1>16. CASE ChildEnds
    BY <1>16 DEF ChildEnds, Types, TypeOK, parent, sockets, pipes, start, history
  <1>17. CASE ChildStops
    BY <1>17 DEF ChildStops, FaultHappens, Types, TypeOK, parent, sockets, pipes, start
  <1>18. CASE StealStdin
    BY <1>18, TailType DEF StealStdin, FaultHappens, Types, TypeOK, parent, sockets, start
  <1>19. CASE SplitTerm
    BY <1>19, TailType DEF SplitTerm, FaultHappens, Types, TypeOK, parent, sockets, start
  <1>20. CASE SplitFrame
    BY <1>20, TailType, EmptySeq
    DEF SplitFrame, StartsFrame, FaultHappens, Types, TypeOK, sockets, start
  <1>21. CASE UNCHANGED vars
    BY <1>21 DEF vars, Types, TypeOK, parent, sockets, pipes, start, history
  <1> QED
    BY <1>1, <1>2, <1>3, <1>4, <1>5, <1>6, <1>7, <1>8, <1>9, <1>10, <1>11, <1>12, <1>13,
       <1>14, <1>15, <1>16, <1>17, <1>18, <1>19, <1>20, <1>21
    DEF Next, ClientStep, ParentStep
-----------------------------------------------------------------------------
(***************************************************************************)
(* Lines of the control socket.                                            *)
(***************************************************************************)

(* What is appended to the second part is appended to the whole.           *)
LEMMA ConcatAppend ==
    ASSUME NEW S, NEW s \in Seq(S), NEW t \in Seq(S), NEW e \in S
    PROVE  s \o Append(t, e) = Append(s \o t, e)
  <1>1. Append(t, e) \in Seq(S) /\ Len(Append(t, e)) = Len(t) + 1
        /\ \A i \in 1 .. Len(t) : Append(t, e)[i] = t[i]
        /\ Append(t, e)[Len(t) + 1] = e
    BY AppendType
  <1>2. s \o t \in Seq(S) /\ Len(s \o t) = Len(s) + Len(t)
        /\ \A i \in 1 .. Len(s) + Len(t) : (s \o t)[i] =
               IF i <= Len(s) THEN s[i] ELSE t[i - Len(s)]
    BY ConcatProperties
  <1>3. Append(s \o t, e) \in Seq(S) /\ Len(Append(s \o t, e)) = Len(s \o t) + 1
        /\ \A i \in 1 .. Len(s \o t) : Append(s \o t, e)[i] = (s \o t)[i]
        /\ Append(s \o t, e)[Len(s \o t) + 1] = e
    BY <1>2, AppendType
  <1>4. s \o Append(t, e) \in Seq(S) /\ Len(s \o Append(t, e)) = Len(s) + Len(t) + 1
        /\ \A i \in 1 .. Len(s) + (Len(t) + 1) : (s \o Append(t, e))[i] =
               IF i <= Len(s) THEN s[i] ELSE Append(t, e)[i - Len(s)]
    <2> DEFINE u == Append(t, e)
    <2>1. u \in Seq(S) /\ Len(u) = Len(t) + 1 BY <1>1
    <2> HIDE DEF u
    <2>2. s \o u \in Seq(S) /\ Len(s \o u) = Len(s) + Len(u)
          /\ \A i \in 1 .. Len(s) + Len(u) : (s \o u)[i] =
                 IF i <= Len(s) THEN s[i] ELSE u[i - Len(s)]
      BY <2>1, ConcatProperties
    <2>3. Len(s) \in Nat /\ Len(t) \in Nat BY LenProperties
    <2>4. Len(s) + Len(u) = Len(s) + Len(t) + 1 BY <2>1, <2>3
    <2> QED BY <2>1, <2>2, <2>4 DEF u
  <1>5. Len(s) \in Nat /\ Len(t) \in Nat BY LenProperties
  <1>6. ASSUME NEW i \in 1 .. Len(s \o Append(t, e))
        PROVE  (s \o Append(t, e))[i] = Append(s \o t, e)[i]
    <2> HIDE <1>1, <1>2, <1>3, <1>4
    <2>1. CASE i <= Len(s) BY <1>2, <1>3, <1>4, <1>5, <1>6, <2>1
    <2>2. CASE i > Len(s) /\ i <= Len(s) + Len(t)
      <3>1. i - Len(s) \in 1 .. Len(t) BY <1>5, <2>2
      <3> QED BY <1>1, <1>2, <1>3, <1>4, <1>5, <1>6, <2>2, <3>1
    <2>3. CASE i = Len(s) + Len(t) + 1
      <3>1. i - Len(s) = Len(t) + 1 BY <1>5, <2>3
      <3> QED BY <1>1, <1>2, <1>3, <1>4, <1>5, <1>6, <2>3, <3>1
    <2> QED BY <1>4, <1>5, <2>1, <2>2, <2>3
  <1> QED BY <1>2, <1>3, <1>4, <1>6, SeqEqual

LEMMA UnreadType == Types => \A c \in Client : Unread(c) \in Seq(Pieces)
  BY ConcatProperties DEF Types, Unread

(* A swm-task adds a piece to its own line (write_all).                    *)
LEMMA UnreadGrows ==
    ASSUME Types, NEW c \in Client, NEW p \in Pieces,
           inbox' = [inbox EXCEPT ![c] = Append(@, p)], UNCHANGED <<client, buf>>
    PROVE  /\ Unread(c)' = Append(Unread(c), p)
           /\ \A d \in Client \ {c} : Unread(d)' = Unread(d)
  <1>1. inbox'[c] = Append(inbox[c], p) BY DEF Types
  <1>2. buf \o Append(inbox[c], p) = Append(buf \o inbox[c], p) BY ConcatAppend DEF Types
  <1> QED BY <1>1, <1>2 DEF Unread, Types

(* The steps that leave the lines alone.                                   *)
LEMMA LineKept ==
    ASSUME NEW c \in Client, LineOf(c), UNCHANGED <<client, buf, inbox>>, killed \subseteq killed',
           \/ task'[c] = task[c]
           \/ task'[c] = "killed" /\ c \in killed'
           \/ task'[c] \in {"DONE", "ERR"}
           \/ task[c] = "none" /\ task'[c] = "connected"
    PROVE  LineOf(c)'
  BY DEF LineOf, Unread

(* What Porter has taken for a request are the two pieces of one client.   *)
LEMMA WholeLine ==
    ASSUME Types, LineInv, pc = "client", client \in Client, inbox[client] # <<>>,
           NEW line, line = buf \o inbox[client]
    PROVE  /\ line \in Seq(Pieces) /\ line = Unread(client)
           /\ Len(line) \in {1, 2}
           /\ Last(line).i = Len(line)
           /\ \A i \in 1 .. Len(line) : line[i].from = client
  <1>1. line = Unread(client) BY DEF Unread
  <1>2. LineOf(client) BY DEF LineInv, Up
  <1>3. line \in Seq(Pieces) BY <1>1, UnreadType
  <1>4. Len(line) = Len(buf) + Len(inbox[client]) /\ Len(buf) \in Nat
    BY ConcatProperties, LenProperties DEF Types
  <1>5. Len(inbox[client]) \in Nat \ {0} BY EmptySeq DEF Types
  <1>6. Len(line) \in {1, 2} BY <1>1, <1>2, <1>4, <1>5 DEF LineOf
  <1>7. Len(line) \in 1 .. Len(line) BY <1>6
  <1>8. Last(line) = line[Len(line)] BY DEF Last
  <1> QED BY <1>1, <1>2, <1>3, <1>6, <1>7, <1>8 DEF LineOf

(* ReadClient takes the whole line or leaves it as it is.                  *)
LEMMA ReadClientLine ==
    ASSUME Types, LineInv, ReadClient, NEW c \in Client
    PROVE  LineOf(c)' /\ Up /\ (Unread(c)' = Unread(c) \/ Unread(c)' = <<>>)
  <1>0. Up /\ LineOf(c) /\ pc = "client" BY DEF ReadClient, LineInv, Up
  <1>u. UNCHANGED <<task, killed>> BY DEF ReadClient, history
  <1>1. CASE UNCHANGED <<client, buf, inbox>> BY <1>0, <1>u, <1>1 DEF LineOf, Unread
  <1>2. CASE client # None /\ EndOfFile(client)
    <2>1. client' = None /\ UNCHANGED <<buf, inbox>> BY <1>2 DEF ReadClient
    <2>2. c # None BY PorterAssumption
    <2>3. CASE c = client
      <3>1. Unread(c)' = <<>> BY <1>2, <2>1, <2>2, <2>3 DEF Unread, EndOfFile
      <3>2. task[c] # "half" BY <1>2, <2>3 DEF EndOfFile, Living
      <3> QED BY <1>0, <1>u, <3>1, <3>2, EmptySeq DEF LineOf
    <2>4. CASE c # client
      <3>1. Unread(c)' = Unread(c) BY <2>1, <2>2, <2>4 DEF Unread
      <3> QED BY <1>0, <1>u, <3>1 DEF LineOf
    <2> QED BY <2>3, <2>4
  <1>3. CASE client # None /\ ~EndOfFile(client) /\ inbox[client] # <<>>
    <2> DEFINE line == buf \o inbox[client]
    <2>0. client \in Client BY <1>3 DEF Types, TypeOK
    <2>1. line \in Seq(Pieces) /\ line = Unread(client) /\ Len(line) \in {1, 2}
          /\ Last(line).i = Len(line)
      BY <1>0, <1>3, <2>0, WholeLine
    <2>2. inbox' = [inbox EXCEPT ![client] = <<>>] /\ client' = client
      BY <1>3 DEF ReadClient
    <2>3. buf' = IF Last(line).i = 1 THEN line ELSE <<>> BY <1>3 DEF ReadClient
    <2>4. inbox'[client] = <<>> BY <2>0, <2>2 DEF Types
    <2>5. CASE c # client
      <3>1. Unread(c)' = Unread(c) BY <2>0, <2>2, <2>5 DEF Unread, Types
      <3> QED BY <1>0, <1>u, <3>1 DEF LineOf
    <2>6. CASE c = client /\ Last(line).i = 1
      <3>1. Unread(c)' = line BY <2>1, <2>2, <2>3, <2>4, <2>6, ConcatEmptySeq DEF Unread
      <3> QED BY <1>0, <1>u, <2>1, <2>6, <3>1 DEF LineOf
    <2>7. CASE c = client /\ Last(line).i # 1
      <3>1. Unread(c)' = <<>>
        <4>1. buf' = <<>> BY <2>3, <2>7
        <4>2. <<>> \o <<>> = <<>> BY ConcatEmptySeq, EmptySeq
        <4> QED BY <2>2, <2>4, <2>7, <4>1, <4>2 DEF Unread
      <3>2. task[c] # "half" BY <1>0, <2>1, <2>7 DEF LineOf
      <3> QED BY <1>0, <1>u, <3>1, <3>2, EmptySeq DEF LineOf
    <2> QED BY <2>5, <2>6, <2>7
  <1> QED BY <1>0, <1>1, <1>2, <1>3 DEF ReadClient

LEMMA StepLine == Types /\ LineInv /\ [Next]_vars => LineInv'
  <1> SUFFICES ASSUME Types, LineInv, [Next]_vars, Up', NEW c \in Client PROVE LineOf(c)'
    BY DEF LineInv
  <1>1. ASSUME NEW d \in Client, WriteHalf(d) PROVE LineOf(c)'
    <2>0. Up /\ LineOf(c) BY <1>1 DEF WriteHalf, parent, LineInv, Up
    <2>1. PICK good \in BOOLEAN : inbox' = [inbox EXCEPT ![d] = Append(@, Piece(d, 1, good))]
      BY <1>1 DEF WriteHalf
    <2> DEFINE p == Piece(d, 1, good)
    <2>2. p \in Pieces /\ p.from = d /\ p.i = 1 BY DEF Piece, Pieces
    <2>3. Unread(d)' = Append(Unread(d), p) /\ \A e \in Client \ {d} : Unread(e)' = Unread(e)
      <3>1. UNCHANGED <<client, buf>> BY <1>1 DEF WriteHalf, parent
      <3> QED BY <2>1, <2>2, <3>1, UnreadGrows
    <2>4. CASE c # d BY <1>1, <2>0, <2>3, <2>4 DEF WriteHalf, LineOf, Types, history
    <2>5. CASE c = d
      <3>1. Unread(c) = <<>> /\ task'[c] = "half"
        BY <1>1, <2>0, <2>5 DEF WriteHalf, LineOf, Types
      <3>2. Len(Unread(c)') = 1 /\ Unread(c)'[1] = p
        BY <2>2, <2>3, <2>5, <3>1, EmptySeq, AppendType
      <3> QED BY <2>2, <2>5, <3>1, <3>2 DEF LineOf
    <2> QED BY <2>4, <2>5
  <1>2. ASSUME NEW d \in Client, WriteRest(d) PROVE LineOf(c)'
    <2>0. Up /\ LineOf(c) BY <1>2 DEF WriteRest, parent, LineInv, Up
    <2> DEFINE p == Piece(d, 2, TRUE)
    <2>2. p \in Pieces /\ p.from = d /\ p.i = 2 BY DEF Piece, Pieces
    <2>3. Unread(d)' = Append(Unread(d), p) /\ \A e \in Client \ {d} : Unread(e)' = Unread(e)
      <3>1. UNCHANGED <<client, buf>> BY <1>2 DEF WriteRest, parent
      <3>2. inbox' = [inbox EXCEPT ![d] = Append(@, p)] BY <1>2 DEF WriteRest
      <3> QED BY <2>2, <3>1, <3>2, UnreadGrows
    <2>4. CASE c # d BY <1>2, <2>0, <2>3, <2>4 DEF WriteRest, LineOf, Types, history
    <2>5. CASE c = d
      <3>1. Len(Unread(c)) = 1 BY <1>2, <2>0, <2>5 DEF WriteRest, LineOf
      <3>2. Unread(c)[1].from = c /\ Unread(c)[1].i = 1
        <4>1. 1 \in 1 .. Len(Unread(c)) BY <3>1
        <4> QED BY <2>0, <4>1 DEF LineOf
      <3>3. task'[c] = "waiting" BY <1>2, <2>5 DEF WriteRest, Types
      <3>4. Unread(c) \in Seq(Pieces) BY UnreadType
      <3> DEFINE u == Unread(c)
      <3>5. Len(Append(u, p)) = 2 /\ Append(u, p)[1] = u[1] /\ Append(u, p)[2] = p
        <4> HIDE DEF u, p
        <4>1. u \in Seq(Pieces) /\ Len(u) = 1 /\ p \in Pieces BY <2>2, <3>1, <3>4 DEF u
        <4> QED BY <4>1, AppendSecond
      <3>6. Len(Unread(c)') = 2 /\ Unread(c)'[1] = Unread(c)[1] /\ Unread(c)'[2] = p
        BY <2>3, <2>5, <3>5
      <3> HIDE DEF p
      <3>7. \A i \in 1 .. Len(Unread(c)') : i = 1 \/ i = 2 BY <3>6
      <3> QED BY <2>2, <2>5, <3>2, <3>3, <3>6, <3>7 DEF LineOf
    <2> QED BY <2>4, <2>5
  <1>3. CASE Accept
    <2>0. Up /\ LineOf(c) /\ c # None BY <1>3, PorterAssumption DEF Accept, LineInv, Up
    <2>1. Unread(c)' = Unread(c)
      <3>1. inbox[c] \in Seq(Pieces) BY DEF Types
      <3>2. <<>> \o inbox[c] = inbox[c] BY <3>1, ConcatEmptySeq
      <3> QED BY <1>3, <2>0, <3>2 DEF Accept, Unread
    <2> QED BY <1>3, <2>0, <2>1 DEF Accept, LineOf, history
  <1>4. CASE ReadClient BY <1>4, ReadClientLine
  <1>5. CASE CloseAll BY <1>5 DEF CloseAll, Up
  <1>6. CASE Exit BY <1>6 DEF Exit, Up
  <1>7. CASE ReadStdin BY <1>7, LineKept DEF ReadStdin, sockets, history, LineInv, Up
  <1>8. CASE ReadBody BY <1>8, LineKept DEF ReadBody, history, LineInv, Up
  <1>9. CASE WaitChild BY <1>9, LineKept DEF WaitChild, sockets, history, LineInv, Up
  <1>10. ASSUME NEW d \in Client, Connect(d) PROVE LineOf(c)'
    BY <1>10, LineKept DEF Connect, parent, history, LineInv, Up, Types
  <1>11. ASSUME NEW d \in Client, ReadAnswer(d) PROVE LineOf(c)'
    <2>1. Head(outbox[d]) \in Answers BY <1>11, TailType DEF ReadAnswer, Types
    <2>2. Head(outbox[d]).tag \in {"OK", "DONE", "ERR"} BY <2>1 DEF Answers
    <2> QED BY <1>11, <2>2, LineKept DEF ReadAnswer, parent, history, LineInv, Up, Types
  <1>12. ASSUME NEW d \in Client, Kill(d) PROVE LineOf(c)'
    BY <1>12, LineKept DEF Kill, parent, sockets, LineInv, Up, Types
  <1>13. ASSUME NEW d \in Client, TaskEnds(d) PROVE LineOf(c)'
    BY <1>13, LineKept DEF TaskEnds, parent, sockets, history, LineInv, Up
  <1>14. CASE TakeTerm BY <1>14, LineKept DEF TakeTerm, parent, sockets, LineInv, Up
  <1>15. CASE ChildStarts BY <1>15, LineKept DEF ChildStarts, parent, sockets, history, LineInv, Up
  <1>16. CASE ChildEnds BY <1>16, LineKept DEF ChildEnds, parent, sockets, history, LineInv, Up
  <1>17. CASE ChildStops
    BY <1>17, LineKept DEF ChildStops, FaultHappens, parent, sockets, LineInv, Up
  <1>18. CASE StealStdin
    BY <1>18, LineKept DEF StealStdin, FaultHappens, parent, sockets, LineInv, Up
  <1>19. CASE SplitTerm
    BY <1>19, LineKept DEF SplitTerm, FaultHappens, parent, sockets, LineInv, Up
  <1>20. CASE SplitFrame
    BY <1>20, LineKept DEF SplitFrame, FaultHappens, sockets, LineInv, Up
  <1>21. CASE UNCHANGED vars
    BY <1>21, LineKept DEF vars, parent, sockets, history, LineInv, Up
  <1> QED
    BY <1>1, <1>2, <1>3, <1>4, <1>5, <1>6, <1>7, <1>8, <1>9, <1>10, <1>11, <1>12, <1>13,
       <1>14, <1>15, <1>16, <1>17, <1>18, <1>19, <1>20, <1>21
    DEF Next, ClientStep, ParentStep
-----------------------------------------------------------------------------
(***************************************************************************)
(* Requests, answers and hosts.                                            *)
(***************************************************************************)

(* A request is made of the pieces of one client, and stays as it is.      *)
LEMMA StepWhole ==
    Types /\ LineInv /\ RequestsAreWhole /\ [Next]_vars => RequestsAreWhole'
  <1> SUFFICES ASSUME Types, LineInv, RequestsAreWhole, [Next]_vars PROVE RequestsAreWhole'
    OBVIOUS
  <1> DEFINE Whole(t) == t.tag = "porter_req" => \E c \in Client : t.from = <<c, c>>
  <1>0. stdout \in Seq(Terms) /\ \A i \in 1 .. Len(stdout) : Whole(stdout[i])
    BY LenProperties DEF RequestsAreWhole, Types
  <1>a. ASSUME stdout' = stdout PROVE RequestsAreWhole' BY <1>a DEF RequestsAreWhole
  <1>b. ASSUME NEW t \in Terms, Whole(t), stdout' = Append(stdout, t) PROVE RequestsAreWhole'
    <2>1. /\ stdout' \in Seq(Terms) /\ Len(stdout') = Len(stdout) + 1 /\ Len(stdout) \in Nat
          /\ \A i \in 1 .. Len(stdout) : stdout'[i] = stdout[i]
          /\ stdout'[Len(stdout) + 1] = t
      BY <1>0, <1>b, AppendType, LenProperties
    <2>2. \A i \in 1 .. Len(stdout') : i \in 1 .. Len(stdout) \/ i = Len(stdout) + 1 BY <2>1
    <2>3. \A i \in 1 .. Len(stdout') : Whole(stdout'[i]) BY <1>0, <1>b, <2>1, <2>2
    <2>4. DOMAIN stdout' = 1 .. Len(stdout') BY <2>1, LenProperties
    <2> QED BY <2>3, <2>4 DEF RequestsAreWhole
  <1>c. ASSUME stdout # <<>>, stdout' = Tail(stdout) PROVE RequestsAreWhole'
    <2>1. /\ stdout' \in Seq(Terms) /\ Len(stdout') = Len(stdout) - 1 /\ Len(stdout) \in Nat
          /\ \A i \in 1 .. Len(stdout') : stdout'[i] = stdout[i + 1]
      BY <1>0, <1>c, TailType, LenProperties
    <2>2. \A i \in 1 .. Len(stdout') : i + 1 \in 1 .. Len(stdout) BY <2>1
    <2>3. \A i \in 1 .. Len(stdout') : Whole(stdout'[i]) BY <1>0, <2>1, <2>2
    <2>4. DOMAIN stdout' = 1 .. Len(stdout') BY <2>1, LenProperties
    <2> QED BY <2>3, <2>4 DEF RequestsAreWhole
  <1>1. CASE ReadClient
    <2> DEFINE line == buf \o inbox[client]
    <2>1. CASE stdout' = stdout BY <1>a, <2>1
    <2>2. CASE stdout' # stdout
      <3> DEFINE from == [i \in DOMAIN line |-> line[i].from]
      <3>1. pc = "client" /\ client \in Client /\ inbox[client] # <<>> /\ Last(line).i # 1
            /\ stdout' = Append(stdout, Term("porter_req", from))
        BY <1>1, <2>2 DEF ReadClient, Types, TypeOK
      <3>2. line \in Seq(Pieces) /\ Len(line) = 2 /\ \A i \in 1 .. 2 : line[i].from = client
        BY <3>1, WholeLine
      <3>3. from = <<client, client>>
        <4>1. DOMAIN line = 1 .. 2 BY <3>2, LenProperties
        <4>2. from = [i \in 1 .. 2 |-> client] BY <3>2, <4>1
        <4> QED BY <4>2
      <3>4. <<client, client>> \in Seq(Client) /\ <<client, client>> # <<>> BY <3>1
      <3> HIDE DEF from
      <3>5. Term("porter_req", from) \in Terms BY <3>3, <3>4 DEF Term, Terms
      <3>6. Whole(Term("porter_req", from)) BY <3>1, <3>3 DEF Term
      <3> QED BY <1>b, <3>1, <3>5, <3>6
    <2> QED BY <2>1, <2>2
  <1>2. CASE WaitChild
    <2>1. Term("final", <<>>) \in Terms /\ Whole(Term("final", <<>>)) BY DEF Term, Terms
    <2>2. stdout' = stdout \/ stdout' = Append(stdout, Term("final", <<>>))
      BY <1>2 DEF WaitChild
    <2> QED BY <1>a, <1>b, <2>1, <2>2
  <1>3. CASE TakeTerm BY <1>3, <1>c DEF TakeTerm
  <1>4. CASE SplitTerm BY <1>4, <1>c DEF SplitTerm
  <1>5. ASSUME NEW c \in Client, ClientStep(c) \/ TaskEnds(c) \/ Kill(c)
        PROVE  RequestsAreWhole'
    BY <1>5, <1>a DEF ClientStep, Connect, WriteHalf, WriteRest, ReadAnswer, TaskEnds, Kill, pipes
  <1>6. CASE Accept \/ ReadStdin \/ ReadBody \/ CloseAll \/ Exit
    BY <1>6, <1>a DEF Accept, ReadStdin, ReadBody, CloseAll, Exit, pipes
  <1>7. CASE ChildStarts \/ ChildEnds \/ ChildStops \/ StealStdin \/ SplitFrame
    BY <1>7, <1>a DEF ChildStarts, ChildEnds, ChildStops, StealStdin, SplitFrame, pipes
  <1>8. CASE UNCHANGED vars BY <1>8, <1>a DEF vars, pipes
  <1> QED BY <1>1, <1>2, <1>3, <1>4, <1>5, <1>6, <1>7, <1>8 DEF Next, ParentStep

(* Why a start fails: nothing but what Startable leaves out, or the        *)
(* directory of mkdtemp that stays root's (ensure_private_dir).            *)
LEMMA StartFails ==
    ASSUME NEW h \in Host, Started(h) # "run"
    PROVE  ~Startable(h) \/ Private(h)
  <1> SUFFICES ASSUME Startable(h), ~Private(h) PROVE FALSE OBVIOUS
  <1> DEFINE d == ScriptDir(h)
  <1> DEFINE fs == Listen(h).fs
  <1>1. h.known /\ h.kept /\ h.disk /\ ~(h.spool /\ h.used) /\ (h.root \/ h.user = "job")
    BY DEF Startable
  <1>2. h.user \in User /\ h.spool \in BOOLEAN /\ h.root \in BOOLEAN BY DEF Host
  <1>3. d \in {"job", "script"} BY DEF ScriptDir
  <1>4. fs[d] = IF h.spool THEN h.user ELSE Nobody
    BY <1>1, <1>2 DEF Listen, PrivateDir, CtrlDir, ScriptDir, Found, Runs, Nobody, User
  <1>5. d \in DOMAIN fs
    BY <1>1, <1>2, <1>3 DEF Listen, PrivateDir, CtrlDir, ScriptDir, Found, Runs, Nobody, User
  <1> HIDE DEF fs
  <1>6. ScriptSaved(h, fs) # <<>> /\ MayEnter(h, ScriptSaved(h, fs)[1])
    BY <1>1, <1>2, <1>3, <1>4, <1>5
    DEF ScriptSaved, PrivateDir, MayEnter, ScriptDir, Runs, Nobody, User, Private
  <1>7. LogsOpened(h) /\ MayBecome(h) BY <1>1 DEF LogsOpened, MayBecome
  <1> QED BY <1>1, <1>6, <1>7 DEF Started, fs

LEMMA StepHost ==
    ScriptStartsUnlessPrivate /\ [Next]_vars => ScriptStartsUnlessPrivate'
  <1> SUFFICES ASSUME ScriptStartsUnlessPrivate, [Next]_vars PROVE ScriptStartsUnlessPrivate'
    OBVIOUS
  <1>1. CASE host' = host BY <1>1 DEF ScriptStartsUnlessPrivate
  <1>2. CASE ChildStarts
    <2>1. CASE host' # host
      <3>1. PICK h \in Host : Started(h) # "run" /\ host' = <<h>>
        BY <1>2, <2>1 DEF ChildStarts
      <3>2. ~Startable(h) \/ Private(h) BY <3>1, StartFails
      <3>3. \A i \in DOMAIN host' : host'[i] = h BY <3>1
      <3> QED BY <3>2, <3>3 DEF ScriptStartsUnlessPrivate
    <2> QED BY <1>1, <2>1
  <1>3. CASE UNCHANGED vars BY <1>1, <1>3 DEF vars, start
  <1>4. ASSUME NEW c \in Client, ClientStep(c) \/ TaskEnds(c) \/ Kill(c) PROVE host' = host
    BY <1>4 DEF ClientStep, Connect, WriteHalf, WriteRest, ReadAnswer, TaskEnds, Kill, start
  <1>5. ASSUME ParentStep PROVE host' = host
    BY <1>5
    DEF ParentStep, Accept, ReadClient, ReadStdin, ReadBody, WaitChild, CloseAll, Exit, start
  <1>6. ASSUME TakeTerm \/ ChildEnds \/ ChildStops \/ StealStdin \/ SplitTerm \/ SplitFrame
        PROVE  host' = host
    BY <1>6 DEF TakeTerm, ChildEnds, ChildStops, StealStdin, SplitTerm, SplitFrame, start
  <1> QED BY <1>1, <1>2, <1>3, <1>4, <1>5, <1>6 DEF Next
-----------------------------------------------------------------------------
(***************************************************************************)
(* Answers, as long as no swm-task is killed.                              *)
(***************************************************************************)
Own(c) == \A i \in 1 .. Len(outbox[c]) : outbox[c][i].ref = c

LEMMA OwnIsOwn == Types => (AnswerIsOwnUnlessKilled <=> (killed = {} => \A c \in Client : Own(c)))
  <1> SUFFICES ASSUME Types
               PROVE  AnswerIsOwnUnlessKilled <=> (killed = {} => \A c \in Client : Own(c))
    OBVIOUS
  <1>1. \A c \in Client : DOMAIN outbox[c] = 1 .. Len(outbox[c]) BY LenProperties DEF Types
  <1> QED BY <1>1 DEF AnswerIsOwnUnlessKilled, Own

(* The steps that give nobody a line, an answer or a ref.                  *)
LEMMA WaitKept ==
    ASSUME NEW c \in Client, WaitOf(c), Own(c), UNCHANGED <<client, pending>>,
           outbox'[c] = outbox[c], Unread(c)' = Unread(c),
           \/ task'[c] = task[c]
           \/ task[c] = "none" /\ task'[c] = "connected"
    PROVE  WaitOf(c)' /\ Own(c)'
  BY DEF WaitOf, Early, Own

(* The answer that is appended is the client's own, and the last unless it *)
(* is an OK.                                                               *)
LEMMA AnswerGiven ==
    ASSUME Types, NEW c \in Client, Own(c), ~Early(c), UNCHANGED task,
           task[c] = "waiting", client' = c,
           NEW a \in Answers, a.ref = c, outbox'[c] = Append(outbox[c], a),
           Unread(c)' = <<>>,
           c \in pending' =>
               a.tag = "OK" /\ \A i \in 1 .. Len(outbox[c]) : outbox[c][i].tag = "OK"
    PROVE  WaitOf(c)' /\ Own(c)'
  <1>1. /\ Len(outbox'[c]) = Len(outbox[c]) + 1 /\ Len(outbox[c]) \in Nat
        /\ \A i \in 1 .. Len(outbox[c]) : outbox'[c][i] = outbox[c][i]
        /\ outbox'[c][Len(outbox[c]) + 1] = a
    BY AppendType, LenProperties DEF Types
  <1>2. \A i \in 1 .. Len(outbox'[c]) : i \in 1 .. Len(outbox[c]) \/ i = Len(outbox[c]) + 1
    BY <1>1
  <1>3. Own(c)' BY <1>1, <1>2 DEF Own
  <1>4. ~Early(c)' BY DEF Early
  <1>5. c \in pending' => \A i \in 1 .. Len(outbox'[c]) : outbox'[c][i].tag = "OK"
    BY <1>1, <1>2
  <1> QED BY <1>3, <1>4, <1>5 DEF WaitOf

LEMMA StepWait ==
    Types /\ LineInv /\ WaitInv /\ AnswerIsOwnUnlessKilled /\ [Next]_vars
    => WaitInv' /\ AnswerIsOwnUnlessKilled'
  <1> SUFFICES ASSUME Types, LineInv, WaitInv, AnswerIsOwnUnlessKilled, [Next]_vars
               PROVE  WaitInv' /\ AnswerIsOwnUnlessKilled'
    OBVIOUS
  <1>t. Types' BY StepTypes
  <1>i. AnswerIsOwnUnlessKilled' <=> (killed' = {} => \A c \in Client : Own(c)')
    <2>1. \A c \in Client : DOMAIN outbox'[c] = 1 .. Len(outbox'[c])
      BY <1>t, LenProperties DEF Types
    <2> QED BY <2>1 DEF AnswerIsOwnUnlessKilled, Own
  <1> SUFFICES ASSUME killed' = {}
               PROVE  \A c \in Client : (Up' => WaitOf(c)') /\ Own(c)'
    BY <1>i DEF WaitInv
  <1>0. killed = {}
    BY DEF Next, ClientStep, ParentStep, Connect, WriteHalf, WriteRest, ReadAnswer, TaskEnds, Kill,
           Accept, ReadClient, ReadStdin, ReadBody, WaitChild, CloseAll, Exit, TakeTerm,
           ChildStarts, ChildEnds, ChildStops, StealStdin, SplitTerm, SplitFrame, FaultHappens,
           history, vars
  <1>o. \A c \in Client : Own(c) BY <1>0, OwnIsOwn
  <1>w. Up => \A c \in Client : WaitOf(c) BY <1>0 DEF WaitInv
  <1> SUFFICES ASSUME NEW c \in Client PROVE (Up' => WaitOf(c)') /\ Own(c)' OBVIOUS
  <1>k. ASSUME Up' => Up, UNCHANGED <<client, pending, outbox, task, buf, inbox>>
        PROVE  (Up' => WaitOf(c)') /\ Own(c)'
    BY <1>k, <1>o, <1>w, WaitKept DEF Own, Unread
  <1>1. CASE ReadStdin \/ WaitChild
    BY <1>1, <1>k DEF ReadStdin, WaitChild, sockets, Up
  <1>2. CASE TakeTerm \/ ChildStarts \/ ChildEnds \/ ChildStops \/ StealStdin \/ SplitTerm
    BY <1>2, <1>k DEF TakeTerm, ChildStarts, ChildEnds, ChildStops, StealStdin, SplitTerm,
                      parent, sockets, Up
  <1>3. CASE SplitFrame BY <1>3, <1>k DEF SplitFrame, sockets, Up
  <1>4. CASE UNCHANGED vars BY <1>4, <1>k DEF vars, parent, sockets, Up
  <1>5. ASSUME NEW d \in Client, TaskEnds(d) PROVE (Up' => WaitOf(c)') /\ Own(c)'
    BY <1>5, <1>k DEF TaskEnds, parent, sockets, Up
  <1>6. ASSUME NEW d \in Client, Kill(d) PROVE FALSE BY <1>6 DEF Kill
  <1>7. CASE CloseAll \/ Exit BY <1>7, <1>o DEF CloseAll, Exit, Up, Own, sockets
  <1>8. ASSUME NEW d \in Client, Connect(d) PROVE (Up' => WaitOf(c)') /\ Own(c)'
    <2>1. UNCHANGED <<client, buf, pending, inbox, outbox>> /\ (Up' => Up)
      BY <1>8 DEF Connect, parent, Up
    <2>2. task'[c] = task[c] \/ (task[c] = "none" /\ task'[c] = "connected")
      BY <1>8 DEF Connect, Types
    <2>3. Unread(c)' = Unread(c) BY <2>1 DEF Unread
    <2> QED BY <1>o, <1>w, <2>1, <2>2, <2>3, WaitKept DEF Own
  <1>9. ASSUME NEW d \in Client, WriteHalf(d) \/ WriteRest(d)
        PROVE  (Up' => WaitOf(c)') /\ Own(c)'
    <2>1. UNCHANGED <<client, buf, pending, outbox>> /\ (Up' => Up)
      BY <1>9 DEF WriteHalf, WriteRest, parent, Up
    <2>2. Own(c)' BY <1>o, <2>1 DEF Own
    <2>3. CASE c # d
      <3>1. task'[c] = task[c] /\ inbox'[c] = inbox[c]
        BY <1>9, <2>3 DEF WriteHalf, WriteRest, Types
      <3>2. Unread(c)' = Unread(c) BY <2>1, <3>1 DEF Unread
      <3> QED BY <1>o, <1>w, <2>1, <2>2, <3>1, <3>2, WaitKept
    <2>4. CASE c = d
      <3>1. Early(c) BY <1>9, <2>4 DEF WriteHalf, WriteRest, Early
      <3>2. task'[c] \in {"half", "waiting"} BY <1>9, <2>4 DEF WriteHalf, WriteRest, Types
      <3> QED BY <1>w, <2>1, <2>2, <3>1, <3>2 DEF WaitOf
    <2> QED BY <2>3, <2>4
  <1>10. CASE Accept
    <2>1. Up /\ UNCHANGED <<pending, outbox, task>> BY <1>10 DEF Accept, Up
    <2>2. Unread(c)' = Unread(c)
      <3>1. <<>> \o inbox[c] = inbox[c] BY ConcatEmptySeq DEF Types
      <3> QED BY <1>10, <3>1, PorterAssumption DEF Accept, Unread
    <2>3. c \in pending => client' = c
      BY <1>10, <1>w, <2>1, PorterAssumption DEF Accept, WaitOf
    <2> QED BY <1>o, <1>w, <2>1, <2>2, <2>3 DEF WaitOf, Early, Own
  <1>11. ASSUME NEW d \in Client, ReadAnswer(d) PROVE (Up' => WaitOf(c)') /\ Own(c)'
    <2>1. UNCHANGED <<client, buf, pending, inbox>> /\ (Up' => Up)
      BY <1>11 DEF ReadAnswer, parent, Up
    <2>2. Unread(c)' = Unread(c) BY <2>1 DEF Unread
    <2>3. CASE c # d
      <3>1. task'[c] = task[c] /\ outbox'[c] = outbox[c]
        BY <1>11, <2>3 DEF ReadAnswer, Types
      <3> QED BY <1>o, <1>w, <2>1, <2>2, <3>1, WaitKept DEF Own
    <2>4. CASE c = d
      <3>1. outbox[c] # <<>> /\ outbox'[c] = Tail(outbox[c]) /\ task[c] = "waiting"
        BY <1>11, <2>4 DEF ReadAnswer, Types
      <3>2. /\ Len(outbox'[c]) = Len(outbox[c]) - 1 /\ Len(outbox[c]) \in Nat \ {0}
            /\ \A i \in 1 .. Len(outbox'[c]) : outbox'[c][i] = outbox[c][i + 1]
            /\ Head(outbox[c]) = outbox[c][1]
        BY <3>1, TailType, EmptySeq DEF Types
      <3>3. \A i \in 1 .. Len(outbox'[c]) : i + 1 \in 1 .. Len(outbox[c]) BY <3>2
      <3>4. Own(c)' BY <1>o, <3>2, <3>3 DEF Own
      <3>5. Up => ~Early(c) BY <1>w, <3>1 DEF WaitOf
      <3>6. Up => (c \in pending => Head(outbox[c]).tag = "OK")
        <4>1. 1 \in 1 .. Len(outbox[c]) BY <3>2
        <4> QED BY <1>w, <3>2, <4>1 DEF WaitOf
      <3>7. task'[c] = IF Head(outbox[c]).tag = "OK" THEN task[c] ELSE Head(outbox[c]).tag
        BY <1>11, <2>4 DEF ReadAnswer, Types
      <3>8. Head(outbox[c]).tag \in {"OK", "DONE", "ERR"}
        <4>1. Head(outbox[c]) \in Answers BY <3>1, TailType DEF Types
        <4> QED BY <4>1 DEF Answers
      <3>9. Up => ~Early(c)' BY <2>2, <3>1, <3>5, <3>7, <3>8 DEF Early
      <3>10. Up => (c \in pending' =>
                /\ client' = c /\ task'[c] = "waiting"
                /\ \A i \in 1 .. Len(outbox'[c]) : outbox'[c][i].tag = "OK")
        BY <1>w, <2>1, <3>1, <3>2, <3>3, <3>6, <3>7 DEF WaitOf
      <3> QED BY <2>1, <3>4, <3>9, <3>10 DEF WaitOf
    <2> QED BY <2>3, <2>4
  <1>12. CASE ReadBody
    <2> DEFINE a == body[1]
    <2>1. Up /\ UNCHANGED <<client, buf, inbox, task>> BY <1>12 DEF ReadBody, Up
    <2>2. CASE UNCHANGED <<outbox, pending>> BY <1>k, <2>1, <2>2
    <2>3. CASE ~UNCHANGED <<outbox, pending>>
      <3>1. a.ref \in pending /\ Relay(a) BY <1>12, <2>3 DEF ReadBody, Relay
      <3>2. a \in Answers BY <1>12 DEF ReadBody, Types, TypeOK
      <3>3. a.ref = client /\ client \in Client /\ task[client] = "waiting" /\ ~Early(client)
            /\ \A i \in 1 .. Len(outbox[client]) : outbox[client][i].tag = "OK"
        BY <1>w, <2>1, <3>1 DEF WaitOf, Types, TypeOK
      <3>4. outbox' = [outbox EXCEPT ![client] = Append(@, a)]
        BY <3>1, <3>3, PorterAssumption DEF Relay, WriteLine
      <3>5. pending' = IF a.tag = "OK" THEN pending ELSE pending \ {client}
        BY <3>1, <3>3 DEF Relay
      <3>6. CASE c = client
        <4>1. Unread(c)' = <<>> BY <2>1, <3>3, <3>6 DEF Unread, Early
        <4>2. outbox'[c] = Append(outbox[c], a) BY <3>4, <3>6 DEF Types
        <4>3. c \in pending' => a.tag = "OK" BY <3>5, <3>6
        <4> HIDE DEF a
        <4> QED BY <1>o, <2>1, <3>2, <3>3, <3>6, <4>1, <4>2, <4>3, AnswerGiven
      <3>7. CASE c # client
        <4>1. outbox'[c] = outbox[c] /\ Unread(c)' = Unread(c)
          BY <2>1, <3>3, <3>4, <3>7 DEF Unread, Types
        <4>2. c \notin pending' BY <1>w, <2>1, <3>5, <3>7 DEF WaitOf
        <4> QED BY <1>o, <1>w, <2>1, <4>1, <4>2 DEF WaitOf, Early, Own
      <3> QED BY <3>6, <3>7
    <2> QED BY <2>2, <2>3
  <1>13. CASE ReadClient
    <2>1. Up /\ UNCHANGED task /\ pc = "client" BY <1>13 DEF ReadClient, Up
    <2>2. Unread(c)' = Unread(c) \/ Unread(c)' = <<>> BY <1>13, ReadClientLine
    <2>3. CASE UNCHANGED <<client, pending, outbox>>
      BY <1>o, <1>w, <2>1, <2>2, <2>3 DEF WaitOf, Early, Own
    <2>4. CASE client # None /\ EndOfFile(client)
      <3>1. client' = None /\ UNCHANGED <<pending, outbox>> BY <1>13, <2>4 DEF ReadClient
      <3>2. c \notin pending BY <1>w, <2>1, <2>4 DEF WaitOf, EndOfFile, Living
      <3> QED BY <1>o, <1>w, <2>1, <2>2, <3>1, <3>2 DEF WaitOf, Early, Own
    <2>5. CASE ~(client # None /\ EndOfFile(client)) /\ ~UNCHANGED <<client, pending, outbox>>
      <3> DEFINE line == buf \o inbox[client]
      <3>1. /\ client \in Client /\ inbox[client] # <<>> /\ client' = client
            /\ Last(line).i # 1
            /\ \/ pending' = pending \cup {client} /\ UNCHANGED outbox
               \/ WriteLine(Answer("ERR", client)) /\ UNCHANGED pending
        BY <1>13, <2>5 DEF ReadClient, Types, TypeOK
      <3>2. line = Unread(client) /\ Len(line) = 2 BY <2>1, <3>1, WholeLine
      <3>3. Early(client) BY <3>2, EmptySeq DEF Early
      <3>4. outbox[client] = <<>> /\ client \notin pending /\ task[client] \notin {"DONE", "ERR"}
        BY <1>w, <2>1, <3>1, <3>3 DEF WaitOf
      <3>5. task[client] = "waiting"
        <4>1. LineOf(client) BY <2>1, <3>1 DEF LineInv
        <4>2. task[client] \notin {"none", "connected", "half", "killed", "closed"}
          BY <1>0, <3>2, <4>1, EmptySeq DEF LineOf
        <4> QED BY <3>1, <3>4, <4>2 DEF Types, Living
      <3>6. Unread(client)' = <<>>
        <4>1. buf' = <<>> /\ inbox' = [inbox EXCEPT ![client] = <<>>]
          BY <1>13, <2>5, <3>1 DEF ReadClient
        <4>2. <<>> \o <<>> = <<>> BY ConcatEmptySeq, EmptySeq
        <4> QED BY <3>1, <4>1, <4>2 DEF Unread, Types
      <3>7. CASE c # client
        <4>1. outbox'[c] = outbox[c] BY <3>1, <3>7 DEF WriteLine, Types
        <4>2. c \notin pending' BY <1>w, <2>1, <3>1, <3>7 DEF WaitOf
        <4> QED BY <1>o, <1>w, <2>1, <2>2, <4>1, <4>2 DEF WaitOf, Early, Own
      <3>8. CASE c = client /\ UNCHANGED outbox
        <4>1. ~Early(c)' BY <2>1, <3>1, <3>5, <3>6, <3>8 DEF Early
        <4>2. Len(outbox'[c]) = 0 BY <3>4, <3>8, EmptySeq
        <4> QED BY <1>o, <2>1, <3>1, <3>5, <3>8, <4>1, <4>2 DEF WaitOf, Own
      <3>9. CASE c = client /\ WriteLine(Answer("ERR", client)) /\ UNCHANGED pending
        <4>1. Answer("ERR", c) \in Answers /\ Answer("ERR", c).ref = c BY DEF Answer, Answers
        <4>2. outbox'[c] = Append(<<>>, Answer("ERR", c)) \/ outbox'[c] = outbox[c]
          BY <3>4, <3>9 DEF WriteLine, Types
        <4>3. outbox'[c] = <<Answer("ERR", c)>> \/ outbox'[c] = <<>> BY <3>4, <3>9, <4>2
        <4>4. Own(c)' BY <4>1, <4>3, EmptySeq DEF Own
        <4>5. ~Early(c)' BY <2>1, <3>1, <3>5, <3>6, <3>9 DEF Early
        <4> QED BY <3>4, <3>9, <4>4, <4>5 DEF WaitOf
      <3> QED BY <3>1, <3>7, <3>8, <3>9
    <2> QED BY <2>3, <2>4, <2>5
  <1> QED
    BY <1>1, <1>2, <1>3, <1>4, <1>5, <1>6, <1>7, <1>8, <1>9, <1>10, <1>11, <1>12, <1>13
    DEF Next, ClientStep, ParentStep
-----------------------------------------------------------------------------
(***************************************************************************)
(* Theorems.                                                               *)
(***************************************************************************)
LEMMA InitIInv == Init => IInv
  <1> SUFFICES ASSUME Init PROVE IInv OBVIOUS
  <1>1. Types BY InitTypes
  <1>2. \A c \in Client : Unread(c) = <<>> BY PorterAssumption DEF Init, Unread
  <1>3. LineInv BY <1>2, EmptySeq DEF Init, LineInv, LineOf
  <1>4. WaitInv BY <1>2 DEF Init, WaitInv, WaitOf
  <1>5. RequestsAreWhole BY DEF Init, RequestsAreWhole
  <1>6. AnswerIsOwnUnlessKilled BY DEF Init, AnswerIsOwnUnlessKilled
  <1>7. ScriptStartsUnlessPrivate BY DEF Init, ScriptStartsUnlessPrivate
  <1> QED BY <1>1, <1>3, <1>4, <1>5, <1>6, <1>7 DEF IInv

LEMMA StepIInv == IInv /\ [Next]_vars => IInv'
  BY StepTypes, StepLine, StepWhole, StepWait, StepHost DEF IInv

LEMMA Invariance == Spec => []IInv
  BY InitIInv, StepIInv, PTL DEF Spec

(* The variables of Porter, its pipes and its clients keep their types,    *)
(* whatever is stolen, split or killed (main of porter.cpp).               *)
THEOREM TypeCorrect == Spec => []TypeOK
  <1>1. IInv => TypeOK BY DEF IInv, Types
  <1> QED BY <1>1, Invariance, PTL

(* Every request SWM is asked for is one that one swm-task has written     *)
(* (try_read_ctrl_client, ctrl_buf.clear).                                 *)
THEOREM WholeRequests == Spec => []RequestsAreWhole
  <1>1. IInv => RequestsAreWhole BY DEF IInv
  <1> QED BY <1>1, Invariance, PTL

(* Until a swm-task is killed nobody gets the answer to the request of     *)
(* another (pending_refs), whatever is lost.                               *)
THEOREM OwnAnswers == Spec => []AnswerIsOwnUnlessKilled
  <1>1. IInv => AnswerIsOwnUnlessKilled BY DEF IInv
  <1> QED BY <1>1, Invariance, PTL

(* On every host the script starts, or the reason is one of those named    *)
(* (save_script, open_job_logs, set_uid_gid, ensure_private_dir).          *)
THEOREM ScriptStarts == Spec => []ScriptStartsUnlessPrivate
  <1>1. IInv => ScriptStartsUnlessPrivate BY DEF IInv
  <1> QED BY <1>1, Invariance, PTL
=============================================================================
