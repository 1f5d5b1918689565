---------------------------- MODULE CommitProofs ----------------------------
(***************************************************************************)
(* Theorems about Commit, for every set of participants and every value of *)
(* the bounds.                                                             *)
(***************************************************************************)
EXTENDS Commit, FiniteSetTheorems, TLAPS

(***************************************************************************)
(* Bags of messages: what an action can add to the messages in flight.     *)
(***************************************************************************)

(* Taking a message out of a bag leaves a bag with no new element.         *)
LEMMA RemoveOne ==
    ASSUME NEW B, IsABag(B), NEW m
    PROVE  /\ IsABag(B (-) SetToBag({m}))
           /\ BagToSet(B (-) SetToBag({m})) \subseteq BagToSet(B)
<1> DEFINE C == [e \in DOMAIN B |-> IF e \in DOMAIN SetToBag({m})
                                    THEN B[e] - SetToBag({m})[e] ELSE B[e]]
           R == B (-) SetToBag({m})
<1>1. R = [e \in {d \in DOMAIN C : C[d] > 0} |-> C[e]]
  BY DEF (-)
<1>2. \A e \in DOMAIN B : C[e] \in Int
  BY DEF IsABag, SetToBag
<1>3. DOMAIN C = DOMAIN B
  OBVIOUS
<1>4. DOMAIN R \subseteq DOMAIN B /\ \A e \in DOMAIN R : R[e] \in {n \in Nat : n > 0}
  <2> HIDE DEF C, R
  <2> QED BY <1>1, <1>2, <1>3
<1>5. R = [e \in DOMAIN R |-> R[e]]
  BY <1>1
<1> HIDE DEF R
<1>6. IsABag(R)
  BY <1>4, <1>5 DEF IsABag
<1> QED BY <1>4, <1>6 DEF R, BagToSet

(* Adding one copy of every element of a set.                              *)
LEMMA AddSet ==
    ASSUME NEW B, IsABag(B), NEW S
    PROVE  /\ IsABag(B (+) SetToBag(S))
           /\ BagToSet(B (+) SetToBag(S)) = BagToSet(B) \cup S
BY DEF IsABag, SetToBag, BagToSet, (+)

(* Replace(m, S) leaves a bag of old messages and messages of S.           *)
LEMMA ReplaceInFlight ==
    ASSUME IsABag(net), NEW m, NEW S, Replace(m, S)
    PROVE  /\ IsABag(net')
           /\ InFlight' \subseteq InFlight \cup S
<1> DEFINE R == net (-) SetToBag({m})
<1>1. IsABag(R) /\ BagToSet(R) \subseteq BagToSet(net)
  BY RemoveOne
<1> HIDE DEF R
<1>2. IsABag(R (+) SetToBag(S)) /\ BagToSet(R (+) SetToBag(S)) = BagToSet(R) \cup S
  BY <1>1, AddSet
<1>3. net' = R (+) SetToBag(S)
  BY DEF Replace, R
<1> QED BY <1>1, <1>2, <1>3 DEF InFlight

(* Dropping messages leaves a bag of old messages.                         *)
LEMMA WithoutInFlight ==
    ASSUME IsABag(net), NEW S
    PROVE  IsABag(Without(S)) /\ BagToSet(Without(S)) \subseteq InFlight
BY DEF Without, IsABag, InFlight, BagToSet

-----------------------------------------------------------------------------
(***************************************************************************)
(* The inductive invariant.                                                *)
(***************************************************************************)

FromCoord == {"transaction", "pre_commit", "commit", "abort", "request_lasts",
              "new_leader"}
ToCoord == {"yes", "pre_committed", "commited", "aborted", "lasts", "state"}

(* The messages in flight are well formed, and go from the coordinator to  *)
(* participants or back: only the coordinator sends decisions.             *)
Routed(m) ==
    /\ m \in Message
    /\ m.type \in FromCoord => m.from = Coord /\ m.to \in Participants
    /\ m.type \in ToCoord => m.from \in Participants /\ m.to = Coord
    /\ m.type \in {"activate", "collect_lasts", "wm_commit_done"} => m.to = Coord
    /\ m.type = "state" => m.st \in Phase

(* There is more than one participant.                                     *)
Many == \E p, q \in Participants : p # q

(* With more than one participant there is no commit; a participant that   *)
(* reports its commit has written the records.                             *)
Evidence(m) ==
    /\ m.type = "commit" => ~Many
    /\ m.type = "commited" => ~Many /\ m.from \in applied

NetInv == IsABag(net) /\ \A m \in InFlight : Routed(m) /\ Evidence(m)

(* A map of replies holds pre_committed for at most one participant, and   *)
(* then it has a key for every participant.                                *)
AtMostOnePreCommitted(r) ==
    \A p, q \in Participants :
        r[p] = "pre_committed" =>
            /\ r[q] = "pre_committed" => p = q
            /\ r[q] # "absent"

RepliesInv ==
    /\ replies \in [Node -> [Participants -> Reply]]
    /\ AtMostOnePreCommitted(replies[Coord])
    /\ st[Coord] = "phase2" => replies[Coord] = CleanReplies

LeaderInv ==
    /\ leader \in [Node -> Node \cup {None}]
    /\ \A n \in Node : leader[n] \in {None, Coord}

PhaseInv ==
    /\ st \in [Node -> Phase \cup {"none"}]
    /\ \A p \in Participants : st[p] \in {"phase2", "phase3"} => p \in accepted

OutcomeInv ==
    /\ accepted \subseteq Participants
    /\ applied \subseteq accepted
    /\ applied # {} => ~Many
    /\ announced \in [Node -> SUBSET {"done", "failed"}]
    /\ DoneMeansApplied

RestInv ==
    /\ unconfirmed \in [Node -> BOOLEAN]
    /\ armed \in [Node -> BOOLEAN]
    /\ recoveries \in Nat /\ losses \in Nat /\ crashes \in Nat

IInv == NetInv /\ RepliesInv /\ LeaderInv /\ PhaseInv /\ OutcomeInv /\ RestInv

-----------------------------------------------------------------------------
(***************************************************************************)
(* Messages                                                                *)
(***************************************************************************)

(* Nothing disturbs the messages left over, since applied only grows; the  *)
(* new ones are to be looked at.                                           *)
LEMMA NetStep ==
    ASSUME NetInv, NEW m, NEW S, Replace(m, S), applied \subseteq applied',
           \A x \in S : Routed(x) /\ Evidence(x)'
    PROVE  NetInv'
<1>1. IsABag(net') /\ InFlight' \subseteq InFlight \cup S
  BY ReplaceInFlight DEF NetInv
<1>2. \A x \in InFlight : Routed(x) /\ Evidence(x)'
  BY DEF NetInv, Evidence
<1> QED BY <1>1, <1>2 DEF NetInv, Routed

LEMMA NetSubset ==
    ASSUME NetInv, IsABag(net'), InFlight' \subseteq InFlight, applied \subseteq applied'
    PROVE  NetInv'
BY DEF NetInv, Evidence, Routed

LEMMA NetNoSend ==
    ASSUME NetInv, NEW m, Replace(m, {}), UNCHANGED applied
    PROVE  NetInv'
BY NetStep

LEMMA NetSendAll ==
    ASSUME NetInv, NEW m, NEW t \in FromCoord, SendAll(m, t), m.to = Coord,
           t = "commit" => ~Many, applied \subseteq applied'
    PROVE  NetInv'
<1> DEFINE S == {Wire(t, m.to, p) : p \in Participants}
<1>1. Replace(m, S)
  BY DEF SendAll, ReplySend
<1>2. \A x \in S : Routed(x)
  BY DEF Wire, Routed, Message, FromCoord, ToCoord, ProtocolType, Node
<1>3. \A x \in S : Evidence(x)'
  BY DEF Wire, Evidence, FromCoord, Many
<1> QED BY <1>1, <1>2, <1>3, NetStep

LEMMA NetSendReply ==
    ASSUME NetInv, NEW m \in InFlight, NEW t \in ToCoord \ {"state"}, SendReply(m, t),
           m.from = Coord, m.to \in Participants,
           t = "commited" => ~Many /\ m.to \in applied', applied \subseteq applied'
    PROVE  NetInv'
<1> DEFINE x == Wire(t, m.to, m.from)
<1>1. Replace(m, {x})
  BY DEF SendReply, ReplySend
<1>2. Routed(x)
  BY DEF Wire, Routed, Message, FromCoord, ToCoord, ProtocolType, Node
<1>3. Evidence(x)'
  BY DEF Wire, Evidence, ToCoord, Many
<1> QED BY <1>1, <1>2, <1>3, NetStep

LEMMA NetLocal ==
    ASSUME NetInv, NEW m \in InFlight, NEW t \in LocalType, Replace(m, {Local(t, m.to)}),
           t # "recover_transaction" => m.to = Coord, UNCHANGED applied
    PROVE  NetInv'
<1>1. Routed(Local(t, m.to)) /\ Evidence(Local(t, m.to))'
  BY DEF NetInv, Routed, Evidence, Local, Message, LocalType, SelfCast, FromCoord, ToCoord
<1> QED BY <1>1, NetStep

-----------------------------------------------------------------------------
(***************************************************************************)
(* Quorums                                                                 *)
(***************************************************************************)

(* One pre_committed in a full map of several participants is no quorum.   *)
LEMMA NoQuorum ==
    ASSUME NEW r \in [Participants -> Reply], AtMostOnePreCommitted(r),
           NEW p \in Participants, r[p] # "pre_committed"
    PROVE  ~QuorumOf("pre_committed", r)
<1> DEFINE S == {q \in Participants : r[q] = "pre_committed"}
           K == {q \in Participants : r[q] # "absent"}
<1>1. IsFiniteSet(S) /\ IsFiniteSet(K) /\ Cardinality(S) \in Nat /\ Cardinality(K) \in Nat
  BY FS_Subset, FS_CardinalityType, ParticipantsAssumption
<1>2. CASE S = {}
  <2>1. Cardinality(S) = 0
    BY <1>2, FS_EmptySet
  <2> QED BY <1>1, <2>1 DEF QuorumOf
<1>3. CASE S # {}
  <2>1. PICK q \in Participants : r[q] = "pre_committed"
    BY <1>3
  <2>2. S = {q}
    BY <2>1 DEF AtMostOnePreCommitted
  <2>3. Cardinality(S) = 1
    BY <2>2, FS_Singleton
  <2>4. {p, q} \subseteq K
    BY <2>1 DEF AtMostOnePreCommitted
  <2>5. Cardinality({p, q}) = 2
    <3>1. IsFiniteSet({q}) /\ Cardinality({q}) = 1
      BY FS_Singleton
    <3>2. p \notin {q}
      BY <2>1
    <3>3. Cardinality({q} \cup {p}) = 2
      BY <3>1, <3>2, FS_AddElement
    <3>4. {p, q} = {q} \cup {p}
      OBVIOUS
    <3> QED BY <3>3, <3>4
  <2>6. Cardinality(K) >= 2
    BY <1>1, <2>4, <2>5, FS_Subset
  <2> QED BY <1>1, <2>3, <2>6 DEF QuorumOf
<1> QED BY <1>2, <1>3

(* A participant's state is no decision of its own: when it is added to    *)
(* the replies of a recovery, the decision is to abort.                    *)
LEMMA DecisionAborts ==
    ASSUME NEW r \in [Participants -> Reply], AtMostOnePreCommitted(r),
           NEW p \in Participants, r[p] # "pre_committed", NEW q3 \in BOOLEAN
    PROVE  MakeDecision(r, q3) \in {"abort", "block"}
<1>1. ~HasReply("committed", r)
  BY DEF HasReply, Reply, Phase
<1>2. ~QuorumOf("pre_committed", r)
  BY NoQuorum
<1>3. ~QuorumOf("pre_aborted", r)
  <2>1. {q \in Participants : r[q] = "pre_aborted"} = {}
    BY DEF Reply, Phase
  <2>2. Cardinality({q \in Participants : r[q] = "pre_aborted"}) = 0
    BY <2>1, FS_EmptySet
  <2>3. Cardinality({q \in Participants : r[q] # "absent"}) \in Nat
    BY FS_Subset, FS_CardinalityType, ParticipantsAssumption
  <2> QED BY <2>2, <2>3 DEF QuorumOf
<1> QED BY <1>1, <1>2, <1>3 DEF MakeDecision

-----------------------------------------------------------------------------
(***************************************************************************)
(* Every action preserves the invariant.                                   *)
(***************************************************************************)

(* The invariant holds when the coordinator's process is started.          *)
LEMMA InitIInv == Init => IInv
<1> SUFFICES ASSUME Init PROVE IInv
  OBVIOUS
<1> USE DEF Init
<1>1. NetInv
  <2>1. IsABag(net) /\ InFlight = {Local("activate", Coord)}
    BY DEF IsABag, SetToBag, InFlight, BagToSet
  <2> QED BY <2>1 DEF NetInv, Routed, Evidence, Local, Message, LocalType, SelfCast,
                      FromCoord, ToCoord, Node
<1>2. RepliesInv
  BY DEF RepliesInv, NoReplies, Reply, AtMostOnePreCommitted, Node
<1>3. LeaderInv
  BY DEF LeaderInv
<1>4. PhaseInv
  BY ParticipantsAssumption DEF PhaseInv, Phase, Node
<1>5. OutcomeInv
  BY DEF OutcomeInv, DoneMeansApplied
<1>6. RestInv
  BY DEF RestInv
<1> QED BY <1>1, <1>2, <1>3, <1>4, <1>5, <1>6 DEF IInv

(* A stutter.                                                              *)
LEMMA StutterIInv == IInv /\ UNCHANGED vars => IInv'
BY DEF IInv, vars, proc, timer, history, bounds, NetInv, InFlight, Routed, Evidence,
       RepliesInv, AtMostOnePreCommitted, LeaderInv, PhaseInv, OutcomeInv,
       DoneMeansApplied, RestInv

(* The parts an action does not touch.                                     *)
LEMMA KeepReplies ==
    ASSUME RepliesInv, UNCHANGED replies, st'[Coord] = "phase2" => st[Coord] = "phase2"
    PROVE  RepliesInv'
BY DEF RepliesInv, AtMostOnePreCommitted

LEMMA KeepLeader == LeaderInv /\ UNCHANGED leader => LeaderInv'
BY DEF LeaderInv

LEMMA KeepOutcome == OutcomeInv /\ UNCHANGED history => OutcomeInv'
BY DEF OutcomeInv, DoneMeansApplied, history

LEMMA KeepPhases == PhaseInv /\ UNCHANGED <<st, accepted>> => PhaseInv'
BY DEF PhaseInv

(* A process goes to a phase that needs no vote.                           *)
LEMMA GotoPhase ==
    ASSUME PhaseInv, NEW n \in Node, NEW s \in Phase \cup {"none"}, Goto(n, s),
           UNCHANGED accepted,
           n \in Participants /\ s \in {"phase2", "phase3"} => n \in accepted
    PROVE  PhaseInv'
BY DEF PhaseInv, Goto

(* The replies of one process become r.                                    *)
LEMMA SetReplies ==
    ASSUME RepliesInv, NEW n \in Node, NEW r \in [Participants -> Reply],
           replies' = [replies EXCEPT ![n] = r],
           n = Coord => AtMostOnePreCommitted(r),
           st'[Coord] = "phase2" =>
             (n = Coord /\ r = CleanReplies) \/ (n # Coord /\ st[Coord] = "phase2")
    PROVE  RepliesInv'
BY DEF RepliesInv, AtMostOnePreCommitted, Node

LEMMA FreshReplies ==
    /\ CleanReplies \in [Participants -> Reply] /\ AtMostOnePreCommitted(CleanReplies)
    /\ NoReplies \in [Participants -> Reply] /\ AtMostOnePreCommitted(NoReplies)
BY DEF CleanReplies, NoReplies, Reply, AtMostOnePreCommitted

(* A reply that is not pre_committed, put into the coordinator's map.      *)
LEMMA AddedReply ==
    ASSUME RepliesInv, NEW m, m.to = Coord, NEW v \in Reply \ {"pre_committed", "absent"}
    PROVE  /\ AddReply(m, v) \in [Participants -> Reply]
           /\ AtMostOnePreCommitted(AddReply(m, v))
           /\ m.from \in Participants => AddReply(m, v)[m.from] = v
BY DEF RepliesInv, AtMostOnePreCommitted, AddReply, Node

(* What a message says of the node that handles it.                        *)
LEMMA Delivered ==
    ASSUME NetInv, NEW m \in InFlight
    PROVE  Routed(m) /\ Evidence(m) /\ m.to \in Node
BY DEF NetInv, Routed, Message

(* recover() leaves everything but the phase and the mailbox alone.        *)
LEMMA RecoverIInv ==
    ASSUME IInv, NEW m \in InFlight, Recover(m)
    PROVE  IInv'
<1> USE DEF IInv, Recover
<1>1. m.to \in Node
  BY Delivered
<1>2. NetInv'
  BY NetLocal DEF LocalType, SelfCast, history
<1>3. RepliesInv'
  BY KeepReplies DEF Goto, RepliesInv, PhaseInv, Node
<1>4. PhaseInv'
  BY <1>1, GotoPhase DEF Phase, history
<1>5. LeaderInv' /\ OutcomeInv'
  BY KeepLeader, KeepOutcome
<1>6. RestInv'
  BY DEF RestInv, timer
<1> QED BY <1>2, <1>3, <1>4, <1>5, <1>6

LEMMA ActivateIInv ==
    ASSUME IInv, NEW m \in InFlight, Activate(m)
    PROVE  IInv'
<1> USE DEF IInv, Activate
<1>1. Routed(m) /\ m.to = Coord
  BY Delivered DEF Handle, Routed
<1>2. NetInv'
  BY <1>1, NetSendAll DEF FromCoord, history
<1>3. RepliesInv'
  BY <1>1, SetReplies, FreshReplies DEF Node, RepliesInv
<1>4. LeaderInv'
  BY <1>1 DEF LeaderInv, Node
<1>5. PhaseInv' /\ OutcomeInv'
  BY KeepPhases, KeepOutcome DEF history
<1>6. RestInv'
  BY DEF RestInv, SendAll, ReplySend, bounds
<1> QED BY <1>2, <1>3, <1>4, <1>5, <1>6

LEMMA TransactionIInv ==
    ASSUME IInv, NEW m \in InFlight, Transaction(m)
    PROVE  IInv'
<1> USE DEF IInv, Transaction
<1>1. m.from = Coord /\ m.to \in Participants /\ m.to # Coord
  BY Delivered, ParticipantsAssumption DEF Handle, Routed, FromCoord
<1>2. NetInv'
  BY <1>1, NetSendReply DEF ToCoord
<1>3. RepliesInv'
  BY <1>1, KeepReplies DEF Goto, PhaseInv, Node
<1>4. LeaderInv'
  BY <1>1 DEF LeaderInv, Node
<1>5. PhaseInv'
  <2>1. m.to \in Node /\ Node = {Coord} \cup Participants
    BY <1>1 DEF Node
  <2>2. st' \in [Node -> Phase \cup {"none"}]
    BY <2>1 DEF PhaseInv, Goto, Phase
  <2>3. \A p \in Participants : st'[p] \in {"phase2", "phase3"} => p \in accepted'
    BY <2>1 DEF PhaseInv, Goto
  <2> QED BY <2>2, <2>3 DEF PhaseInv
<1>6. OutcomeInv'
  BY <1>1 DEF OutcomeInv, DoneMeansApplied
<1>7. RestInv'
  BY DEF RestInv, SendReply, ReplySend, bounds
<1> QED BY <1>2, <1>3, <1>4, <1>5, <1>6, <1>7

LEMMA YesIInv ==
    ASSUME IInv, NEW m \in InFlight, Yes(m)
    PROVE  IInv'
<1> USE DEF IInv, Yes
<1> DEFINE r == AddReply(m, "yes")
<1>1. m.to = Coord /\ m.from \in Participants /\ m.to \in Node
  BY Delivered DEF Handle, Routed, ToCoord
<1>2. r \in [Participants -> Reply] /\ AtMostOnePreCommitted(r)
  BY <1>1, AddedReply DEF Reply
<1> HIDE DEF r
<1>3. LeaderInv' /\ OutcomeInv'
  BY KeepLeader, KeepOutcome
<1>4. CASE AllReplied(r)
  <2>1. /\ SendAll(m, "pre_commit") /\ Goto(m.to, "phase2")
        /\ replies' = [replies EXCEPT ![m.to] = CleanReplies]
    BY <1>4 DEF r
  <2>2. NetInv'
    BY <1>1, <2>1, NetSendAll DEF FromCoord, history
  <2>3. RepliesInv'
    BY <1>1, <2>1, SetReplies, FreshReplies
  <2>4. PhaseInv'
    BY <1>1, <2>1, GotoPhase, ParticipantsAssumption DEF Phase, history
  <2>5. RestInv'
    BY <2>1 DEF RestInv, SendAll, ReplySend, bounds
  <2> QED BY <1>3, <2>2, <2>3, <2>4, <2>5
<1>5. CASE ~AllReplied(r)
  <2>1. NoSend(m) /\ replies' = [replies EXCEPT ![m.to] = r] /\ UNCHANGED st
    BY <1>5 DEF r
  <2>2. NetInv'
    BY <2>1, NetNoSend DEF NoSend, history
  <2>3. RepliesInv'
    BY <1>1, <1>2, <2>1, SetReplies DEF Handle
  <2>4. PhaseInv'
    BY <2>1, KeepPhases DEF history
  <2>5. RestInv'
    BY <2>1 DEF RestInv, NoSend, timer, bounds
  <2> QED BY <1>3, <2>2, <2>3, <2>4, <2>5
<1> QED BY <1>4, <1>5

LEMMA PreCommitIInv ==
    ASSUME IInv, NEW m \in InFlight, PreCommit(m)
    PROVE  IInv'
<1>1. CASE leader[m.to] # m.from
  BY <1>1, RecoverIInv DEF PreCommit
<1>2. CASE leader[m.to] = m.from
  <2> USE DEF IInv
  <2>0. /\ Handle(m, "pre_commit", "phase2") /\ SendReply(m, "pre_committed")
        /\ Goto(m.to, "phase3") /\ UNCHANGED <<leader, replies, history, bounds>>
    BY <1>2 DEF PreCommit
  <2>1. m.from = Coord /\ m.to \in Participants /\ m.to # Coord /\ m.to \in Node
    BY <2>0, Delivered, ParticipantsAssumption DEF Handle, Routed, FromCoord
  <2>2. NetInv'
    BY <2>0, <2>1, NetSendReply DEF ToCoord, history
  <2>3. RepliesInv'
    BY <2>0, <2>1, KeepReplies DEF Goto, PhaseInv, Node
  <2>4. m.to \in accepted
    BY <2>0, <2>1 DEF PhaseInv, Handle
  <2>5. PhaseInv'
    BY <2>0, <2>1, <2>4, GotoPhase DEF Phase, history
  <2>6. LeaderInv' /\ OutcomeInv'
    BY <2>0, KeepLeader, KeepOutcome
  <2>7. RestInv'
    BY <2>0 DEF RestInv, SendReply, ReplySend, bounds
  <2> QED BY <2>2, <2>3, <2>5, <2>6, <2>7
<1> QED BY <1>1, <1>2

LEMMA PreCommittedIInv ==
    ASSUME IInv, NEW m \in InFlight, PreCommitted(m)
    PROVE  IInv'
<1> USE DEF IInv
<1> DEFINE r == AddReply(m, "pre_committed")
<1>1. m.to = Coord /\ m.from \in Participants /\ m.to \in Node
  BY Delivered DEF PreCommitted, Handle, Routed, ToCoord
<1>2. replies[m.to] = CleanReplies
  BY <1>1 DEF RepliesInv, PreCommitted, Handle
<1>3. r = [p \in Participants |-> IF p = m.from THEN "pre_committed" ELSE "no"]
  BY <1>1, <1>2 DEF AddReply, CleanReplies
<1>4. r \in [Participants -> Reply] /\ AtMostOnePreCommitted(r)
  BY <1>3 DEF Reply, AtMostOnePreCommitted
<1>5. Many => ~QuorumOf("pre_committed", r)
  <2>1. SUFFICES ASSUME Many PROVE ~QuorumOf("pre_committed", r)
    OBVIOUS
  <2>2. PICK p \in Participants : p # m.from
    BY <2>1 DEF Many
  <2>3. r[p] # "pre_committed"
    BY <1>3, <2>2
  <2> HIDE DEF r
  <2> QED BY <1>4, <2>3, NoQuorum
<1> HIDE DEF r
<1>6. /\ Goto(m.to, "phase3")
      /\ UNCHANGED <<leader, history, bounds>>
  BY DEF PreCommitted
<1>7. PhaseInv'
  BY <1>1, <1>6, GotoPhase, ParticipantsAssumption DEF Phase, history
<1>8. LeaderInv' /\ OutcomeInv'
  BY <1>6, KeepLeader, KeepOutcome
<1>9. st'[Coord] # "phase2"
  BY <1>1, <1>6 DEF Goto, PhaseInv
<1>10. CASE QuorumOf("pre_committed", r)
  <2>1. SendAll(m, "commit") /\ replies' = [replies EXCEPT ![m.to] = CleanReplies]
    BY <1>10 DEF PreCommitted, r
  <2>2. NetInv'
    BY <1>1, <1>5, <1>6, <1>10, <2>1, NetSendAll DEF FromCoord, history
  <2>3. RepliesInv'
    BY <1>1, <1>9, <2>1, SetReplies, FreshReplies
  <2>4. RestInv'
    BY <1>6, <2>1 DEF RestInv, SendAll, ReplySend, bounds
  <2> QED BY <1>7, <1>8, <2>2, <2>3, <2>4
<1>11. CASE ~QuorumOf("pre_committed", r)
  <2>1. /\ IF AllReplied(r) THEN SendAll(m, "abort") ELSE NoSend(m)
        /\ replies' = [replies EXCEPT ![m.to] = r]
    BY <1>11 DEF PreCommitted, r
  <2>2. NetInv'
    <3>1. CASE AllReplied(r)
      BY <1>1, <1>6, <2>1, <3>1, NetSendAll DEF FromCoord, history
    <3>2. CASE ~AllReplied(r)
      BY <1>6, <2>1, <3>2, NetNoSend DEF NoSend, history
    <3> QED BY <3>1, <3>2
  <2>3. RepliesInv'
    BY <1>1, <1>4, <1>9, <2>1, SetReplies
  <2>4. RestInv'
    BY <1>6, <2>1 DEF RestInv, SendAll, ReplySend, NoSend, timer, bounds
  <2> QED BY <1>7, <1>8, <2>2, <2>3, <2>4
<1> QED BY <1>10, <1>11

LEMMA ApplyCommitIInv ==
    ASSUME IInv, NEW m \in InFlight, ApplyCommit(m)
    PROVE  IInv'
<1>1. CASE leader[m.to] # m.from
  BY <1>1, RecoverIInv DEF ApplyCommit
<1>2. CASE leader[m.to] = m.from
  <2> USE DEF IInv
  <2>0. /\ Handle(m, "commit", "phase3") /\ SendReply(m, "commited")
        /\ applied' = applied \cup {m.to}
        /\ UNCHANGED <<proc, announced, accepted, bounds>>
    BY <1>2 DEF ApplyCommit
  <2>1. m.from = Coord /\ m.to \in Participants /\ ~Many
    BY <2>0, Delivered DEF Handle, Routed, FromCoord, Evidence
  <2>2. NetInv'
    BY <2>0, <2>1, NetSendReply DEF ToCoord
  <2>3. m.to \in accepted
    BY <2>0, <2>1 DEF PhaseInv, Handle
  <2>4. OutcomeInv'
    BY <2>0, <2>1, <2>3 DEF OutcomeInv, DoneMeansApplied
  <2>5. RepliesInv' /\ LeaderInv' /\ PhaseInv'
    BY <2>0, KeepReplies, KeepLeader, KeepPhases DEF proc
  <2>6. RestInv'
    BY <2>0 DEF RestInv, SendReply, ReplySend, bounds
  <2> QED BY <2>2, <2>4, <2>5, <2>6
<1> QED BY <1>1, <1>2

LEMMA CommitedIInv ==
    ASSUME IInv, NEW m \in InFlight, Commited(m)
    PROVE  IInv'
<1> USE DEF IInv
<1> DEFINE r == AddReply(m, "yes")
<1>1. m.to = Coord /\ m.from \in Participants /\ ~Many /\ m.from \in applied
  BY Delivered DEF Commited, Handle, Routed, ToCoord, Evidence
<1>2. r \in [Participants -> Reply] /\ AtMostOnePreCommitted(r)
  BY <1>1, AddedReply DEF Reply
<1> HIDE DEF r
<1>3. /\ replies' = [replies EXCEPT ![m.to] = r]
      /\ UNCHANGED <<st, leader, timer, accepted, applied, bounds>>
  BY DEF Commited, r
<1>4. \/ Replace(m, {Local("wm_commit_done", m.to)}) /\ Halt(m.to, "done")
      \/ Replace(m, {}) /\ UNCHANGED announced
  BY DEF Commited
<1>5. NetInv'
  BY <1>1, <1>3, <1>4, NetLocal, NetNoSend DEF LocalType
<1>6. RepliesInv'
  BY <1>1, <1>2, <1>3, SetReplies DEF Commited, Handle, Node
<1>7. applied = Participants
  BY <1>1 DEF Many, OutcomeInv
<1>8. OutcomeInv'
  <2>1. announced' \in [Node -> SUBSET {"done", "failed"}]
    BY <1>4 DEF Halt, OutcomeInv
  <2> QED BY <1>3, <1>7, <2>1 DEF OutcomeInv, DoneMeansApplied
<1>9. LeaderInv' /\ PhaseInv' /\ RestInv'
  BY <1>3, KeepLeader, KeepPhases DEF RestInv, timer, bounds
<1> QED BY <1>5, <1>6, <1>8, <1>9

LEMMA AbortedIInv ==
    ASSUME IInv, NEW m \in InFlight, Aborted(m)
    PROVE  IInv'
<1> USE DEF IInv
<1> DEFINE r == AddReply(m, "aborted")
<1>1. m.to = Coord /\ m.from \in Participants
  BY Delivered DEF Aborted, Handle, Routed, ToCoord
<1>2. r \in [Participants -> Reply] /\ AtMostOnePreCommitted(r)
  BY <1>1, AddedReply DEF Reply
<1> HIDE DEF r
<1>3. /\ replies' = [replies EXCEPT ![m.to] = r]
      /\ NoSend(m)
      /\ UNCHANGED <<st, leader, accepted, applied, bounds>>
  BY DEF Aborted, r
<1>4. Halt(m.to, "failed") \/ UNCHANGED announced
  BY DEF Aborted
<1>5. NetInv'
  BY <1>3, NetNoSend DEF NoSend
<1>6. RepliesInv'
  BY <1>1, <1>2, <1>3, SetReplies DEF Aborted, Handle, Node
<1>7. OutcomeInv'
  BY <1>3, <1>4 DEF Halt, OutcomeInv, DoneMeansApplied
<1>8. LeaderInv' /\ PhaseInv' /\ RestInv'
  BY <1>3, KeepLeader, KeepPhases DEF RestInv, NoSend, timer, bounds
<1> QED BY <1>5, <1>6, <1>7, <1>8

LEMMA RecoverTransactionIInv ==
    ASSUME IInv, NEW m \in InFlight, RecoverTransaction(m)
    PROVE  IInv'
<1> USE DEF IInv, RecoverTransaction
<1>1. m.to \in Node
  BY Delivered
<1>2. leader[m.to] = m.to => m.to = Coord
  BY <1>1, ParticipantsAssumption DEF LeaderInv
<1>3. \/ m.to = Coord /\ Replace(m, {Local("collect_lasts", m.to)})
      \/ Replace(m, {})
  BY <1>2
<1>4. NetInv'
  BY <1>3, NetLocal, NetNoSend DEF LocalType, SelfCast, history
<1>5. RepliesInv' /\ LeaderInv' /\ PhaseInv' /\ OutcomeInv' /\ RestInv'
  BY KeepReplies, KeepLeader, KeepPhases, KeepOutcome DEF proc, history, RestInv, timer, bounds
<1> QED BY <1>4, <1>5

LEMMA CollectLastsIInv ==
    ASSUME IInv, NEW m \in InFlight, CollectLasts(m)
    PROVE  IInv'
<1> USE DEF IInv, CollectLasts
<1>1. m.to = Coord
  BY Delivered DEF Handle, Routed
<1>2. NetInv'
  BY <1>1, NetSendAll DEF FromCoord, history
<1>3. RepliesInv'
  BY <1>1, SetReplies, FreshReplies DEF Handle, Node
<1>4. LeaderInv' /\ PhaseInv' /\ OutcomeInv' /\ RestInv'
  BY KeepLeader, KeepPhases, KeepOutcome DEF history, RestInv, SendAll, ReplySend, bounds
<1> QED BY <1>2, <1>3, <1>4

LEMMA LastsIInv ==
    ASSUME IInv, NEW m \in InFlight, Lasts(m)
    PROVE  IInv'
<1> USE DEF IInv
<1> DEFINE r == AddReply(m, "replied")
<1>1. m.to = Coord /\ m.from \in Participants
  BY Delivered DEF Lasts, Handle, Routed, ToCoord
<1>2. r \in [Participants -> Reply] /\ AtMostOnePreCommitted(r)
  BY <1>1, AddedReply DEF Reply
<1> HIDE DEF r
<1>3. \/ /\ SendAll(m, "new_leader")
         /\ replies' = [replies EXCEPT ![m.to] = CleanReplies]
      \/ /\ NoSend(m)
         /\ replies' = [replies EXCEPT ![m.to] = r]
  BY DEF Lasts, r
<1>4. UNCHANGED <<st, leader, history, bounds>> /\ st[Coord] = "recovering"
  BY <1>1 DEF Lasts, Handle
<1>5. NetInv'
  BY <1>1, <1>3, <1>4, NetSendAll, NetNoSend DEF FromCoord, NoSend, history
<1>6. RepliesInv'
  BY <1>1, <1>2, <1>3, <1>4, SetReplies, FreshReplies DEF Node
<1>7. LeaderInv' /\ PhaseInv' /\ OutcomeInv'
  BY <1>4, KeepLeader, KeepPhases, KeepOutcome DEF history
<1>8. RestInv'
  BY <1>3, <1>4 DEF RestInv, SendAll, ReplySend, NoSend, timer, bounds
<1> QED BY <1>5, <1>6, <1>7, <1>8

(* With the replies of a recovery complete, the decision is abort.         *)
LEMMA RecoveryDecides ==
    ASSUME IInv, NEW m \in InFlight, m.type = "state", NEW q3 \in BOOLEAN
    PROVE  MakeDecision(AddReply(m, m.st), q3) \in {"abort", "block"}
<1> USE DEF IInv
<1>1. m.to = Coord /\ m.from \in Participants /\ m.st \in Phase
  BY Delivered DEF Routed, ToCoord
<1>2. m.st \in Reply \ {"pre_committed", "absent"}
  BY <1>1 DEF Reply, Phase
<1> DEFINE r == AddReply(m, m.st)
<1>3. r \in [Participants -> Reply] /\ AtMostOnePreCommitted(r) /\ r[m.from] = m.st
  BY <1>1, <1>2, AddedReply
<1>4. r[m.from] # "pre_committed"
  BY <1>2, <1>3
<1> HIDE DEF r
<1>5. MakeDecision(r, q3) \in {"abort", "block"}
  BY <1>1, <1>3, <1>4, DecisionAborts
<1> QED BY <1>5 DEF r

LEMMA StateIInv ==
    ASSUME IInv, NEW m \in InFlight, State(m)
    PROVE  IInv'
<1> USE DEF IInv
<1> DEFINE r == AddReply(m, m.st)
<1>1. m.to = Coord /\ m.from \in Participants /\ m.st \in Phase /\ m.to \in Node
  BY Delivered DEF State, Handle, Routed, ToCoord
<1>2. r \in [Participants -> Reply] /\ AtMostOnePreCommitted(r)
  BY <1>1, AddedReply DEF Reply, Phase
<1>3. \A q3 \in BOOLEAN : MakeDecision(r, q3) \in {"abort", "block"}
  BY RecoveryDecides DEF State, Handle
<1> HIDE DEF r
<1>4. /\ replies' = [replies EXCEPT ![m.to] = r]
      /\ UNCHANGED <<leader, history, bounds>>
  BY DEF State, r
<1>5. \/ SendAll(m, "abort") /\ Goto(m.to, "phase3")
      \/ NoSend(m) /\ UNCHANGED st
  <2>1. CASE AllReplied(r)
    <3>1. PICK q3 \in BOOLEAN : /\ SendAll(m, DecisionMessage(MakeDecision(r, q3)))
                                /\ Goto(m.to, DecisionPhase(MakeDecision(r, q3)))
      BY <2>1 DEF State, r
    <3>2. MakeDecision(r, q3) \in {"abort", "block"}
      BY <1>3
    <3> QED BY <3>1, <3>2 DEF DecisionMessage, DecisionPhase
  <2>2. CASE ~AllReplied(r)
    BY <2>2 DEF State, r
  <2> QED BY <2>1, <2>2
<1>6. NetInv'
  BY <1>1, <1>4, <1>5, NetSendAll, NetNoSend DEF FromCoord, NoSend, history
<1>7. st'[Coord] # "phase2"
  BY <1>1, <1>5 DEF Goto, PhaseInv, State, Handle
<1>8. RepliesInv'
  BY <1>1, <1>2, <1>4, <1>7, SetReplies
<1>9. PhaseInv'
  BY <1>1, <1>4, <1>5, GotoPhase, KeepPhases, ParticipantsAssumption DEF Phase, history
<1>10. LeaderInv' /\ OutcomeInv'
  BY <1>4, KeepLeader, KeepOutcome
<1>11. RestInv'
  BY <1>4, <1>5 DEF RestInv, SendAll, ReplySend, NoSend, timer, bounds
<1> QED BY <1>6, <1>8, <1>9, <1>10, <1>11

LEMMA RequestLastsIInv ==
    ASSUME IInv, NEW m \in InFlight, RequestLasts(m)
    PROVE  IInv'
<1> USE DEF IInv, RequestLasts
<1>1. m.from = Coord /\ m.to \in Participants
  BY Delivered DEF Alive, Routed, FromCoord
<1>2. NetInv'
  BY <1>1, NetSendReply DEF ToCoord, history
<1>3. RepliesInv' /\ LeaderInv' /\ PhaseInv' /\ OutcomeInv'
  BY KeepReplies, KeepLeader, KeepPhases, KeepOutcome DEF proc, history
<1>4. RestInv'
  BY DEF RestInv, SendReply, ReplySend, bounds
<1> QED BY <1>2, <1>3, <1>4

LEMMA NewLeaderIInv ==
    ASSUME IInv, NEW m \in InFlight, NewLeader(m)
    PROVE  IInv'
<1> USE DEF IInv, NewLeader
<1>1. m.from = Coord /\ m.to \in Participants /\ m.to \in Node
  BY Delivered DEF Alive, Routed, FromCoord
<1> DEFINE x == [Wire("state", m.to, m.from) EXCEPT !.st = st[m.to]]
<1>2. st[m.to] \in Phase
  BY <1>1 DEF Alive, PhaseInv
<1>3. x = [type |-> "state", from |-> m.to, to |-> m.from, at |-> "wire", st |-> st[m.to]]
  BY DEF Wire
<1>4. Routed(x) /\ Evidence(x)'
  BY <1>1, <1>2, <1>3 DEF Routed, Evidence, Message, ProtocolType, FromCoord, ToCoord, Node
<1>5. NetInv'
  BY <1>4, NetStep DEF ReplySend, history
<1>6. LeaderInv'
  BY <1>1 DEF LeaderInv, Node
<1>7. RepliesInv' /\ PhaseInv' /\ OutcomeInv'
  BY KeepReplies, KeepPhases, KeepOutcome DEF history
<1>8. RestInv'
  BY DEF RestInv, ReplySend, bounds
<1> QED BY <1>5, <1>6, <1>7, <1>8

LEMMA AbortIInv ==
    ASSUME IInv, NEW m \in InFlight, Abort(m)
    PROVE  IInv'
<1> USE DEF IInv, Abort
<1>1. m.from = Coord /\ m.to \in Participants
  BY Delivered DEF Alive, Routed, FromCoord
<1>2. NetInv'
  BY <1>1, NetSendReply DEF ToCoord
<1>3. RepliesInv' /\ LeaderInv' /\ PhaseInv'
  BY KeepReplies, KeepLeader, KeepPhases DEF proc
<1>4. OutcomeInv'
  BY DEF Halt, OutcomeInv, DoneMeansApplied
<1>5. RestInv'
  BY DEF RestInv, SendReply, ReplySend, bounds
<1> QED BY <1>2, <1>3, <1>4, <1>5

LEMMA IgnoreLateIInv ==
    ASSUME IInv, NEW m \in InFlight, IgnoreLate(m)
    PROVE  IInv'
<1> USE DEF IInv, IgnoreLate
<1>1. NetInv'
  BY NetNoSend DEF NoSend, history
<1>2. RepliesInv' /\ LeaderInv' /\ PhaseInv' /\ OutcomeInv'
  BY KeepReplies, KeepLeader, KeepPhases, KeepOutcome DEF proc, history
<1>3. RestInv'
  BY DEF RestInv, NoSend, timer, bounds
<1> QED BY <1>1, <1>2, <1>3

(* Timers.                                                                 *)
LEMMA SendConfirmedIInv ==
    ASSUME IInv, NEW n \in Node, SendConfirmed(n)
    PROVE  IInv'
<1> USE DEF IInv, SendConfirmed
<1>1. NetInv'
  BY NetSubset DEF NetInv, InFlight, history
<1>2. RepliesInv' /\ LeaderInv' /\ PhaseInv' /\ OutcomeInv'
  BY KeepReplies, KeepLeader, KeepPhases, KeepOutcome DEF proc, history
<1>3. RestInv'
  BY DEF RestInv, bounds
<1> QED BY <1>1, <1>2, <1>3

LEMMA CheckTransactionIInv ==
    ASSUME IInv, NEW n \in Node, CheckTransaction(n)
    PROVE  IInv'
<1> USE DEF IInv, CheckTransaction
<1> DEFINE x == Local("recover_transaction", n)
<1>1. IsABag(net') /\ InFlight' = InFlight \cup {x}
  BY AddSet DEF NetInv, InFlight
<1>2. Routed(x) /\ Evidence(x)'
  BY DEF Routed, Evidence, Local, Message, LocalType, SelfCast, FromCoord, ToCoord
<1>3. NetInv'
  BY <1>1, <1>2 DEF NetInv, Routed, Evidence, history
<1>4. RepliesInv'
  BY KeepReplies DEF Goto, PhaseInv, Node
<1>5. PhaseInv'
  BY GotoPhase DEF Phase, history
<1>6. LeaderInv' /\ OutcomeInv'
  BY KeepLeader, KeepOutcome
<1>7. RestInv'
  BY DEF RestInv
<1> QED BY <1>3, <1>4, <1>5, <1>6, <1>7

(* The factory.                                                            *)
LEMMA QueueRequestIInv ==
    ASSUME IInv, NEW m \in InFlight, QueueRequest(m)
    PROVE  IInv'
<1> USE DEF IInv, QueueRequest
<1> DEFINE S == {[m EXCEPT !.at = "node"], Wire("get_task_nodes", m.to, m.from)}
<1>1. Routed(m) /\ Evidence(m) /\ m \in Message
  BY Delivered DEF Routed
<1>2. Routed([m EXCEPT !.at = "node"]) /\ Evidence([m EXCEPT !.at = "node"])'
  BY <1>1 DEF Routed, Evidence, Message, history
<1>3. LET x == Wire("get_task_nodes", m.to, m.from) IN Routed(x) /\ Evidence(x)'
  BY <1>1 DEF Routed, Evidence, Message, Wire, FactoryType, FromCoord, ToCoord
<1>4. NetInv'
  BY <1>2, <1>3, NetStep DEF history
<1>5. RepliesInv' /\ LeaderInv' /\ PhaseInv' /\ OutcomeInv' /\ RestInv'
  BY KeepReplies, KeepLeader, KeepPhases, KeepOutcome DEF proc, history, RestInv, timer, bounds
<1> QED BY <1>4, <1>5

LEMMA GetTaskNodesIInv ==
    ASSUME IInv, NEW m \in InFlight, GetTaskNodes(m)
    PROVE  IInv'
<1> USE DEF IInv, GetTaskNodes
<1>1. m \in Message
  BY Delivered DEF Routed
<1>2. LET x == Wire("task_nodes", m.to, m.from) IN Routed(x) /\ Evidence(x)'
  BY <1>1 DEF Routed, Evidence, Message, Wire, FactoryType, FromCoord, ToCoord
<1>3. NetInv'
  BY <1>2, NetStep DEF history
<1>4. RepliesInv' /\ LeaderInv' /\ PhaseInv' /\ OutcomeInv' /\ RestInv'
  BY KeepReplies, KeepLeader, KeepPhases, KeepOutcome DEF proc, history, RestInv, timer, bounds
<1> QED BY <1>3, <1>4

(* A new process, or none, keeps everything but the messages.              *)
LEMMA NewProcessIInv ==
    ASSUME IInv, NEW n \in Node, NEW s \in {"phase1", "none"}, NewProcess(n, s),
           UNCHANGED history
    PROVE  /\ RepliesInv' /\ LeaderInv' /\ PhaseInv' /\ OutcomeInv'
           /\ armed' \in [Node -> BOOLEAN]
<1> USE DEF IInv, NewProcess
<1>1. RepliesInv'
  BY SetReplies, FreshReplies DEF Goto, PhaseInv, Node
<1>2. LeaderInv'
  BY DEF LeaderInv
<1>3. PhaseInv'
  BY GotoPhase DEF Phase, history
<1>4. OutcomeInv' /\ armed' \in [Node -> BOOLEAN]
  BY KeepOutcome DEF RestInv
<1> QED BY <1>1, <1>2, <1>3, <1>4

LEMMA TaskNodesIInv ==
    ASSUME IInv, NEW m \in InFlight, TaskNodes(m)
    PROVE  IInv'
<1> USE DEF IInv, TaskNodes
<1> DEFINE W == Without({x \in MailOf(m.to) : x.type \in SelfCast})
<1>1. IsABag(W) /\ BagToSet(W) \subseteq InFlight
  BY WithoutInFlight DEF NetInv
<1> HIDE DEF W
<1>2. IsABag(W (-) SetToBag({m})) /\ BagToSet(W (-) SetToBag({m})) \subseteq BagToSet(W)
  BY <1>1, RemoveOne
<1>3. net' = W (-) SetToBag({m})
  BY DEF W
<1>4. NetInv'
  BY <1>1, <1>2, <1>3, NetSubset DEF InFlight, history
<1>5. m.to \in Node
  BY Delivered
<1>6. RestInv'
  BY <1>5, NewProcessIInv DEF RestInv, bounds
<1> QED BY <1>4, <1>5, <1>6, NewProcessIInv

LEMMA TerminateTaskIInv ==
    ASSUME IInv, NEW m \in InFlight, TerminateTask(m)
    PROVE  IInv'
<1> USE DEF IInv, TerminateTask
<1>1. IsABag(net') /\ InFlight' \subseteq InFlight
  BY WithoutInFlight DEF NetInv, InFlight
<1>2. NetInv'
  BY <1>1, NetSubset DEF history
<1>3. m.to \in Node
  BY Delivered
<1>4. RestInv'
  BY <1>3, NewProcessIInv DEF RestInv, bounds
<1> QED BY <1>2, <1>3, <1>4, NewProcessIInv

(* The environment.                                                        *)
LEMMA LoseIInv ==
    ASSUME IInv, NEW m \in InFlight, Lose(m)
    PROVE  IInv'
<1> USE DEF IInv, Lose
<1>1. NetInv'
  BY NetNoSend DEF NoSend, history
<1>2. RepliesInv' /\ LeaderInv' /\ PhaseInv' /\ OutcomeInv'
  BY KeepReplies, KeepLeader, KeepPhases, KeepOutcome DEF proc, history
<1>3. RestInv'
  BY DEF RestInv, NoSend, timer
<1> QED BY <1>1, <1>2, <1>3

LEMMA CrashIInv ==
    ASSUME IInv, NEW n \in Node, Crash(n)
    PROVE  IInv'
<1> USE DEF IInv, Crash
<1>1. IsABag(net') /\ InFlight' \subseteq InFlight
  BY WithoutInFlight DEF NetInv, InFlight
<1>2. NetInv'
  BY <1>1, NetSubset DEF history
<1>3. RestInv'
  BY NewProcessIInv DEF RestInv
<1> QED BY <1>2, <1>3, NewProcessIInv

(* Every step preserves the invariant.                                     *)
LEMMA StepIInv == IInv /\ [Next]_vars => IInv'
<1> SUFFICES ASSUME IInv, [Next]_vars PROVE IInv'
  OBVIOUS
<1>1. CASE UNCHANGED vars
  BY <1>1, StutterIInv
<1>2. ASSUME NEW m \in InFlight, Receive(m)
      PROVE  IInv'
  BY <1>2, ActivateIInv, TransactionIInv, YesIInv, PreCommitIInv, PreCommittedIInv,
     ApplyCommitIInv, CommitedIInv, AbortedIInv, RecoverTransactionIInv, CollectLastsIInv,
     LastsIInv, StateIInv, RequestLastsIInv, NewLeaderIInv, AbortIInv, IgnoreLateIInv,
     RecoverIInv, QueueRequestIInv, GetTaskNodesIInv, TaskNodesIInv, TerminateTaskIInv
  DEF Receive, UnknownEvent
<1>3. ASSUME NEW m \in InFlight, Lose(m)
      PROVE  IInv'
  BY <1>3, LoseIInv
<1>4. ASSUME NEW n \in Node, SendConfirmed(n) \/ CheckTransaction(n) \/ Crash(n)
      PROVE  IInv'
  BY <1>4, SendConfirmedIInv, CheckTransactionIInv, CrashIInv
<1> QED BY <1>1, <1>2, <1>3, <1>4 DEF Next

(* The invariant holds in every reachable state.                           *)
THEOREM Invariance == Spec => []IInv
<1>1. Init => IInv
  BY InitIInv
<1>2. IInv /\ [Next]_vars => IInv'
  BY StepIInv
<1> QED BY <1>1, <1>2, PTL DEF Spec

-----------------------------------------------------------------------------
(***************************************************************************)
(* What follows from the invariant.                                        *)
(***************************************************************************)

(* Every process, message and history value stays in its type.             *)
THEOREM TypeCorrect == Spec => []TypeOK
<1>1. IInv => TypeOK
  BY DEF IInv, TypeOK, NetInv, Routed, RepliesInv, LeaderInv, PhaseInv, OutcomeInv, RestInv
<1> QED BY <1>1, Invariance, PTL

(* No participant writes the records before every participant has voted    *)
(* yes, whatever is lost, reordered, restarted or recovered.               *)
THEOREM UnanimousVote == Spec => []ApplyNeedsEveryVote
<1>1. IInv => ApplyNeedsEveryVote
  BY DEF IInv, OutcomeInv, ApplyNeedsEveryVote, Many
<1> QED BY <1>1, Invariance, PTL

(* wm_commit_done is only announced when every participant has the         *)
(* records.                                                                *)
THEOREM DoneIsComplete == Spec => []DoneMeansApplied
<1>1. IInv => DoneMeansApplied
  BY DEF IInv, OutcomeInv
<1> QED BY <1>1, Invariance, PTL

(* Whatever replies it collects, a recovery only ever decides to abort.    *)
THEOREM RecoveryAborts == Spec => []RecoveryOnlyAborts
<1>1. IInv => RecoveryOnlyAborts
  BY RecoveryDecides DEF RecoveryOnlyAborts
<1> QED BY <1>1, Invariance, PTL

(* Only the coordinator sends decisions or starts recovery rounds.         *)
THEOREM SingleDecider == Spec => []DecisionsComeFromCoord
<1>1. IInv => DecisionsComeFromCoord
  BY DEF IInv, NetInv, Routed, FromCoord, DecisionsComeFromCoord
<1> QED BY <1>1, Invariance, PTL

(* With two participants or more the transaction never succeeds: nothing   *)
(* is ever applied, so no done is announced.                               *)
THEOREM ManyNeverApply == Spec => [](Many => applied = {})
<1>1. IInv => (Many => applied = {})
  BY DEF IInv, OutcomeInv
<1> QED BY <1>1, Invariance, PTL

(***************************************************************************)
(* The protocol implements Transaction.                                    *)
(***************************************************************************)

(* Every message handled is a step of Transaction or changes nothing there.*)
LEMMA ReceiveRefines ==
    ASSUME IInv, NEW m \in InFlight, Receive(m)
    PROVE  Outcome!Next \/ UNCHANGED history
<1> USE DEF IInv
<1>1. m.to \in Node /\ Routed(m) /\ Evidence(m)
  BY Delivered
<1>2. CASE Transaction(m)
  <2>1. m.to \in Participants
    BY <1>1, <1>2 DEF Transaction, Handle, Routed, FromCoord
  <2>2. Outcome!Accept(m.to)
    BY <1>2 DEF Transaction, Outcome!Accept
  <2> QED BY <2>1, <2>2 DEF Outcome!Next
<1>3. CASE ApplyCommit(m)
  <2>1. CASE leader[m.to] # m.from
    BY <1>3, <2>1 DEF ApplyCommit, Recover
  <2>2. CASE leader[m.to] = m.from
    <3>1. /\ st[m.to] = "phase3" /\ m.type = "commit"
          /\ applied' = applied \cup {m.to}
          /\ UNCHANGED <<announced, accepted>>
      BY <1>3, <2>2 DEF ApplyCommit, Handle
    <3>2. m.to \in Participants /\ ~Many
      BY <1>1, <3>1 DEF Routed, Evidence, FromCoord
    <3>3. accepted = Participants
      BY <3>1, <3>2 DEF PhaseInv, OutcomeInv, Many
    <3>4. Outcome!Apply(m.to)
      BY <3>1, <3>3 DEF Outcome!Apply
    <3> QED BY <3>2, <3>4 DEF Outcome!Next
  <2> QED BY <2>1, <2>2
<1>4. CASE Commited(m)
  <2>1. /\ m.to = Coord /\ ~Many /\ m.from \in applied /\ m.from \in Participants
        /\ UNCHANGED <<accepted, applied>>
    BY <1>1, <1>4 DEF Commited, Handle, Routed, Evidence, ToCoord
  <2>2. applied = Participants
    BY <2>1 DEF OutcomeInv, Many
  <2>3. Halt(m.to, "done") \/ UNCHANGED announced
    BY <1>4 DEF Commited
  <2> QED BY <2>1, <2>2, <2>3 DEF Halt, Outcome!Next, Outcome!AnnounceDone, history
<1>5. CASE Aborted(m) \/ Abort(m)
  <2>1. UNCHANGED <<accepted, applied>> /\ (Halt(m.to, "failed") \/ UNCHANGED announced)
    BY <1>5 DEF Aborted, Abort
  <2>2. Halt(m.to, "failed") => Outcome!AnnounceFailure(m.to)
    BY <2>1 DEF Halt, Outcome!AnnounceFailure
  <2> QED BY <1>1, <2>1, <2>2 DEF Outcome!Next, Node, history
<1>6. ASSUME ~Transaction(m), ~ApplyCommit(m), ~Commited(m), ~Aborted(m), ~Abort(m)
      PROVE  UNCHANGED history
  <2>1. CASE Yes(m) \/ PreCommit(m) \/ UnknownEvent(m) \/ PreCommitted(m)
    BY <2>1 DEF Yes, PreCommit, UnknownEvent, Recover, PreCommitted
  <2>2. CASE Activate(m) \/ RecoverTransaction(m) \/ CollectLasts(m) \/ Lasts(m) \/ State(m)
    BY <2>2 DEF Activate, RecoverTransaction, CollectLasts, Lasts, State
  <2>3. CASE RequestLasts(m) \/ NewLeader(m) \/ IgnoreLate(m)
    BY <2>3 DEF RequestLasts, NewLeader, IgnoreLate
  <2>4. CASE QueueRequest(m) \/ GetTaskNodes(m) \/ TaskNodes(m) \/ TerminateTask(m)
    BY <2>4 DEF QueueRequest, GetTaskNodes, TaskNodes, TerminateTask
  <2> QED BY <1>6, <2>1, <2>2, <2>3, <2>4 DEF Receive
<1> QED BY <1>2, <1>3, <1>4, <1>5, <1>6

(* The protocol gives its callers what Transaction promises: records are   *)
(* written after a unanimous vote, done is announced by the coordinator    *)
(* and only when every participant has them.                               *)
THEOREM Refinement == Spec => ImplementsTransaction
<1>1. Init => Outcome!Init
  BY DEF Init, Outcome!Init, Node
<1>2. IInv /\ [Next]_vars => [Outcome!Next]_(Outcome!vars)
  <2> SUFFICES ASSUME IInv, [Next]_vars
               PROVE  Outcome!Next \/ UNCHANGED history
    BY DEF Outcome!vars, history
  <2>1. CASE UNCHANGED vars
    BY <2>1 DEF vars
  <2>2. ASSUME NEW m \in InFlight, Receive(m) PROVE Outcome!Next \/ UNCHANGED history
    BY <2>2, ReceiveRefines
  <2>3. ASSUME NEW m \in InFlight, Lose(m) PROVE UNCHANGED history
    BY <2>3 DEF Lose
  <2>4. ASSUME NEW n \in Node, SendConfirmed(n) \/ CheckTransaction(n) \/ Crash(n)
        PROVE  UNCHANGED history
    BY <2>4 DEF SendConfirmed, CheckTransaction, Crash
  <2> QED BY <2>1, <2>2, <2>3, <2>4 DEF Next
<1> QED BY <1>1, <1>2, Invariance, PTL DEF Spec, Outcome!Spec, ImplementsTransaction

(***************************************************************************)
(* A participant applies the records once.  With one participant the vote  *)
(* and the decision are a chain of messages, each sent when the one before *)
(* it is handled: there is never more than one of them, and none once the  *)
(* records have been applied.                                              *)
(***************************************************************************)
Votes == {"activate", "transaction", "yes", "pre_commit", "pre_committed", "commit"}

OnceInv ==
    ~Many =>
        /\ \A m, x \in InFlight : m.type \in Votes /\ x.type \in Votes => m = x
        /\ \A m \in InFlight : m.type \in Votes => net[m] = 1
        /\ applied # {} => \A m \in InFlight : m.type \notin Votes

(* How many copies of a message are left once one is taken out.            *)
LEMMA RemoveCount ==
    ASSUME NEW B, IsABag(B), NEW m \in BagToSet(B),
           NEW R, R = B (-) SetToBag({m}), NEW e \in BagToSet(R)
    PROVE  /\ e \in BagToSet(B)
           /\ e # m => R[e] = B[e]
           /\ e = m => B[m] # 1
<1> DEFINE C == [d \in DOMAIN B |-> IF d \in DOMAIN SetToBag({m})
                                    THEN B[d] - SetToBag({m})[d] ELSE B[d]]
<1>1. R = [d \in {f \in DOMAIN C : C[f] > 0} |-> C[d]]
  BY DEF (-)
<1>2. DOMAIN SetToBag({m}) = {m} /\ SetToBag({m})[m] = 1
  BY DEF SetToBag
<1>3. e \in DOMAIN R
  BY DEF BagToSet
<1>4. e \in DOMAIN C /\ C[e] > 0 /\ R[e] = C[e]
  <2> HIDE DEF C
  <2> QED BY <1>1, <1>3
<1>5. e \in DOMAIN B
  BY <1>4
<1>6. e # m => C[e] = B[e]
  BY <1>2, <1>5
<1>7. e = m => B[m] # 1
  <2> SUFFICES ASSUME e = m, B[m] = 1 PROVE FALSE
    OBVIOUS
  <2>1. C[e] = 0
    BY <1>2, <1>5
  <2> HIDE DEF C
  <2> QED BY <1>4, <2>1
<1> HIDE DEF C
<1> QED BY <1>4, <1>5, <1>6, <1>7 DEF BagToSet

LEMMA AddCount ==
    ASSUME NEW B, IsABag(B), NEW S, NEW e \in BagToSet(B (+) SetToBag(S))
    PROVE  /\ e \notin S => e \in BagToSet(B) /\ (B (+) SetToBag(S))[e] = B[e]
           /\ e \in S /\ e \notin BagToSet(B) => (B (+) SetToBag(S))[e] = 1
BY DEF IsABag, SetToBag, BagToSet, (+)

(* Message m is handled: what is in flight then is new, or was there.      *)
LEMMA ReplaceCount ==
    ASSUME IsABag(net), NEW m \in InFlight, NEW S, Replace(m, S), NEW e \in InFlight'
    PROVE  /\ e \notin S => /\ e \in InFlight /\ (e = m => net[m] # 1)
                            /\ e # m => net'[e] = net[e]
           /\ e \in S => net'[e] = 1 \/ (e \in InFlight /\ (e = m => net[m] # 1))
<1> DEFINE R == net (-) SetToBag({m})
<1>1. IsABag(R) /\ R = net (-) SetToBag({m})
  BY RemoveOne
<1>3. net' = R (+) SetToBag(S)
  BY DEF Replace
<1> HIDE DEF R
<1>2. \A d \in BagToSet(R) : /\ d \in InFlight /\ (d = m => net[m] # 1)
                             /\ d # m => R[d] = net[d]
  <2> SUFFICES ASSUME NEW d \in BagToSet(R)
               PROVE  /\ d \in InFlight /\ (d = m => net[m] # 1)
                      /\ d # m => R[d] = net[d]
    OBVIOUS
  <2>1. m \in BagToSet(net)
    BY DEF InFlight
  <2>2. /\ d \in BagToSet(net)
        /\ d # m => R[d] = net[d]
        /\ d = m => net[m] # 1
    BY <1>1, <2>1, RemoveCount
  <2> QED BY <2>2 DEF InFlight
<1>4. e \in BagToSet(R (+) SetToBag(S))
  BY <1>3 DEF InFlight
<1>5. /\ e \notin S => e \in BagToSet(R) /\ net'[e] = R[e]
      /\ e \in S /\ e \notin BagToSet(R) => net'[e] = 1
  BY <1>1, <1>3, <1>4, AddCount
<1> QED BY <1>2, <1>5

(* One message of the chain makes way for the next, or for none; the last  *)
(* one is taken to apply the records.                                      *)
LEMMA PassOn ==
    ASSUME NetInv, OnceInv, NEW m \in InFlight, NEW S, Replace(m, S),
           ~Many => \A x, y \in S : x.type \in Votes /\ y.type \in Votes => x = y,
           (\E x \in S : x.type \in Votes) => m.type \in Votes /\ applied' = applied,
           applied' = applied \/ m.type \in Votes
    PROVE  OnceInv'
<1> SUFFICES ASSUME ~Many PROVE OnceInv'
  BY DEF OnceInv
<1>1. IsABag(net)
  BY DEF NetInv
<1>2. ASSUME NEW e \in InFlight', e.type \in Votes
      PROVE  /\ e \in S \/ (e \in InFlight /\ e # m /\ m.type \notin Votes)
             /\ net'[e] = 1
  <2>1. e \in InFlight => net[e] = 1 /\ (m.type \in Votes => e = m)
    BY <1>2 DEF OnceInv
  <2>2. /\ e \notin S => /\ e \in InFlight /\ (e = m => net[m] # 1)
                         /\ e # m => net'[e] = net[e]
        /\ e \in S => net'[e] = 1 \/ (e \in InFlight /\ (e = m => net[m] # 1))
    BY <1>1, ReplaceCount
  <2>3. CASE e \notin S
    BY <2>1, <2>2, <2>3
  <2>4. CASE e \in S
    <3>1. m.type \in Votes
      BY <1>2, <2>4
    <3> QED BY <2>1, <2>2, <2>4, <3>1
  <2> QED BY <2>3, <2>4
<1>3. ASSUME NEW d \in InFlight', NEW e \in InFlight', d.type \in Votes, e.type \in Votes
      PROVE  d = e
  BY <1>2, <1>3 DEF OnceInv
<1>4. ASSUME applied' # {}, NEW e \in InFlight', e.type \in Votes PROVE FALSE
  <2>1. e \in S \/ (e \in InFlight /\ e # m /\ m.type \notin Votes)
    BY <1>2, <1>4
  <2>2. applied' = applied
    BY <1>4, <2>1
  <2> QED BY <1>4, <2>1, <2>2 DEF OnceInv
<1> QED BY <1>2, <1>3, <1>4 DEF OnceInv

LEMMA NoneAdded ==
    ASSUME OnceInv, applied' = applied,
           \A e \in InFlight' : e.type \in Votes => e \in InFlight /\ net'[e] = net[e]
    PROVE  OnceInv'
BY DEF OnceInv, Many

LEMMA SilentOnce ==
    ASSUME NetInv, OnceInv, NEW m \in InFlight, NEW S, Replace(m, S),
           \A x \in S : x.type \notin Votes,
           applied' = applied \/ m.type \in Votes
    PROVE  OnceInv'
BY PassOn

LEMMA NoSendOnce ==
    ASSUME NetInv, OnceInv, NEW m \in InFlight, NoSend(m), applied' = applied
    PROVE  OnceInv'
BY SilentOnce DEF NoSend

LEMMA SendAllOnce ==
    ASSUME NetInv, OnceInv, NEW m \in InFlight, NEW t, SendAll(m, t),
           t \in Votes => m.type \in Votes, applied' = applied
    PROVE  OnceInv'
<1> DEFINE S == {Wire(t, m.to, p) : p \in Participants}
<1>1. \A x \in S : x.type = t
  BY DEF Wire
<1>2. Replace(m, S)
  BY DEF SendAll, ReplySend
<1>3. ~Many => \A x, y \in S : x.type \in Votes /\ y.type \in Votes => x = y
  BY DEF Many
<1> HIDE DEF S
<1> QED BY <1>1, <1>2, <1>3, PassOn

LEMMA SendReplyOnce ==
    ASSUME NetInv, OnceInv, NEW m \in InFlight, NEW t, SendReply(m, t),
           t \in Votes => m.type \in Votes /\ applied' = applied,
           applied' = applied \/ m.type \in Votes
    PROVE  OnceInv'
<1> DEFINE S == {Wire(t, m.to, m.from)}
<1>1. \A x \in S : x.type = t
  BY DEF Wire
<1>2. Replace(m, S)
  BY DEF SendReply, ReplySend
<1>3. \A x, y \in S : x = y
  OBVIOUS
<1> HIDE DEF S
<1> QED BY <1>1, <1>2, <1>3, PassOn

LEMMA RecoverOnce ==
    ASSUME NetInv, OnceInv, NEW m \in InFlight, Recover(m)
    PROVE  OnceInv'
<1>1. Replace(m, {Local("recover_transaction", m.to)}) /\ applied' = applied
  BY DEF Recover, history
<1>2. Local("recover_transaction", m.to).type \notin Votes
  BY DEF Local, Votes
<1> QED BY <1>1, <1>2, SilentOnce

(* The messages of the chain.                                              *)
LEMMA VotingOnce ==
    ASSUME IInv, OnceInv, NEW m \in InFlight,
           \/ Activate(m) \/ Transaction(m) \/ Yes(m) \/ PreCommit(m)
           \/ PreCommitted(m) \/ ApplyCommit(m)
    PROVE  OnceInv'
<1>1. NetInv
  BY DEF IInv
<1>2. CASE Activate(m)
  <2>1. SendAll(m, "transaction") /\ m.type \in Votes /\ applied' = applied
    BY <1>2 DEF Activate, Handle, Votes, history
  <2> QED BY <1>1, <2>1, SendAllOnce
<1>3. CASE Transaction(m)
  <2>1. SendReply(m, "yes") /\ m.type \in Votes /\ applied' = applied
    BY <1>3 DEF Transaction, Handle, Votes
  <2> QED BY <1>1, <2>1, SendReplyOnce
<1>4. CASE Yes(m)
  <2>1. SendAll(m, "pre_commit") \/ NoSend(m)
    BY <1>4 DEF Yes
  <2>2. m.type \in Votes /\ applied' = applied
    BY <1>4 DEF Yes, Handle, Votes, history
  <2> QED BY <1>1, <2>1, <2>2, SendAllOnce, NoSendOnce
<1>5. CASE PreCommit(m)
  <2>1. (SendReply(m, "pre_committed") /\ applied' = applied) \/ Recover(m)
    BY <1>5 DEF PreCommit, history
  <2>2. m.type \in Votes
    BY <1>5 DEF PreCommit, Handle, Votes
  <2> QED BY <1>1, <2>1, <2>2, SendReplyOnce, RecoverOnce
<1>6. CASE PreCommitted(m)
  <2>1. SendAll(m, "commit") \/ SendAll(m, "abort") \/ NoSend(m)
    BY <1>6 DEF PreCommitted
  <2>2. m.type \in Votes /\ applied' = applied
    BY <1>6 DEF PreCommitted, Handle, Votes, history
  <2> QED BY <1>1, <2>1, <2>2, SendAllOnce, NoSendOnce
<1>7. CASE ApplyCommit(m)
  <2>1. SendReply(m, "commited") \/ Recover(m)
    BY <1>7 DEF ApplyCommit
  <2>2. m.type \in Votes /\ "commited" \notin Votes
    BY <1>7 DEF ApplyCommit, Handle, Votes
  <2> QED BY <1>1, <2>1, <2>2, SendReplyOnce, RecoverOnce
<1> QED BY <1>2, <1>3, <1>4, <1>5, <1>6, <1>7

(* The messages that follow the decision, and those of a recovery.         *)
LEMMA AfterwardsOnce ==
    ASSUME IInv, OnceInv, NEW m \in InFlight,
           \/ Commited(m) \/ Aborted(m) \/ RecoverTransaction(m) \/ CollectLasts(m)
           \/ Lasts(m) \/ State(m)
    PROVE  OnceInv'
<1>1. NetInv
  BY DEF IInv
<1>2. CASE Commited(m)
  <2>1. Replace(m, {Local("wm_commit_done", m.to)}) \/ Replace(m, {})
    BY <1>2 DEF Commited
  <2>2. Local("wm_commit_done", m.to).type \notin Votes /\ applied' = applied
    BY <1>2 DEF Commited, Local, Votes
  <2> QED BY <1>1, <2>1, <2>2, SilentOnce
<1>3. CASE Aborted(m)
  BY <1>1, <1>3, NoSendOnce DEF Aborted
<1>4. CASE RecoverTransaction(m)
  <2>1. Replace(m, {Local("collect_lasts", m.to)}) \/ Replace(m, {})
    BY <1>4 DEF RecoverTransaction
  <2>2. Local("collect_lasts", m.to).type \notin Votes /\ applied' = applied
    BY <1>4 DEF RecoverTransaction, Local, Votes, history
  <2> QED BY <1>1, <2>1, <2>2, SilentOnce
<1>5. CASE CollectLasts(m)
  <2>1. SendAll(m, "request_lasts") /\ "request_lasts" \notin Votes /\ applied' = applied
    BY <1>5 DEF CollectLasts, Votes, history
  <2> QED BY <1>1, <2>1, SendAllOnce
<1>6. CASE Lasts(m)
  <2>1. SendAll(m, "new_leader") \/ NoSend(m)
    BY <1>6 DEF Lasts
  <2>2. "new_leader" \notin Votes /\ applied' = applied
    BY <1>6 DEF Lasts, Votes, history
  <2> QED BY <1>1, <2>1, <2>2, SendAllOnce, NoSendOnce
<1>7. CASE State(m)
  <2>1. \/ \E q3 \in BOOLEAN :
             SendAll(m, DecisionMessage(MakeDecision(AddReply(m, m.st), q3)))
        \/ NoSend(m)
    BY <1>7 DEF State
  <2>2. m.type = "state" /\ applied' = applied
    BY <1>7 DEF State, Handle, history
  <2>3. ASSUME NEW q3 \in BOOLEAN
        PROVE  DecisionMessage(MakeDecision(AddReply(m, m.st), q3)) \notin Votes
    BY <2>2, RecoveryDecides DEF DecisionMessage, Votes
  <2> QED BY <1>1, <2>1, <2>2, <2>3, SendAllOnce, NoSendOnce
<1> QED BY <1>2, <1>3, <1>4, <1>5, <1>6, <1>7

(* What every phase accepts, and what the factory does with a message.     *)
LEMMA AnywhereOnce ==
    ASSUME IInv, OnceInv, NEW m \in InFlight,
           \/ RequestLasts(m) \/ NewLeader(m) \/ Abort(m) \/ IgnoreLate(m)
           \/ UnknownEvent(m) \/ QueueRequest(m) \/ GetTaskNodes(m) \/ Lose(m)
    PROVE  OnceInv'
<1>1. NetInv
  BY DEF IInv
<1>2. CASE RequestLasts(m)
  <2>1. SendReply(m, "lasts") /\ "lasts" \notin Votes /\ applied' = applied
    BY <1>2 DEF RequestLasts, Votes, history
  <2> QED BY <1>1, <2>1, SendReplyOnce
<1>3. CASE NewLeader(m)
  <2> DEFINE x == [Wire("state", m.to, m.from) EXCEPT !.st = st[m.to]]
  <2>1. Replace(m, {x}) /\ applied' = applied
    BY <1>3 DEF NewLeader, ReplySend, history
  <2>2. x.type \notin Votes
    BY DEF Wire, Votes
  <2> HIDE DEF x
  <2> QED BY <1>1, <2>1, <2>2, SilentOnce
<1>4. CASE Abort(m)
  <2>1. SendReply(m, "aborted") /\ "aborted" \notin Votes /\ applied' = applied
    BY <1>4 DEF Abort, Votes
  <2> QED BY <1>1, <2>1, SendReplyOnce
<1>5. CASE IgnoreLate(m)
  BY <1>1, <1>5, NoSendOnce DEF IgnoreLate, history
<1>6. CASE UnknownEvent(m)
  BY <1>1, <1>6, RecoverOnce DEF UnknownEvent
<1>7. CASE QueueRequest(m)
  <2> DEFINE x == [m EXCEPT !.at = "node"]
             S == {x, Wire("get_task_nodes", m.to, m.from)}
  <2>1. Replace(m, S) /\ applied' = applied
    BY <1>7 DEF QueueRequest, history
  <2>2. x.type = m.type
    BY <1>1 DEF NetInv, Routed, Message
  <2>3. Wire("get_task_nodes", m.to, m.from).type \notin Votes
    BY DEF Wire, Votes
  <2> HIDE DEF x
  <2>4. \A y \in S : y.type \in Votes => y = x
    BY <2>3
  <2>5. (\E y \in S : y.type \in Votes) => m.type \in Votes
    BY <2>2, <2>4
  <2> HIDE DEF S
  <2> QED BY <1>1, <2>1, <2>4, <2>5, PassOn
<1>8. CASE GetTaskNodes(m)
  <2>1. Replace(m, {Wire("task_nodes", m.to, m.from)}) \/ Replace(m, {})
    BY <1>8 DEF GetTaskNodes
  <2>2. Wire("task_nodes", m.to, m.from).type \notin Votes /\ applied' = applied
    BY <1>8 DEF GetTaskNodes, Wire, Votes, history
  <2> QED BY <1>1, <2>1, <2>2, SilentOnce
<1>9. CASE Lose(m)
  BY <1>1, <1>9, NoSendOnce DEF Lose, history
<1> QED BY <1>2, <1>3, <1>4, <1>5, <1>6, <1>7, <1>8, <1>9

(* A process that ends takes the messages that wait for it with it.        *)
LEMMA WithoutOnce ==
    ASSUME OnceInv, applied' = applied, NEW S, net' = Without(S)
    PROVE  OnceInv'
BY NoneAdded DEF Without, InFlight, BagToSet

LEMMA TaskNodesOnce ==
    ASSUME IInv, OnceInv, NEW m \in InFlight, TaskNodes(m)
    PROVE  OnceInv'
<1> DEFINE X == {x \in MailOf(m.to) : x.type \in SelfCast}
           B == Without(X)
<1>1. IsABag(net)
  BY DEF IInv, NetInv
<1>2. applied' = applied /\ m.type = "task_nodes" /\ net' = B (-) SetToBag({m})
  BY DEF TaskNodes, history
<1>3. m \notin X
  BY <1>2 DEF SelfCast
<1>4. /\ IsABag(B) /\ m \in BagToSet(B)
      /\ \A e \in BagToSet(B) : e \in InFlight /\ B[e] = net[e]
  <2> HIDE DEF X
  <2> QED BY <1>1, <1>3 DEF Without, InFlight, BagToSet, IsABag
<1> HIDE DEF B
<1>5. ASSUME NEW e \in InFlight', e.type \in Votes PROVE e \in InFlight /\ net'[e] = net[e]
  <2> DEFINE R == B (-) SetToBag({m})
  <2>1. R = B (-) SetToBag({m}) /\ net' = R
    BY <1>2
  <2> HIDE DEF R
  <2>2. e \in BagToSet(R) /\ e # m
    BY <1>2, <1>5, <2>1 DEF InFlight, Votes
  <2>3. e \in BagToSet(R) /\ R = B (-) SetToBag({m}) /\ IsABag(B) /\ m \in BagToSet(B)
    BY <1>4, <2>1, <2>2
  <2>4. e \in BagToSet(B) /\ (e # m => R[e] = B[e])
    BY ONLY <2>3, RemoveCount
  <2> QED BY <1>4, <2>1, <2>2, <2>4
<1> QED BY <1>2, <1>5, NoneAdded

LEMMA CheckTransactionOnce ==
    ASSUME IInv, OnceInv, NEW n \in Node, CheckTransaction(n)
    PROVE  OnceInv'
<1> DEFINE S == {Local("recover_transaction", n)}
<1>1. IsABag(net)
  BY DEF IInv, NetInv
<1>2. net' = net (+) SetToBag(S) /\ applied' = applied
  BY DEF CheckTransaction, history
<1>3. \A x \in S : x.type \notin Votes
  BY DEF Local, Votes
<1> HIDE DEF S
<1>4. ASSUME NEW e \in InFlight', e.type \in Votes PROVE e \in InFlight /\ net'[e] = net[e]
  <2>1. e \notin S
    BY <1>3, <1>4
  <2>2. e \in BagToSet(net (+) SetToBag(S))
    BY <1>2 DEF InFlight
  <2> QED BY <1>1, <1>2, <2>1, <2>2, AddCount DEF InFlight
<1> QED BY <1>2, <1>4, NoneAdded

LEMMA InitOnce == Init => OnceInv
<1> SUFFICES ASSUME Init PROVE OnceInv
  OBVIOUS
<1>1. net = SetToBag({Local("activate", Coord)}) /\ applied = {}
  BY DEF Init
<1>2. InFlight = {Local("activate", Coord)} /\ \A m \in InFlight : net[m] = 1
  BY <1>1 DEF InFlight, BagToSet, SetToBag
<1> QED BY <1>1, <1>2 DEF OnceInv

LEMMA StepOnce == IInv /\ OnceInv /\ [Next]_vars => OnceInv'
<1> SUFFICES ASSUME IInv, OnceInv, [Next]_vars PROVE OnceInv'
  OBVIOUS
<1>1. CASE UNCHANGED vars
  BY <1>1 DEF vars, history, OnceInv, InFlight, Many
<1>2. ASSUME NEW m \in InFlight, Receive(m) PROVE OnceInv'
  <2>1. CASE TerminateTask(m)
    BY <2>1, WithoutOnce DEF TerminateTask, history
  <2> QED BY <1>2, <2>1, VotingOnce, AfterwardsOnce, AnywhereOnce, TaskNodesOnce DEF Receive
<1>3. ASSUME NEW m \in InFlight, Lose(m) PROVE OnceInv'
  BY <1>3, AnywhereOnce
<1>4. ASSUME NEW n \in Node, SendConfirmed(n) PROVE OnceInv'
  BY <1>4 DEF SendConfirmed, history, OnceInv, InFlight, Many
<1>5. ASSUME NEW n \in Node, CheckTransaction(n) PROVE OnceInv'
  BY <1>5, CheckTransactionOnce
<1>6. ASSUME NEW n \in Node, Crash(n) PROVE OnceInv'
  BY <1>6, WithoutOnce DEF Crash, history
<1> QED BY <1>1, <1>2, <1>3, <1>4, <1>5, <1>6 DEF Next

(* No participant applies the records a second time, whatever is lost,     *)
(* timed out, recovered or restarted: wm_db:write would put back the       *)
(* values of the transaction over what has been written since.             *)
THEOREM AppliesOnce == Spec => AppliedOnce
<1>1. IInv /\ OnceInv => \A m \in InFlight :
          ApplyCommit(m) => m.to \notin applied \/ leader[m.to] # m.from
  <2> SUFFICES ASSUME IInv, OnceInv, NEW m \in InFlight, ApplyCommit(m), m.to \in applied
               PROVE  FALSE
    OBVIOUS
  <2>1. ~Many /\ applied # {}
    BY DEF IInv, OutcomeInv
  <2>2. m.type \in Votes
    BY DEF ApplyCommit, Handle, Votes
  <2> QED BY <2>1, <2>2 DEF OnceInv
<1>2. Spec => [](IInv /\ OnceInv)
  BY InitIInv, StepIInv, InitOnce, StepOnce, PTL DEF Spec
<1> QED BY <1>1, <1>2, PTL DEF AppliedOnce
=============================================================================
