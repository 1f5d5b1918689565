------------------------------- MODULE Commit -------------------------------
(***************************************************************************)
(* One distributed transaction of Sky Port: the state machine of           *)
(* src/lib/wm_commit.erl (E3PC) on the node that started the transaction   *)
(* and on the nodes it is propagated to, together with the parts of        *)
(* src/lib/wm_factory.erl that start a participant's process on its first  *)
(* message, forward messages to it and end it when wm_commit_done is       *)
(* announced.                                                              *)
(*                                                                         *)
(* Abstractions.  The records are one value (a participant either has      *)
(* applied them or not).  last_elected, last_attempt and their maxima only *)
(* reach make_decision, through its test Q3, which is left free here.      *)
(* A timer is the boolean "the current generation of check_transaction is  *)
(* armed": older generations are ignored by the code.  election_id is left *)
(* out: an election never reports back to a commit process, so a process   *)
(* that starts one waits exactly like one that does not.                   *)
(***************************************************************************)
EXTENDS Naturals, FiniteSets, Bags

CONSTANTS
    Coord,          \* the node whose wm_factory:new(commit, ..) starts the transaction
    Participants,   \* the nodes it is propagated to: #mstate.nodes of every process
    None,           \* the atom 'undefined', a leader nobody has set
    MaxRecoveries,  \* bound: how often a process enters recovering
    MaxLosses,      \* bound: how many messages are lost between two nodes
    MaxCrashes,     \* bound: how often an Erlang node halts and comes back
    Patient         \* TRUE: the 300 s timer fires only when nothing is in flight

Node == {Coord} \cup Participants

ASSUME ParticipantsAssumption ==
    /\ IsFiniteSet(Participants)
    /\ Participants # {}
    /\ Coord \notin Participants
    /\ None \notin Node

ASSUME BoundsAssumption ==
    /\ MaxRecoveries \in Nat
    /\ MaxLosses \in Nat
    /\ MaxCrashes \in Nat
    /\ Patient \in BOOLEAN

VARIABLES
    net,        \* bag of messages: on the wire, or waiting on their node
    st,         \* gen_statem state of each node's process, "none" without one
    leader,     \* #mstate.leader
    replies,    \* #mstate.replies; "absent" for a key the map does not have
    unconfirmed,\* a send_confirmed of the factory is still to come
    armed,      \* a check_transaction of the current generation is pending
    announced,  \* outcomes each node has announced with do_halt
    accepted,   \* history: participants that have answered yes
    applied,    \* history: participants whose database has the records
    recoveries, losses, crashes \* what has been spent of the three bounds

timer == <<unconfirmed, armed>>
proc == <<st, leader, replies>>
history == <<announced, accepted, applied>>
bounds == <<recoveries, losses, crashes>>
vars == <<net, proc, timer, history, bounds>>

Phase == {"phase1", "phase2", "phase3", "recovering"}
Reply == {"absent", "no", "yes", "pre_committed", "replied", "aborted"} \cup Phase

(***************************************************************************)
(* Messages.  Protocol messages travel between nodes through the factories *)
(* ("wire") and may wait in the factory of a node that has no process yet  *)
(* ("node").  activate, the two casts to self and the wm_commit_done event *)
(* never leave their node.                                                 *)
(***************************************************************************)
ProtocolType == {"transaction", "yes", "pre_commit", "pre_committed", "commit",
                 "commited", "abort", "aborted", "request_lasts", "lasts",
                 "new_leader", "state"}
SelfCast == {"recover_transaction", "collect_lasts"}
FactoryType == {"get_task_nodes", "task_nodes"}
LocalType == {"activate", "wm_commit_done"} \cup SelfCast

Message == [type : ProtocolType \cup FactoryType \cup LocalType,
            from : Node, to : Node, at : {"wire", "node"}, st : Phase \cup {"none"}]

Wire(t, n, d) == [type |-> t, from |-> n, to |-> d, at |-> "wire", st |-> "none"]
Local(t, n) == [type |-> t, from |-> n, to |-> n, at |-> "node", st |-> "none"]

InFlight == BagToSet(net)

(* Message m is taken and the messages in S are put in.                    *)
Replace(m, S) == net' = (net (-) SetToBag({m})) (+) SetToBag(S)

(* send_all / send_reply: message m makes its receiver send messages S,    *)
(* whose confirmation the factory then owes it.                            *)
ReplySend(m, S) ==
    /\ Replace(m, S)
    /\ unconfirmed' = [unconfirmed EXCEPT ![m.to] = TRUE]
    /\ UNCHANGED armed
SendAll(m, t) == ReplySend(m, {Wire(t, m.to, p) : p \in Participants})
SendReply(m, t) == ReplySend(m, {Wire(t, m.to, m.from)})
NoSend(m) == Replace(m, {}) /\ UNCHANGED timer

(* clean_replies: a fresh map with every node of the transaction.          *)
CleanRepliesEmpty == [p \in Participants |-> "absent"] \* mutant: starts from #{}
CleanReplies == [p \in Participants |-> "no"]
NoReplies == [p \in Participants |-> "absent"]

AllReplied(r) == \A p \in Participants : r[p] # "no"

(* quorum_of: at least trunc(size / 2 + 1) values of the map are v.        *)
QuorumOfStrict(v, r) ==    \* mutant: off by one
    Cardinality({p \in Participants : r[p] = v})
        > (Cardinality({p \in Participants : r[p] # "absent"}) \div 2) + 1
QuorumOf(v, r) ==
    Cardinality({p \in Participants : r[p] = v})
        >= (Cardinality({p \in Participants : r[p] # "absent"}) \div 2) + 1

HasReply(v, r) == \E p \in Participants : r[p] = v

(* Mutant of make_decision: the state name phase3 counts as a commit.      *)
MakeDecisionOnPhase(r, q3) ==
    IF HasReply("aborted", r) THEN "abort"
    ELSE IF HasReply("phase3", r) THEN "commit" ELSE "block"

(* make_decision; q3 is its test Q3 on the attempt numbers.                *)
MakeDecision(r, q3) ==
    CASE HasReply("aborted", r) -> "abort"
      [] ~HasReply("aborted", r) /\ HasReply("committed", r) -> "commit"
      [] ~HasReply("aborted", r) /\ ~HasReply("committed", r)
            /\ QuorumOf("pre_committed", r) /\ q3 -> "pre_commit"
      [] ~HasReply("aborted", r) /\ ~HasReply("committed", r)
            /\ QuorumOf("pre_aborted", r) /\ ~q3 -> "pre_abort"
      [] OTHER -> "block"

(* What the coordinator sends for a decision, and the phase it goes to.    *)
DecisionMessage(d) == IF d = "block" THEN "abort" ELSE d
DecisionPhase(d) == IF d \in {"pre_commit", "pre_abort"} THEN "phase2" ELSE "phase3"

-----------------------------------------------------------------------------
(* wm_factory:new has started the coordinator's process and cast activate. *)
Init ==
    /\ net = SetToBag({Local("activate", Coord)})
    /\ st = [n \in Node |-> IF n = Coord THEN "phase1" ELSE "none"]
    /\ leader = [n \in Node |-> None]
    /\ replies = [n \in Node |-> NoReplies]
    /\ unconfirmed = [n \in Node |-> FALSE]
    /\ armed = [n \in Node |-> FALSE]
    /\ announced = [n \in Node |-> {}]
    /\ accepted = {}
    /\ applied = {}
    /\ recoveries = 0 /\ losses = 0 /\ crashes = 0

(* A process in phase s handles message m of type t.                       *)
Handle(m, t, s) == m \in InFlight /\ m.type = t /\ st[m.to] = s

Goto(n, s) == st' = [st EXCEPT ![n] = s]

(* recover(): cast recover_transaction to self, wait in recovering.        *)
Recover(m) ==
    /\ recoveries < MaxRecoveries
    /\ recoveries' = recoveries + 1
    /\ Replace(m, {Local("recover_transaction", m.to)})
    /\ Goto(m.to, "recovering")
    /\ UNCHANGED <<leader, replies, timer, history, losses, crashes>>

Activate(m) ==
    /\ Handle(m, "activate", "phase1")
    /\ SendAll(m, "transaction")
    /\ leader' = [leader EXCEPT ![m.to] = m.to]
    /\ replies' = [replies EXCEPT ![m.to] = CleanReplies]
    /\ UNCHANGED <<st, history, bounds>>

Transaction(m) ==
    /\ Handle(m, "transaction", "phase1")
    /\ SendReply(m, "yes")
    /\ leader' = [leader EXCEPT ![m.to] = m.from]
    /\ Goto(m.to, "phase2")
    /\ accepted' = accepted \cup {m.to}
    /\ UNCHANGED <<replies, announced, applied, bounds>>

(* Mutant of add_reply: the tag of the event is stored.                    *)
AddReplyTag(m, v) == [replies[m.to] EXCEPT ![m.from] = m.type]

(* add_reply                                                               *)
AddReply(m, v) == [replies[m.to] EXCEPT ![m.from] = v]

Yes(m) ==
    /\ Handle(m, "yes", "phase1")
    /\ LET r == AddReply(m, "yes") IN
       IF AllReplied(r)
       THEN /\ SendAll(m, "pre_commit")
            /\ Goto(m.to, "phase2")
            /\ replies' = [replies EXCEPT ![m.to] = CleanReplies]
       ELSE /\ NoSend(m)
            /\ replies' = [replies EXCEPT ![m.to] = r]
            /\ UNCHANGED st
    /\ UNCHANGED <<leader, history, bounds>>

PreCommit(m) ==
    /\ Handle(m, "pre_commit", "phase2")
    /\ IF leader[m.to] = m.from
       THEN /\ SendReply(m, "pre_committed")
            /\ Goto(m.to, "phase3")
            /\ UNCHANGED <<leader, replies, history, bounds>>
       ELSE Recover(m)

(* Mutant: the outcome is announced as soon as the commit is sent.         *)
PreCommittedAnnounces(m) ==
    /\ Handle(m, "pre_committed", "phase2")
    /\ SendAll(m, "commit")
    /\ replies' = [replies EXCEPT ![m.to] = CleanReplies]
    /\ Goto(m.to, "phase3")
    /\ announced' = [announced EXCEPT ![m.to] = @ \cup {"done"}]
    /\ UNCHANGED <<leader, accepted, applied, bounds>>

(* With a quorum the commit goes out; without one the process goes to      *)
(* phase3 all the same, and sends abort if nobody is left to reply.        *)
PreCommitted(m) ==
    /\ Handle(m, "pre_committed", "phase2")
    /\ LET r == AddReply(m, "pre_committed") IN
       IF QuorumOf("pre_committed", r)
       THEN /\ SendAll(m, "commit")
            /\ replies' = [replies EXCEPT ![m.to] = CleanReplies]
       ELSE /\ IF AllReplied(r) THEN SendAll(m, "abort") ELSE NoSend(m)
            /\ replies' = [replies EXCEPT ![m.to] = r]
    /\ Goto(m.to, "phase3")
    /\ UNCHANGED <<leader, history, bounds>>

(* {commit, ..}: do_final_local_commit writes the records.                 *)
ApplyCommit(m) ==
    /\ Handle(m, "commit", "phase3")
    /\ IF leader[m.to] = m.from
       THEN /\ SendReply(m, "commited")
            /\ applied' = applied \cup {m.to}
            /\ UNCHANGED <<proc, announced, accepted, bounds>>
       ELSE Recover(m)

(* do_halt: announce the outcome to the node's services.                   *)
Halt(n, outcome) == announced' = [announced EXCEPT ![n] = @ \cup {outcome}]

(* wm_commit_done is also an event of the node's own factory.              *)
Commited(m) ==
    /\ Handle(m, "commited", "phase3")
    /\ LET r == AddReply(m, "yes") IN
       /\ replies' = [replies EXCEPT ![m.to] = r]
       /\ IF AllReplied(r)
          THEN /\ Replace(m, {Local("wm_commit_done", m.to)})
               /\ Halt(m.to, "done")
          ELSE Replace(m, {}) /\ UNCHANGED announced
    /\ UNCHANGED <<st, leader, timer, accepted, applied, bounds>>

AbortedReportsDone(m) ==    \* mutant: the two outcomes are swapped
    /\ Handle(m, "aborted", "phase3")
    /\ NoSend(m)
    /\ LET r == AddReply(m, "aborted") IN
       /\ replies' = [replies EXCEPT ![m.to] = r]
       /\ IF AllReplied(r) THEN Halt(m.to, "done") ELSE UNCHANGED announced
    /\ UNCHANGED <<st, leader, accepted, applied, bounds>>

Aborted(m) ==
    /\ Handle(m, "aborted", "phase3")
    /\ NoSend(m)
    /\ LET r == AddReply(m, "aborted") IN
       /\ replies' = [replies EXCEPT ![m.to] = r]
       /\ IF AllReplied(r) THEN Halt(m.to, "failed") ELSE UNCHANGED announced
    /\ UNCHANGED <<st, leader, accepted, applied, bounds>>

-----------------------------------------------------------------------------
(* Recovery.  A process that is not the leader pings the leader and waits, *)
(* with or without an election, and sends nothing.                         *)
RecoverTransactionAlone(m) ==    \* mutant: every process leads its recovery
    /\ Handle(m, "recover_transaction", "recovering")
    /\ Replace(m, {Local("collect_lasts", m.to)})
    /\ UNCHANGED <<proc, timer, history, bounds>>

RecoverTransaction(m) ==
    /\ Handle(m, "recover_transaction", "recovering")
    /\ Replace(m, IF leader[m.to] = m.to THEN {Local("collect_lasts", m.to)} ELSE {})
    /\ UNCHANGED <<proc, timer, history, bounds>>

CollectLasts(m) ==
    /\ Handle(m, "collect_lasts", "recovering")
    /\ SendAll(m, "request_lasts")
    /\ replies' = [replies EXCEPT ![m.to] = CleanReplies]
    /\ UNCHANGED <<st, leader, history, bounds>>

Lasts(m) ==
    /\ Handle(m, "lasts", "recovering")
    /\ LET r == AddReply(m, "replied") IN
       IF AllReplied(r)
       THEN /\ SendAll(m, "new_leader")
            /\ replies' = [replies EXCEPT ![m.to] = CleanReplies]
       ELSE /\ NoSend(m)
            /\ replies' = [replies EXCEPT ![m.to] = r]
    /\ UNCHANGED <<st, leader, history, bounds>>

(* Mutant: a blocked recovery tells nobody.                                *)
StateBlocks(m) ==
    /\ Handle(m, "state", "recovering")
    /\ NoSend(m)
    /\ replies' = [replies EXCEPT ![m.to] = AddReply(m, m.st)]
    /\ Goto(m.to, IF AllReplied(AddReply(m, m.st)) THEN "phase3" ELSE "recovering")
    /\ UNCHANGED <<leader, history, bounds>>

(* {state, S, From}: when everybody has replied, the decision is sent.     *)
State(m) ==
    /\ Handle(m, "state", "recovering")
    /\ LET r == AddReply(m, m.st) IN
       /\ replies' = [replies EXCEPT ![m.to] = r]
       /\ IF AllReplied(r)
          THEN \E q3 \in BOOLEAN :
                 LET d == MakeDecision(r, q3) IN
                 SendAll(m, DecisionMessage(d)) /\ Goto(m.to, DecisionPhase(d))
          ELSE NoSend(m) /\ UNCHANGED st
    /\ UNCHANGED <<leader, history, bounds>>

-----------------------------------------------------------------------------
(* handle_event: what every phase accepts.                                 *)
Alive(m, t) == m \in InFlight /\ m.type = t /\ st[m.to] # "none"

RequestLasts(m) ==
    /\ Alive(m, "request_lasts")
    /\ SendReply(m, "lasts")
    /\ UNCHANGED <<proc, history, bounds>>

NewLeader(m) ==
    /\ Alive(m, "new_leader")
    /\ ReplySend(m, {[Wire("state", m.to, m.from) EXCEPT !.st = st[m.to]]})
    /\ leader' = [leader EXCEPT ![m.to] = m.from]
    /\ UNCHANGED <<st, replies, history, bounds>>

Abort(m) ==
    /\ Alive(m, "abort")
    /\ SendReply(m, "aborted")
    /\ Halt(m.to, "failed")
    /\ UNCHANGED <<proc, accepted, applied, bounds>>

(* Late recovery replies and a late yes are ignored.                       *)
IgnoreLate(m) ==
    /\ \/ Alive(m, "state") /\ st[m.to] # "recovering"
       \/ Alive(m, "lasts") /\ st[m.to] # "recovering"
       \/ Alive(m, "yes") /\ st[m.to] # "phase1"
    /\ NoSend(m)
    /\ UNCHANGED <<proc, history, bounds>>

(* The messages the state function of a phase has a clause for, and those  *)
(* handle_event lists for all; anything else starts a recovery.            *)
Expects(t, s) ==
    CASE s = "phase1"     -> t \in {"activate", "transaction"}
      [] s = "phase2"     -> t \in {"pre_commit", "pre_committed"}
      [] s = "phase3"     -> t \in {"commit", "commited", "aborted"}
      [] s = "recovering" -> t \in SelfCast
      [] OTHER            -> FALSE
AnyPhase == {"request_lasts", "new_leader", "abort", "state", "lasts", "yes"}

UnknownEvent(m) ==
    /\ m \in InFlight
    /\ m.type \in (ProtocolType \ AnyPhase) \cup SelfCast \cup {"activate"}
    /\ st[m.to] # "none"
    /\ ~Expects(m.type, st[m.to])
    /\ Recover(m)

(* Mutant: the timer is armed only on the way out of a recovery.           *)
SendConfirmedIgnored(n) ==
    /\ unconfirmed[n]
    /\ unconfirmed' = [unconfirmed EXCEPT ![n] = FALSE]
    /\ armed' = [armed EXCEPT ![n] = st[n] = "recovering"]
    /\ UNCHANGED <<net, proc, history, bounds>>

(* {send_confirmed, _}: true or false, the process arms its timer; the     *)
(* report of a process that is gone is dropped by the factory.             *)
SendConfirmed(n) ==
    /\ unconfirmed[n]
    /\ unconfirmed' = [unconfirmed EXCEPT ![n] = FALSE]
    /\ armed' = [armed EXCEPT ![n] = st[n] # "none"]
    /\ UNCHANGED <<net, proc, history, bounds>>

(* Nothing on the wire, and nothing waits for a process that is there.     *)
Quiet == \A m \in InFlight : m.at = "node" /\ st[m.to] = "none"

(* check_transaction of the current generation: nodes is never empty.      *)
CheckTransaction(n) ==
    /\ armed[n]
    /\ Patient => Quiet
    /\ recoveries < MaxRecoveries
    /\ recoveries' = recoveries + 1
    /\ armed' = [armed EXCEPT ![n] = FALSE]
    /\ net' = net (+) SetToBag({Local("recover_transaction", n)})
    /\ Goto(n, "recovering")
    /\ UNCHANGED <<leader, replies, unconfirmed, history, losses, crashes>>

-----------------------------------------------------------------------------
(* wm_factory.  What waits on node n for n's process dies with it.         *)
MailOf(n) == {m \in InFlight : m.at = "node" /\ m.to = n}
Without(S) == [m \in InFlight \ S |-> net[m]]

(* handle_send_event, not_ready: queue the message, ask its sender for the *)
(* nodes of the task.                                                      *)
QueueRequest(m) ==
    /\ m \in InFlight /\ m.at = "wire" /\ m.type \in ProtocolType
    /\ st[m.to] = "none"
    /\ Replace(m, {[m EXCEPT !.at = "node"], Wire("get_task_nodes", m.to, m.from)})
    /\ UNCHANGED <<proc, timer, history, bounds>>

(* {get_task_nodes, Id, From}; an empty answer is ignored by its receiver. *)
GetTaskNodes(m) ==
    /\ m \in InFlight /\ m.type = "get_task_nodes"
    /\ Replace(m, IF st[m.to] # "none" THEN {Wire("task_nodes", m.to, m.from)} ELSE {})
    /\ UNCHANGED <<proc, timer, history, bounds>>

NewProcess(n, s) ==
    /\ Goto(n, s)
    /\ leader' = [leader EXCEPT ![n] = None]
    /\ replies' = [replies EXCEPT ![n] = NoReplies]
    /\ armed' = [armed EXCEPT ![n] = FALSE]

(* {task_nodes, Id, Nodes}: start_module, also over a process that is      *)
(* there already; the queued messages are released to the new one.         *)
TaskNodes(m) ==
    /\ m \in InFlight /\ m.type = "task_nodes"
    /\ net' = Without({x \in MailOf(m.to) : x.type \in SelfCast}) (-) SetToBag({m})
    /\ NewProcess(m.to, "phase1")
    /\ UNCHANGED <<unconfirmed, history, bounds>>

(* The wm_commit_done event reaches the factory: terminate_task.           *)
TerminateTask(m) ==
    /\ m \in InFlight /\ m.type = "wm_commit_done"
    /\ net' = Without(MailOf(m.to))
    /\ NewProcess(m.to, "none")
    /\ UNCHANGED <<unconfirmed, history, bounds>>

-----------------------------------------------------------------------------
(* The environment: a message is lost, an Erlang node halts and restarts   *)
(* with no commit process (its database keeps what was applied).           *)
Lose(m) ==
    /\ m \in InFlight /\ m.at = "wire"
    /\ losses < MaxLosses
    /\ losses' = losses + 1
    /\ NoSend(m)
    /\ UNCHANGED <<proc, history, recoveries, crashes>>

Crash(n) ==
    /\ crashes < MaxCrashes
    /\ st[n] # "none"
    /\ crashes' = crashes + 1
    /\ net' = Without(MailOf(n))
    /\ NewProcess(n, "none")
    /\ unconfirmed' = [unconfirmed EXCEPT ![n] = FALSE]
    /\ UNCHANGED <<history, recoveries, losses>>

Receive(m) ==
    \/ Activate(m) \/ Transaction(m) \/ Yes(m) \/ PreCommit(m) \/ PreCommitted(m)
    \/ ApplyCommit(m) \/ Commited(m) \/ Aborted(m)
    \/ RecoverTransaction(m) \/ CollectLasts(m) \/ Lasts(m) \/ State(m)
    \/ RequestLasts(m) \/ NewLeader(m) \/ Abort(m) \/ IgnoreLate(m) \/ UnknownEvent(m)
    \/ QueueRequest(m) \/ GetTaskNodes(m) \/ TaskNodes(m) \/ TerminateTask(m)

Next ==
    \/ \E m \in InFlight : Receive(m) \/ Lose(m)
    \/ \E n \in Node : SendConfirmed(n) \/ CheckTransaction(n) \/ Crash(n)

Spec == Init /\ [][Next]_vars

(* Mailboxes are drained by running processes, sends end, timers fire.     *)
Fairness ==
    /\ WF_vars(\E m \in InFlight : Receive(m))
    /\ \A n \in Node : WF_vars(SendConfirmed(n)) /\ WF_vars(CheckTransaction(n))

FairSpec == Spec /\ Fairness

-----------------------------------------------------------------------------
(***************************************************************************)
(* Properties                                                              *)
(***************************************************************************)

(* The state of every process, queue and message is one the code can hold. *)
TypeOK ==
    /\ IsABag(net) /\ InFlight \subseteq Message
    /\ st \in [Node -> Phase \cup {"none"}]
    /\ leader \in [Node -> Node \cup {None}]
    /\ replies \in [Node -> [Participants -> Reply]]
    /\ unconfirmed \in [Node -> BOOLEAN]
    /\ armed \in [Node -> BOOLEAN]
    /\ announced \in [Node -> SUBSET {"done", "failed"}]
    /\ accepted \subseteq Participants
    /\ applied \subseteq Participants
    /\ recoveries \in Nat /\ losses \in Nat /\ crashes \in Nat

(* No participant writes the records to its database (do_final_local_      *)
(* commit) before every participant has answered yes, whatever is lost,    *)
(* timed out, restarted or recovered in between.                           *)
ApplyNeedsEveryVote == applied # {} => accepted = Participants

(* wm_commit_done, on which wm_db reports reconfigured nodes, wm_compute   *)
(* hands over jobs and wm_scheduler forwards them, is only announced when  *)
(* every participant has the records.                                      *)
DoneMeansApplied ==
    \A n \in Node : "done" \in announced[n] => applied = Participants

(* make_decision has five outcomes; whatever replies a recovery collects,  *)
(* only the two that abort are ever taken.                                 *)
RecoveryOnlyAborts ==
    \A m \in InFlight : \A q3 \in BOOLEAN :
        /\ m.type = "state"
        /\ st[m.to] = "recovering"
        /\ AllReplied(AddReply(m, m.st))
        => MakeDecision(AddReply(m, m.st), q3) \in {"abort", "block"}

(* A participant applies the records at most once: they are written with   *)
(* their old revisions, so a second write would undo later changes.        *)
AppliedOnce ==
    [][\A m \in InFlight : ApplyCommit(m) => (m.to \notin applied \/ leader[m.to] # m.from)]_vars

(* Only the node that started the transaction ever sends a decision or     *)
(* starts a recovery round, also when participants time out, lose their    *)
(* leader or are started again by late messages.                           *)
DecisionsComeFromCoord ==
    \A m \in InFlight :
        m.type \in {"transaction", "pre_commit", "commit", "abort", "request_lasts",
                    "new_leader"} => m.from = Coord

(* A transaction on one node, with nothing lost and no node halted, is     *)
(* applied and reported done.                                              *)
CommitCompletes ==
    [](losses = 0 /\ crashes = 0)
        => <>(applied = Participants /\ "done" \in announced[Coord])

(* Whatever messages are lost and whichever participant restarts, the      *)
(* timer of a coordinator that stays up leads to an outcome for wm_db,     *)
(* which keeps tracking the propagation until then.                        *)
OutcomeAnnounced ==
    [](st[Coord] # "none" \/ announced[Coord] # {}) => <>(announced[Coord] # {})

(* The log texts of phase2: "Waiting for more pre_committed replies" and,  *)
(* once there is a quorum, "Quorum pre_committed -> send commit".  So with *)
(* every participant pre-committing the records are applied.               *)
PreCommitQuorumCommits ==
    (\A p \in Participants : st[p] = "phase3") ~> (applied = Participants)

(* The protocol implements the outcome its callers rely on.                *)
Outcome == INSTANCE Transaction WITH
    accepted <- accepted, applied <- applied, announced <- announced
ImplementsTransaction == Outcome!Spec

=============================================================================
