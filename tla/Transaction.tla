---------------------------- MODULE Transaction ----------------------------
(***************************************************************************)
(* What a caller of wm_factory:new(commit, Records, Nodes) may rely on,    *)
(* whatever happens in between: wm_db, wm_compute and wm_scheduler see     *)
(* only the two events, and the databases of the participants.             *)
(***************************************************************************)
CONSTANTS Coord, Participants

VARIABLES
    accepted,   \* participants that have voted yes
    applied,    \* participants that have written the records
    announced   \* outcomes announced on each node

vars == <<accepted, applied, announced>>

Init ==
    /\ accepted = {}
    /\ applied = {}
    /\ announced = [n \in {Coord} \cup Participants |-> {}]

Accept(p) ==
    /\ accepted' = accepted \cup {p}
    /\ UNCHANGED <<applied, announced>>

(* The records are written only after a unanimous vote.                    *)
Apply(p) ==
    /\ accepted = Participants
    /\ applied' = applied \cup {p}
    /\ UNCHANGED <<accepted, announced>>

(* Success is announced by the coordinator, and only when it is complete.  *)
AnnounceDone ==
    /\ applied = Participants
    /\ announced' = [announced EXCEPT ![Coord] = @ \cup {"done"}]
    /\ UNCHANGED <<accepted, applied>>

(* Failure promises nothing about the participants' databases.             *)
AnnounceFailure(n) ==
    /\ announced' = [announced EXCEPT ![n] = @ \cup {"failed"}]
    /\ UNCHANGED <<accepted, applied>>

Next ==
    \/ \E p \in Participants : Accept(p) \/ Apply(p)
    \/ AnnounceDone
    \/ \E n \in {Coord} \cup Participants : AnnounceFailure(n)

Spec == Init /\ [][Next]_vars
=============================================================================
